SPECIFICATION Spec
CONSTANTS
  MaxCalls = 2
  MaxTokens = 1
  MaxSwitches = 1
INVARIANT ProviderAlive
CHECK_DEADLOCK FALSE
