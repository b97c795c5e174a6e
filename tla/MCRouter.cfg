SPECIFICATION Spec
CONSTANTS
  HostCount = 3
  MaxCalls = 2
  MaxTokens = 1
INVARIANTS TypeOK ActiveHost
PROPERTIES SoloBlame ImplementsStreamCall CallReturns
CHECK_DEADLOCK FALSE
