SPECIFICATION Spec
CONSTANTS
  MaxCalls = 2
  MaxTokens = 2
  MaxSwitches = 2
INVARIANTS TypeOK SpinnerBeforeText OnlyInterruptedRunOn
PROPERTIES ImplementsPromptCall InterruptReturns
CHECK_DEADLOCK FALSE
