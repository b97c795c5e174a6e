SPECIFICATION Spec
CONSTANTS
  Paths <- MCPaths
  Tokens <- MCTokens
  MaxTokens = 4
CONSTRAINT OneKind
CHECK_DEADLOCK FALSE
INVARIANTS TypeOK NothingLost StreamAsWhole RepairIsSafe

