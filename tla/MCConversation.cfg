SPECIFICATION Spec
CONSTANTS
  MaxHistory = 1
  MaxFollowups = 2
  ChatNames = {c1}
  NoChat = NoChat
  MaxContexts = 1
  MaxTasks = 1
  MaxPrompts = 3
  MaxLen = 5
  MaxSaved = 2
INVARIANTS TypeOK RequestEndsWithUser AsksAnswered
PROPERTIES InterruptRollsBack PromptSurvives PromptReturns
CHECK_DEADLOCK FALSE
