SPECIFICATION Spec
CONSTANTS
  MaxHistory = 1
  MaxFollowups = 1
  ChatNames = {c1}
  NoChat = NoChat
  MaxContexts = 1
  MaxTasks = 0
  MaxPrompts = 4
  MaxLen = 6
  MaxSaved = 0
INVARIANT RatedAreReplies
CHECK_DEADLOCK FALSE
