SPECIFICATION ExitSpec
CONSTANTS
  Runs = {r1, r2}
  Paths = {"file", "link"}
  Places = {"in", "out"}
  Inside = {"in"}
  Links = {"link"}
  Homed = {"link"}
  Absent = Absent
  Texts = {"a", "b", "c"}
  Replies <- MCReplies
  Caps <- MCCaps
  Start <- MCStart
  Rounds = 1
  MaxStarts = 2
  MaxMoves = 1
INVARIANTS TypeOK OnePrompt EditsToldOrMade
PROPERTIES HistoryKept EditsStayInside EveryRunEnds
CHECK_DEADLOCK FALSE
