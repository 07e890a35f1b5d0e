SPECIFICATION Spec
CONSTANTS
  Code <- Straight
  Entry = 2
  Word = 2
  BreakAddrs <- StraightBreaks
  Patches <- NoPatches
  MaxBreaks = 2
  Commands <- AllCommands
CHECK_DEADLOCK FALSE
INVARIANTS EnterLeave
