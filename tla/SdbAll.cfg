SPECIFICATION FairSpec
CONSTANTS
  Code <- Straight
  Entry = 2
  Word = 2
  BreakAddrs <- StraightBreaks
  Patches <- OnePatch
  MaxBreaks = 2
  Commands <- AllCommands
CHECK_DEADLOCK FALSE
INVARIANTS TypeOK
PROPERTIES CommandsReturn
