SPECIFICATION CarefulSpec
CONSTANTS
  Code <- Loop
  Entry = 2
  Word = 2
  BreakAddrs <- LoopBreaks
  Patches <- NoPatches
  MaxBreaks = 3
  Commands <- StepCommands
CHECK_DEADLOCK FALSE
INVARIANTS Armed NeverLost ListingTrue
PROPERTIES RunsLikeDebugger
