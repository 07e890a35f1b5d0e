SPECIFICATION FairSpec
CONSTANTS
    Mazes <- MCStartable
    Links <- MCLinks
    NMoves = 4
CHECK_DEADLOCK FALSE
INVARIANTS SearchComplete MazeRestored ReplayFollows OverflowNeedsCells
PROPERTIES Ends
