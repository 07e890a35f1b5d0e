SPECIFICATION Spec
CONSTANTS
  p1 = p1  p2 = p2  p3 = p3  b1 = b1  b2 = b2  b3 = b3
  NoPid = NoPid  NULL = NULL  Freed = Freed  Raw = Raw
  Procs = {p1}
  MAXUSER = 3  MAXX = 5  MAXY = 5  HALF = 5
  Blocks = {b1, b2}
  Commands <- AllCommands
  Sizes <- MCSizes
  Layouts <- MCLayouts
  Deltas <- MCFarDeltas
  Batches <- MCFarBatches
  WriteUnit = 2
VIEW LiveState
INVARIANTS OnlyNullFaults RandomWalkCheck
