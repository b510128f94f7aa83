SPECIFICATION Spec
CONSTANTS
  t1 = t1
  t2 = t2
  Threads <- MCThreads
  NoThread = NoThread
  NumTrees = 1
  RealSize = 3
  Keys <- MCKeys
  Gates = {1}
  Base = 2
  MaxID = 8
  MaxClears = 0
SYMMETRY MCSymmetry
INVARIANTS LookUpsLoseNothing
CHECK_DEADLOCK FALSE
