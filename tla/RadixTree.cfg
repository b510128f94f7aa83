SPECIFICATION Spec
CONSTANTS
  t1 = t1
  t2 = t2
  Threads <- MCThreads
  NoThread = NoThread
  NumTrees = 2
  RealSize = 3
  Keys <- MCKeys
  Gates = {1, 2}
  Base = 2
  MaxID = 8
  MaxClears = 1
SYMMETRY MCSymmetry
CONSTRAINT BeforeOverlap
INVARIANTS TypeOK SlotsDisjoint UsedCountsNodes FindTellsTheTruth
PROPERTIES ImplementsMap
CHECK_DEADLOCK FALSE
