\* No pool is shared.  The program ends when the memory is used up.
CONSTANTS
  ThreadIDs = {0, 1}
  NumPools = 4
  Stride = 2
  PoolSize = 3
  Keys = {"a", "b", "c"}
  KeyLength <- Lengths
SPECIFICATION Spec
INVARIANTS TypeOK IntactElsewhere NoLeak
CHECK_DEADLOCK FALSE
