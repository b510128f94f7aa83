\* No pool is shared but pool 0 is freed by everybody.
CONSTANTS
  ThreadIDs = {0, 1}
  NumPools = 4
  Stride = 2
  PoolSize = 3
  Keys = {"a", "b", "c"}
  KeyLength <- Lengths
SPECIFICATION Spec
INVARIANTS StoredIntact
CHECK_DEADLOCK FALSE
