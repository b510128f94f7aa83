\* Three threads racing for the same files and keys, one kill and rerun.
SPECIFICATION Spec
CONSTANTS
  Threads = {t1, t2, t3}
  NoThread = NoThread
  MaxGates = 3
  MaxOutputs = 2
  Group = 2
  MaxRestarts = 1
  a = a
  b = b
  c = c
  NoKey = NoKey
  Keys <- MCKeys
  OutputsOf <- MCOutputsOf
  HypSize <- MCHypSize
  Files <- MCFiles
INVARIANTS
  TypeOK
  OneLinePerKey
  OptimalLines
  LinesMatchLore
  RoundsComplete
  RecordsClaimedOnce
PROPERTIES
  NeverReplaced
  ImplementsCatalogue
  Terminates
