\* One thread: the odometer itself.
SPECIFICATION Spec
CONSTANTS
  Work <- SingleWork
  NumThreads = 1
  MAX_THREADS = 8
  MaxRestarts = 0
INVARIANTS
  TypeOK
PROPERTIES
  NetworksComplete
  NetworksUnique
  NetworksUseful
  Terminates
