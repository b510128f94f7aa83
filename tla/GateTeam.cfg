\* A team of three threads of which one may have no file, killed and run again
\* at any moment, twice.
SPECIFICATION Spec
CONSTANTS
  Work <- TeamWork
  NumThreads = 3
  MAX_THREADS = 2
  MaxRestarts = 2
PROPERTIES
  NetworksComplete
