\* Two threads, an owner and a second user who waits.
SPECIFICATION Spec
CONSTANTS
  Runners = {r1, r2}
  Users = {main, helper}
  Owner = main
  Submitters = {main}
  Waiters = {helper}
  Limits = {3}
  NoThread = NoThread
  MaxCalls <- MCMaxCalls
  MaxLimit = 3
  main = main
  helper = helper
  MaxSpurious = 1
INVARIANTS
  TypeOK
  NoLostWakeup
  EachIndexOnce
PROPERTIES
  KeepsPromise
  Terminates
