------------------------------ MODULE TaskPool ------------------------------
(***************************************************************************)
(* What a pool of threads promises: tasks are started in the order in      *)
(* which they were submitted, each of them once, no more at a time than    *)
(* there are threads; and the pool is gone only when all have ended.       *)
(***************************************************************************)
EXTENDS Naturals, Sequences, FiniteSets

CONSTANTS
  Tasks,  \* the tasks that may be submitted
  Width   \* the number of threads

VARIABLES
  queued,    \* the tasks that wait for a thread
  running,   \* those that have one
  finished,  \* those that have ended
  closed     \* the pool is gone

vars == <<queued, running, finished, closed>>

Queued == {queued[n] : n \in 1..Len(queued)}

Init ==
  /\ queued = << >>
  /\ running = {}
  /\ finished = {}
  /\ closed = FALSE

Submit(t) ==
  /\ ~closed
  /\ t \notin Queued \cup running \cup finished
  /\ queued' = Append(queued, t)
  /\ UNCHANGED <<running, finished, closed>>

Start ==
  /\ queued # << >>
  /\ Cardinality(running) < Width
  /\ running' = running \cup {Head(queued)}
  /\ queued' = Tail(queued)
  /\ UNCHANGED <<finished, closed>>

Finish(t) ==
  /\ t \in running
  /\ running' = running \ {t}
  /\ finished' = finished \cup {t}
  /\ UNCHANGED <<queued, closed>>

Close ==
  /\ ~closed
  /\ queued = << >> /\ running = {}
  /\ closed' = TRUE
  /\ UNCHANGED <<queued, running, finished>>

Next == (\E t \in Tasks : Submit(t) \/ Finish(t)) \/ Start \/ Close

Spec == Init /\ [][Next]_vars
=============================================================================
