-------------------------- MODULE OptimalCatalogue --------------------------
(***************************************************************************)
(* What the datalog files promise to whoever imports them (README,         *)
(* "nandcombinator"): at most one line per search key, and that line       *)
(* carries the smallest number of gates for which the key can be built at  *)
(* all.  Which thread finds the key, in which file and in which order, is  *)
(* invisible at this level.  What is visible is that a run empties the     *)
(* file of a number of outputs before it writes its first line there: a    *)
(* run that is killed in between leaves fewer lines than it found.         *)
(***************************************************************************)
EXTENDS Naturals, Sequences

CONSTANTS
  Keys,       \* every search key: the truth tables of a set of outputs
  OutputsOf,  \* OutputsOf[k]: the number of outputs of k, its datalog file
  Optimum     \* Optimum[k]: the fewest gates that build k; 0 if nothing does

VARIABLES
  datalog,    \* datalog[k]: the gate counts on the lines written for k
  opened      \* the numbers of outputs whose file this run has opened

vars == <<datalog, opened>>

Buildable == {k \in Keys : Optimum[k] # 0}

Init ==
  /\ datalog = [k \in Keys |-> << >>]
  /\ opened = {}

\* Only a file that gets a line is opened.
Open(o) ==
  /\ o \notin opened
  /\ opened' = opened \cup {o}
  /\ datalog' = [k \in Keys |-> IF OutputsOf[k] = o THEN << >> ELSE datalog[k]]

Publish(k) ==
  /\ OutputsOf[k] \in opened
  /\ datalog[k] = << >>
  /\ datalog' = [datalog EXCEPT ![k] = <<Optimum[k]>>]
  /\ UNCHANGED opened

\* The program is killed and run again.
NewRun == opened' = {} /\ UNCHANGED datalog

Next ==
  \/ \E k \in Buildable : Open(OutputsOf[k]) \/ Publish(k)
  \/ NewRun

Fairness == \A k \in Buildable : WF_vars(Open(OutputsOf[k])) /\ WF_vars(Publish(k))

SafeSpec == Init /\ [][Next]_vars
Spec     == SafeSpec /\ Fairness
=============================================================================
