----------------------------- MODULE GateBuilder -----------------------------
(***************************************************************************)
(* gatebuilder.cc: enumerates the networks of num_gates NAND gates over    *)
(* num_inputs inputs and stores one record for each that is of use.        *)
(*                                                                         *)
(* The wiring of a network is an array of sources, two per gate; a source  *)
(* below num_inputs is an input of the network, num_inputs + n is gate n.  *)
(* The wirings are split into jobs by the sources of the first two gates;  *)
(* the threads of an OpenMP team take the jobs one by one.  Within a job   *)
(* the rest of the array is an odometer that skips ahead wherever the code *)
(* knows that the wirings in between are of no use.                        *)
(*                                                                         *)
(* A record is its network; the truth table stored with it is a function   *)
(* of the network.  The progress display is left out.                      *)
(***************************************************************************)
EXTENDS NandNetwork

CONSTANTS
  Work,         \* the pairs <<num_inputs, num_gates>> that main() works on
  NumThreads,   \* the size of the OpenMP team
  MAX_THREADS,  \* how many threads may have a file
  MaxRestarts   \* bound: how often the program is killed and run again

Threads == 0..NumThreads - 1

ASSUME WorkAssumption ==
  /\ Work \in Seq((Nat \ {0}) \X (Nat \ {0}))
  /\ NumThreads \in Nat \ {0}
  /\ MAX_THREADS \in Nat
  /\ MaxRestarts \in Nat

VARIABLES
  round,        \* Work[round] is being worked on
  jobs,         \* the jobs of the round that were not handed out yet
  pc,           \* pc[t]: where thread t is
  gate_inputs,  \* gate_inputs[t]: the wiring thread t has arrived at
  pos,          \* pos[t]: the place in it that changes next
  handles,      \* the threads whose file of this round is open
  files,        \* files[w][t]: the networks in the file of thread t
  aborted,      \* an assertion has failed
  restarts      \* how often the program was killed so far

jobVars  == <<gate_inputs, pos>>
fileVars == <<handles, files>>
vars     == <<round, jobs, pc, jobVars, fileVars, aborted, restarts>>

Working    == round <= Len(Work) /\ ~aborted
num_inputs == Work[round][1]
num_gates  == Work[round][2]
Inputs     == 0..num_inputs - 1
Last       == 2 * num_gates - 1

Pair(g, n) == <<g[2 * n], g[2 * n + 1]>>
Network(g) == [n \in 1..num_gates |-> Pair(g, n - 1)]
-----------------------------------------------------------------------------
\* Catalogue(): the gates that are constant; if there are none, the gates that
\* copy an input.
ConstantGates(net, i) ==
  {n \in 0..Len(net) - 1 : Truth(net, i)[i + n] \in {{}, Rows(i)}}
CopyGates(net, i) ==
  {n \in 0..Len(net) - 1 : \E s \in 0..i - 1 : Truth(net, i)[i + n] = Truth(net, i)[s]}

\* Mutant of BadGates: copies of inputs go unnoticed.
BadGatesConstantOnly(net, i) == ConstantGates(net, i)

BadGates(net, i) ==
  IF ConstantGates(net, i) # {} THEN ConstantGates(net, i) ELSE CopyGates(net, i)
-----------------------------------------------------------------------------
\* The iterations <<first, second>>, <<third, fourth>> of the parallel loop
\* over i inputs, and the jobs among them: the ones that do not "continue" at
\* once.
Iterations(i) == ((0..i - 1) \X (0..i - 1)) \X ((0..i) \X (0..i))

SkipJob(job, n) ==
  \/ job[1][1] > job[1][2]
  \/ job[2][1] > job[2][2]
  \/ (n = 1) # (job[2] = <<0, 0>>)
  \/ n > 1 /\ job[1] = job[2]

Jobs(w) == IF w <= Len(Work)
           THEN {job \in Iterations(Work[w][1]) : ~SkipJob(job, Work[w][2])}
           ELSE {}

Less(a, b) == a[1] < b[1] \/ (a[1] = b[1] /\ a[2] < b[2])

\* The iterations are handed out in loop order.
InLoopOrder(job, other) == Less(job[1], other[1]) \/ (job[1] = other[1] /\ Less(job[2], other[2]))

\* The first wiring of a job: each further gate starts with the least second
\* source that makes its pair a new one.
FirstNetwork(job) ==
  LET first[n \in 1..num_gates] ==
        IF n <= 2 THEN SubSeq(job, 1, n)
        ELSE Append(first[n - 1],
               <<0, Least({s \in 0..n : \A m \in 1..n - 1 : first[n - 1][m] # <<0, s>>})>>)
  IN  first[num_gates]
FirstWiring(job) == [p \in 0..Last |-> FirstNetwork(job)[(p \div 2) + 1][(p % 2) + 1]]

Init ==
  /\ round = 1
  /\ jobs = Jobs(1)
  /\ pc = [t \in Threads |-> "idle"]
  /\ gate_inputs = [t \in Threads |-> << >>]
  /\ pos = [t \in Threads |-> 0]
  /\ handles = {}
  /\ files = [w \in 1..Len(Work) |-> [t \in Threads |-> << >>]]
  /\ aborted = FALSE
  /\ restarts = 0

GoTo(t, label) == pc' = [pc EXCEPT ![t] = label]

\* The wiring is a variable of the loop body: it is gone when a job ends.
EndJob(t) ==
  /\ GoTo(t, "idle")
  /\ gate_inputs' = [gate_inputs EXCEPT ![t] = << >>]
  /\ pos' = [pos EXCEPT ![t] = 0]

TakeJob(t) ==
  /\ Working /\ pc[t] = "idle"
  /\ \E job \in jobs :
       /\ \A other \in jobs \ {job} : InLoopOrder(job, other)
       /\ jobs' = jobs \ {job}
       /\ gate_inputs' = [gate_inputs EXCEPT ![t] = FirstWiring(job)]
  /\ pos' = [pos EXCEPT ![t] = Last]
  /\ GoTo(t, "unused")
  /\ UNCHANGED <<round, fileVars, aborted, restarts>>

\* The barrier at the end of the parallel loop; main() closes the files.
EndWork ==
  /\ Working
  /\ jobs = {}
  /\ \A t \in Threads : pc[t] = "idle"
  /\ round' = round + 1
  /\ jobs' = Jobs(round + 1)
  /\ handles' = {}
  /\ UNCHANGED <<pc, jobVars, files, aborted, restarts>>
-----------------------------------------------------------------------------
\* The body of a job.

Unused(g) == Inputs \ {g[p] : p \in 0..Last}

\* Some input is not used: only an unused input in the last place can help.
FixUnused(t) ==
  /\ Working /\ pc[t] = "unused"
  /\ LET g       == gate_inputs[t]
         helpful == {s \in Unused(g) : s > g[pos[t]]}
     IN  \/ /\ Unused(g) = {}
            /\ GoTo(t, "order") /\ UNCHANGED gate_inputs
         \/ /\ Unused(g) # {} /\ pos[t] < 4
            /\ GoTo(t, "inc") /\ UNCHANGED gate_inputs
         \/ /\ Unused(g) # {} /\ pos[t] >= 4 /\ helpful = {}
            /\ GoTo(t, "wraps") /\ UNCHANGED gate_inputs
         \/ /\ pos[t] >= 4 /\ helpful # {}
            /\ gate_inputs' = [gate_inputs EXCEPT ![t][pos[t]] = Least(helpful)]
            /\ UNCHANGED pc
  /\ UNCHANGED <<round, jobs, pos, fileVars, aborted, restarts>>

Unordered(g, n) == g[2 * n] > g[2 * n + 1]

\* Mutant of Swappable: whether gate n depends on gate m is not looked at.
SwappableAlways(g, m, n) == Less(Pair(g, n), Pair(g, m))

\* Gate n sorts before gate m and could take its place.
Swappable(g, m, n) ==
  /\ Less(Pair(g, n), Pair(g, m))
  /\ \A s \in {g[2 * n], g[2 * n + 1]} : s < num_inputs + m

\* Mutant of Misplaced: gates in the wrong order are accepted.
MisplacedSources(g) == {n \in 1..num_gates - 1 : Unordered(g, n)}

Misplaced(g) == {n \in 1..num_gates - 1 :
  Unordered(g, n) \/ \E m \in 0..n - 1 : Swappable(g, m, n)}

\* inc_from: what comes after pos is reset when pos is incremented.
IncFrom(t, gate) ==
  /\ pos' = [pos EXCEPT ![t] = 2 * gate + 1]
  /\ GoTo(t, "inc")

CheckOrder(t) ==
  /\ Working /\ pc[t] = "order"
  /\ LET g == gate_inputs[t]
         n == Least(Misplaced(g))
     IN  \/ Misplaced(g) = {} /\ GoTo(t, "catalogue") /\ UNCHANGED pos
         \/ Misplaced(g) # {} /\ Unordered(g, n) /\ GoTo(t, "inc") /\ UNCHANGED pos
         \/ Misplaced(g) # {} /\ ~Unordered(g, n) /\ IncFrom(t, n)
  /\ UNCHANGED <<round, jobs, gate_inputs, fileVars, aborted, restarts>>

SkipBadGate(t) ==
  /\ Working /\ pc[t] = "catalogue"
  /\ BadGates(Network(gate_inputs[t]), num_inputs) # {}
  /\ IncFrom(t, Least(BadGates(Network(gate_inputs[t]), num_inputs)))
  /\ UNCHANGED <<round, jobs, gate_inputs, fileVars, aborted, restarts>>

\* The first record of a thread opens its file with "wb".
Record(t) ==
  /\ Working /\ pc[t] = "catalogue"
  /\ BadGates(Network(gate_inputs[t]), num_inputs) = {}
  /\ t < MAX_THREADS
  /\ files' = [files EXCEPT ![round][t] =
                 Append(IF t \in handles THEN @ ELSE << >>, Network(gate_inputs[t]))]
  /\ handles' = handles \cup {t}
  /\ GoTo(t, "inc")
  /\ UNCHANGED <<round, jobs, jobVars, aborted, restarts>>

\* assert(thr < MAX_THREADS)
Abort(t) ==
  /\ Working /\ pc[t] = "catalogue"
  /\ BadGates(Network(gate_inputs[t]), num_inputs) = {}
  /\ t >= MAX_THREADS
  /\ aborted' = TRUE
  /\ UNCHANGED <<round, jobs, pc, jobVars, fileVars, restarts>>

\* Place p becomes s, and what follows is reset: the second source of a gate
\* starts as a copy of the first.
Reset(g, p, s) == [q \in 0..Last |->
  IF q < p THEN g[q]
  ELSE IF q = p \/ (q = p + 1 /\ p % 2 = 0) THEN s ELSE 0]

HasDuplicates(g) ==
  \E m, n \in 0..num_gates - 1 : m < n /\ Pair(g, m) = Pair(g, n)

\* Gates that negate a gate that is itself a negation.
IsNot(g, n) == g[2 * n] = g[2 * n + 1]
NotNots(g)  == {n \in 1..num_gates - 1 :
  IsNot(g, n) /\ g[2 * n] >= num_inputs /\ IsNot(g, g[2 * n] - num_inputs)}

JobDone(t) ==
  /\ Working /\ pc[t] = "inc" /\ pos[t] < 4
  /\ EndJob(t)
  /\ UNCHANGED <<round, jobs, fileVars, aborted, restarts>>

\* Mutants of Increment: a place may refer to its own gate; a wiring with a
\* duplicate pair is put back and tried again.
IncrementTooFar(t) ==
  /\ Working /\ pc[t] = "inc" /\ pos[t] >= 4
  /\ LET s == gate_inputs[t][pos[t]] + 1
         g == Reset(gate_inputs[t], pos[t], s)
     IN  IF s > num_inputs + (pos[t] \div 2)
         THEN GoTo(t, "wraps") /\ UNCHANGED jobVars
         ELSE gate_inputs' = [gate_inputs EXCEPT ![t] = g]
              /\ pos' = [pos EXCEPT ![t] = Last] /\ GoTo(t, "unused")
  /\ UNCHANGED <<round, jobs, fileVars, aborted, restarts>>

IncrementPutBack(t) ==
  /\ Working /\ pc[t] = "inc" /\ pos[t] >= 4
  /\ LET s == gate_inputs[t][pos[t]] + 1
         g == Reset(gate_inputs[t], pos[t], s)
     IN  IF s >= num_inputs + (pos[t] \div 2)
         THEN GoTo(t, "wraps") /\ UNCHANGED jobVars
         ELSE IF HasDuplicates(g) THEN UNCHANGED <<pc, jobVars>>
         ELSE gate_inputs' = [gate_inputs EXCEPT ![t] = g]
              /\ pos' = [pos EXCEPT ![t] = Last] /\ GoTo(t, "unused")
  /\ UNCHANGED <<round, jobs, fileVars, aborted, restarts>>

Increment(t) ==
  /\ Working /\ pc[t] = "inc" /\ pos[t] >= 4
  /\ LET s == gate_inputs[t][pos[t]] + 1
         g == Reset(gate_inputs[t], pos[t], s)
     IN  IF s >= num_inputs + (pos[t] \div 2)
         THEN GoTo(t, "wraps") /\ UNCHANGED jobVars
         ELSE /\ gate_inputs' = [gate_inputs EXCEPT ![t] = g]
              /\ \/ HasDuplicates(g) /\ pos' = [pos EXCEPT ![t] = Last] /\ GoTo(t, "inc")
                 \/ ~HasDuplicates(g) /\ NotNots(g) # {} /\ IncFrom(t, Least(NotNots(g)))
                 \/ ~HasDuplicates(g) /\ NotNots(g) = {} /\ pos' = [pos EXCEPT ![t] = Last]
                    /\ GoTo(t, "unused")
  /\ UNCHANGED <<round, jobs, fileVars, aborted, restarts>>

Wrap(t) ==
  /\ Working /\ pc[t] = "wraps"
  /\ IF pos[t] = 4
     THEN EndJob(t)
     ELSE /\ gate_inputs' = [gate_inputs EXCEPT ![t][pos[t]] = 0]
          /\ pos' = [pos EXCEPT ![t] = @ - 1]
          /\ GoTo(t, "inc")
  /\ UNCHANGED <<round, jobs, fileVars, aborted, restarts>>
-----------------------------------------------------------------------------
\* What a kill leaves of a file: an open one lacks the records in its buffer.
Kept(t) == IF t \in handles
           THEN {SubSeq(files[round][t], 1, n) : n \in 0..Len(files[round][t])}
           ELSE {files[round][t]}

\* Mutant of Restart: the new run goes on with the job after the last one that
\* was handed out.
RestartResumes ==
  /\ Working /\ restarts < MaxRestarts
  /\ restarts' = restarts + 1
  /\ \E kept \in [Threads -> UNION {Kept(t) : t \in Threads}] :
       /\ \A t \in Threads : kept[t] \in Kept(t)
       /\ files' = [files EXCEPT ![round] = kept]
  /\ pc' = [t \in Threads |-> "idle"]
  /\ gate_inputs' = [t \in Threads |-> << >>]
  /\ pos' = [t \in Threads |-> 0]
  /\ handles' = {}
  /\ UNCHANGED <<round, jobs, aborted>>

\* The program is killed and run again.
Restart ==
  /\ Working /\ restarts < MaxRestarts
  /\ restarts' = restarts + 1
  /\ \E kept \in [Threads -> UNION {Kept(t) : t \in Threads}] :
       /\ \A t \in Threads : kept[t] \in Kept(t)
       /\ files' = [files EXCEPT ![round] = kept]
  /\ round' = 1
  /\ jobs' = Jobs(1)
  /\ pc' = [t \in Threads |-> "idle"]
  /\ gate_inputs' = [t \in Threads |-> << >>]
  /\ pos' = [t \in Threads |-> 0]
  /\ handles' = {}
  /\ UNCHANGED aborted

Worker(t) ==
  \/ TakeJob(t) \/ FixUnused(t) \/ CheckOrder(t) \/ SkipBadGate(t) \/ Record(t)
  \/ Abort(t) \/ JobDone(t) \/ Increment(t) \/ Wrap(t)

Finished == ~Working /\ UNCHANGED vars

Next == (\E t \in Threads : Worker(t)) \/ EndWork \/ Restart \/ Finished

\* The threads of the team are scheduled preemptively.
Fairness == WF_vars(EndWork) /\ \A t \in Threads : WF_vars(Worker(t))

Spec == Init /\ [][Next]_vars /\ Fairness
-----------------------------------------------------------------------------
\* Properties.

\* Every variable has its type, and every wiring a thread arrives at is free of
\* loops: the sources of a gate are inputs and earlier gates.
TypeOK ==
  /\ round \in 1..Len(Work) + 1
  /\ handles \subseteq Threads
  /\ aborted \in BOOLEAN
  /\ restarts \in 0..MaxRestarts
  /\ pc \in [Threads -> {"idle", "unused", "order", "catalogue", "inc", "wraps"}]
  /\ jobs \subseteq Jobs(round)
  /\ \A t \in Threads : pc[t] # "idle" =>
       /\ pos[t] \in 0..Last
       /\ DOMAIN gate_inputs[t] = 0..Last
       /\ \A p \in 0..Last : gate_inputs[t][p] \in 0..num_inputs + (p \div 2) - 1

RecordsOf(w, t)  == {files[w][t][r] : r \in 1..Len(files[w][t])}
NetworksOf(w)    == UNION {RecordsOf(w, t) : t \in Threads}
WorkDone         == round' = round + 1

\* Nothing is lost by the ways the odometer skips ahead, nor when the work is
\* split among threads or begun again after a kill: when main() goes on, every
\* useful network is in some file, up to the numbers of its gates.
NetworksComplete == [][WorkDone =>
  LET built == UNION {Class(net, num_inputs) : net \in NetworksOf(round)} IN
  \A net \in LoopFree(num_inputs, num_gates) : IsUseful(net, num_inputs) => net \in built]_vars

\* "Generates all unique combinations": no two records are the same network
\* but for the numbers of the gates - unless an earlier run left files behind.
NetworksUnique == [][WorkDone /\ restarts = 0 =>
  Cardinality({Class(net, num_inputs) : net \in NetworksOf(round)})
    = Cardinality(UNION {{<<t, r>> : r \in 1..Len(files[round][t])} : t \in Threads})]_vars

\* Every record is a useful network: nandcombinator relies on it and does not
\* check for constants and copies of inputs again.
NetworksUseful == [][WorkDone =>
  \A net \in NetworksOf(round) : IsUseful(net, num_inputs)]_vars

\* Every job ends although the odometer jumps back and forth, and main()
\* returns (or the assertion on the number of threads stops it).
Terminates == <>~Working
=============================================================================
