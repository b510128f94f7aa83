--------------------------- MODULE NandCombinator ---------------------------
(***************************************************************************)
(* nandcombinator.cc: the worker threads that read the networks stored by  *)
(* gatebuilder, look up the truth tables each network can offer in the     *)
(* shared knowledge ("lore"), and write a datalog line for every new one.  *)
(*                                                                         *)
(* One value of num_inputs is modelled: Knowledge, the files and the       *)
(* datalogs of different num_inputs are disjoint.  main() runs one round   *)
(* per gate count, in ascending order, and joins the threads in between.   *)
(*                                                                         *)
(* The records are data.  Catalogue() turns a network into a list of       *)
(* offers per number of outputs (module Catalogue says which); here a      *)
(* record simply IS those lists.  An offer is a search key, or NoKey for a *)
(* combination that SaveOrIgnoreResult drops because two of its outputs    *)
(* are equal.  A file that cannot be opened has no records.                *)
(*                                                                         *)
(* Records are numbered from 0 as in the code, files from 1.  The progress *)
(* display (completed, records_processed, the printf's) is left out.       *)
(***************************************************************************)
EXTENDS Naturals, FiniteSets, Sequences

CONSTANTS
  Threads,     \* the worker threads, hardware_concurrency() of them: maybe none
  NoThread,    \* a lock nobody holds
  MaxGates,    \* global_max_gates
  MaxOutputs,  \* global_max_outputs
  Group,       \* records claimed at a time ("group")
  MaxRestarts, \* bound: how often the program is killed and run again
  Keys,        \* search keys, the number of outputs included
  NoKey,       \* a combination with two equal outputs
  OutputsOf,   \* OutputsOf[k]: the number of outputs of k
  HypSize,     \* HypSize[o]: CalculateMaxSize(num_inputs, o), rounded
  Files        \* Files[g]: the files of g-gate networks, in glob order

Gates   == 1..MaxGates
Outputs == 1..MaxOutputs

KeysOf(o) == {k \in Keys : OutputsOf[k] = o}

\* The offers of one network: per number of outputs, in the order of
\* Combinations[num_gates, num_outputs].
Record == {rec \in [Outputs -> Seq(Keys \cup {NoKey})] :
             \A o \in Outputs : rec[o] \in Seq(KeysOf(o) \cup {NoKey})}

ASSUME ThreadsAssumption == NoThread \notin Threads

ASSUME SizesAssumption ==
  /\ MaxGates \in Nat \ {0}
  /\ MaxOutputs \in Nat \ {0}
  /\ Group \in Nat \ {0}
  /\ MaxRestarts \in Nat

ASSUME KeysAssumption ==
  /\ IsFiniteSet(Keys)
  /\ NoKey \notin Keys
  /\ OutputsOf \in [Keys -> Outputs]

\* hyp_size counts every set of o distinct non-trivial functions, so there
\* are never more keys with o outputs than that.
ASSUME HypSizeAssumption ==
  /\ HypSize \in [Outputs -> Nat]
  /\ \A o \in Outputs : Cardinality(KeysOf(o)) <= HypSize[o]

ASSUME FilesAssumption == Files \in [Gates -> Seq(Seq(Record))]
-----------------------------------------------------------------------------
VARIABLES
  num_gates,       \* the round main() is in
  main,            \* "begin": before test_missing, "join": waiting in join()
  next_file,       \* the file the threads take records from
  next_record,     \* next_record[f]: groups of file f claimed so far
  filenumber_lock, \* the thread that holds the mutex, or NoThread
  io_lock,         \* the thread that holds io_lock exclusively, or NoThread
  lore,            \* <<n, k>>: key k is in the set of level n (lore[n-1])
  logfps,          \* the numbers of outputs whose datalog this run opened
  datalog,         \* datalog[k]: gate counts on the lines written for k
  pc,              \* pc[t]: where thread t is
  at,              \* at[t]: the loop variables of thread t
  restarts         \* how often the program was killed so far

lockVars == <<filenumber_lock, io_lock>>
taskVars == <<next_file, next_record>>
mainVars == <<num_gates, main, restarts>>
logVars  == <<logfps, datalog>>
vars     == <<mainVars, taskVars, lockVars, lore, logVars, pc, at>>

PCs == {"start", "test", "loop", "claim", "roll", "advance", "record", "offer",
        "lookup", "lock", "recheck", "insert", "open", "log", "done"}

RoundFiles    == Files[num_gates]
NumFiles      == Len(RoundFiles)
NumRecords(f) == Len(RoundFiles[f])

\* The group that thread t would claim from its file, the record it is at,
\* the list of offers it goes through and the offer it is at.
ClaimBase(t) == next_record[at[t].file] * Group
RecordNum(t) == at[t].base + at[t].b
RecordOf(t)  == RoundFiles[at[t].file][RecordNum(t) + 1]
OffersOf(t)  == RecordOf(t)[at[t].outs]
Offer(t)     == OffersOf(t)[at[t].combo]

\* LoreSize() sums the sizes of the sets of all levels.
LoreOf(o)   == {e \in lore : OutputsOf[e[2]] = o}
LoreSize(o) == Cardinality(LoreOf(o))
Complete(o) == LoreSize(o) >= HypSize[o]
Missing     == \E o \in Outputs : ~Complete(o)

\* What the loops over the levels find: the lowest level that has k.
Levels(k)     == {n \in Gates : <<n, k>> \in lore}
FirstEntry(k) == {<<n, k>> : n \in {m \in Levels(k) : \A l \in Levels(k) : m <= l}}
\* Mutant of Known: the levels below the round's own only.
KnownBelow(k) == \E n \in Levels(k) : n < num_gates

Known(k)      == \E n \in Levels(k) : n <= num_gates

StartOfRecord == [file |-> 1, base |-> 0, b |-> 0, outs |-> 1, combo |-> 1]
-----------------------------------------------------------------------------
Init ==
  /\ num_gates = 1
  /\ main = "begin"
  /\ next_file = 1
  /\ next_record = << >>
  /\ filenumber_lock = NoThread
  /\ io_lock = NoThread
  /\ lore = {}
  /\ logfps = {}
  /\ datalog = [k \in Keys |-> << >>]
  /\ pc = [t \in Threads |-> "done"]
  /\ at = [t \in Threads |-> StartOfRecord]
  /\ restarts = 0

GoTo(t, label) == pc' = [pc EXCEPT ![t] = label]

-----------------------------------------------------------------------------
\* main(): one call of CreateNANDcombinations per gate count.

\* Every number of outputs is complete: the round returns at once.
SkipRound ==
  /\ main = "begin" /\ num_gates <= MaxGates
  /\ ~Missing
  /\ num_gates' = num_gates + 1
  /\ UNCHANGED <<main, restarts, taskVars, lockVars, lore, logVars, pc, at>>

BeginRound ==
  /\ main = "begin" /\ num_gates <= MaxGates
  /\ Missing
  /\ main' = "join"
  /\ next_file' = 1
  /\ next_record' = [f \in 1..NumFiles |-> 0]
  /\ pc' = [t \in Threads |-> "start"]
  /\ UNCHANGED <<num_gates, restarts, lockVars, lore, logVars, at>>

EndRound ==
  /\ main = "join"
  /\ \A t \in Threads : pc[t] = "done"
  /\ main' = "begin"
  /\ num_gates' = num_gates + 1
  /\ UNCHANGED <<restarts, taskVars, lockVars, lore, logVars, pc, at>>

\* The process is killed and started anew: its memory is lost, the datalog
\* files stay as they are until the new run opens them.
Restart ==
  /\ restarts < MaxRestarts
  /\ restarts' = restarts + 1
  /\ num_gates' = 1
  /\ main' = "begin"
  /\ next_file' = 1
  /\ next_record' = << >>
  /\ filenumber_lock' = NoThread
  /\ io_lock' = NoThread
  /\ lore' = {}
  /\ logfps' = {}
  /\ pc' = [t \in Threads |-> "done"]
  /\ at' = [t \in Threads |-> StartOfRecord]
  /\ UNCHANGED datalog
-----------------------------------------------------------------------------
\* The threads.  Sections under the shared lock are single steps that need
\* nobody to hold io_lock exclusively.

\* test_missing() at the start of the thread and after each group.
TestMissing(t) ==
  /\ pc[t] \in {"start", "test"}
  /\ io_lock = NoThread
  /\ GoTo(t, IF Missing THEN "loop" ELSE "done")
  /\ UNCHANGED <<mainVars, taskVars, lockVars, lore, logVars, at>>

ReadNextFile(t) ==
  /\ pc[t] = "loop"
  /\ IF next_file > NumFiles
     THEN GoTo(t, "done") /\ UNCHANGED at
     ELSE GoTo(t, "claim") /\ at' = [at EXCEPT ![t].file = next_file]
  /\ UNCHANGED <<mainVars, taskVars, lockVars, lore, logVars>>

\* Mutant of ClaimGroup: the counter is not atomic, an increment may get lost.
ClaimGroupLostUpdate(t) ==
  /\ pc[t] = "claim"
  /\ ClaimBase(t) < NumRecords(at[t].file)
  /\ \E inc \in 0..1 : next_record' = [next_record EXCEPT ![at[t].file] = @ + inc]
  /\ at' = [at EXCEPT ![t].base = ClaimBase(t), ![t].b = 0]
  /\ GoTo(t, "record")
  /\ UNCHANGED <<mainVars, next_file, lockVars, lore, logVars>>

\* next_record++ claims a group of records.
ClaimGroup(t) ==
  /\ pc[t] = "claim"
  /\ ClaimBase(t) < NumRecords(at[t].file)
  /\ next_record' = [next_record EXCEPT ![at[t].file] = @ + 1]
  /\ at' = [at EXCEPT ![t].base = ClaimBase(t), ![t].b = 0]
  /\ GoTo(t, "record")
  /\ UNCHANGED <<mainVars, next_file, lockVars, lore, logVars>>

\* Past the end of the file.  The counter is left at its first value past the
\* end: any larger value claims nothing either.
ClaimNothing(t) ==
  /\ pc[t] = "claim"
  /\ ClaimBase(t) >= NumRecords(at[t].file)
  /\ GoTo(t, "roll")
  /\ UNCHANGED <<mainVars, taskVars, lockVars, lore, logVars, at>>

TryLockFails(t) ==
  /\ pc[t] = "roll"
  /\ filenumber_lock # NoThread
  /\ GoTo(t, "loop")
  /\ UNCHANGED <<mainVars, taskVars, lockVars, lore, logVars, at>>

TryLockSucceeds(t) ==
  /\ pc[t] = "roll"
  /\ filenumber_lock = NoThread
  /\ filenumber_lock' = t
  /\ GoTo(t, "advance")
  /\ UNCHANGED <<mainVars, taskVars, io_lock, lore, logVars, at>>

\* Mutants of AdvanceFile: it does not check that the file is still the
\* current one; it returns without unlocking.
AdvanceFileBlindly(t) ==
  /\ pc[t] = "advance"
  /\ next_file' = next_file + 1
  /\ filenumber_lock' = NoThread
  /\ GoTo(t, "loop")
  /\ UNCHANGED <<mainVars, next_record, io_lock, lore, logVars, at>>

AdvanceFileKeepsLock(t) ==
  /\ pc[t] = "advance"
  /\ next_file' = IF next_file = at[t].file THEN next_file + 1 ELSE next_file
  /\ GoTo(t, "loop")
  /\ UNCHANGED <<mainVars, next_record, lockVars, lore, logVars, at>>

AdvanceFile(t) ==
  /\ pc[t] = "advance"
  /\ next_file' = IF next_file = at[t].file THEN next_file + 1 ELSE next_file
  /\ filenumber_lock' = NoThread
  /\ GoTo(t, "loop")
  /\ UNCHANGED <<mainVars, next_record, io_lock, lore, logVars, at>>

\* Mutant of NextRecord: b <= group.
NextRecordOffByOne(t) ==
  /\ pc[t] = "record"
  /\ IF at[t].b <= Group /\ RecordNum(t) < NumRecords(at[t].file)
     THEN GoTo(t, "offer") /\ at' = [at EXCEPT ![t].outs = 1, ![t].combo = 1]
     ELSE GoTo(t, "test")  /\ UNCHANGED at
  /\ UNCHANGED <<mainVars, taskVars, lockVars, lore, logVars>>

\* for(b=0; b<group; ++b): the next record of the group, if there is one.
NextRecord(t) ==
  /\ pc[t] = "record"
  /\ IF at[t].b < Group /\ RecordNum(t) < NumRecords(at[t].file)
     THEN GoTo(t, "offer") /\ at' = [at EXCEPT ![t].outs = 1, ![t].combo = 1]
     ELSE GoTo(t, "test")  /\ UNCHANGED at
  /\ UNCHANGED <<mainVars, taskVars, lockVars, lore, logVars>>
-----------------------------------------------------------------------------
\* Catalogue(): the loops over num_outputs and over the combinations.

RecordFinished(t) ==
  /\ pc[t] = "offer"
  /\ at[t].outs > MaxOutputs
  /\ at' = [at EXCEPT ![t].b = @ + 1]
  /\ GoTo(t, "record")
  /\ UNCHANGED <<mainVars, taskVars, lockVars, lore, logVars>>

\* LoreSize() is read without the lock; the race with an insert under way
\* yields the size before it or after it.
NextOutputs(t) ==
  /\ pc[t] = "offer"
  /\ at[t].outs <= MaxOutputs
  /\ at[t].combo > Len(OffersOf(t)) \/ Complete(at[t].outs)
  /\ at' = [at EXCEPT ![t].outs = @ + 1, ![t].combo = 1]
  /\ UNCHANGED <<mainVars, taskVars, lockVars, lore, logVars, pc>>

TakeOffer(t) ==
  /\ pc[t] = "offer"
  /\ at[t].outs <= MaxOutputs
  /\ at[t].combo <= Len(OffersOf(t))
  /\ ~Complete(at[t].outs)
  /\ IF Offer(t) = NoKey
     THEN at' = [at EXCEPT ![t].combo = @ + 1] /\ UNCHANGED pc
     ELSE GoTo(t, "lookup") /\ UNCHANGED at
  /\ UNCHANGED <<mainVars, taskVars, lockVars, lore, logVars>>

\* SaveOrIgnoreResult() returns: the loop goes on to the next combination.
NextOffer(t) ==
  /\ at' = [at EXCEPT ![t].combo = @ + 1]
  /\ GoTo(t, "offer")

LookUp(t) ==
  /\ pc[t] = "lookup"
  /\ io_lock = NoThread
  /\ IF Known(Offer(t)) THEN NextOffer(t) ELSE GoTo(t, "lock") /\ UNCHANGED at
  /\ UNCHANGED <<mainVars, taskVars, lockVars, lore, logVars>>

Lock(t) ==
  /\ pc[t] = "lock"
  /\ io_lock = NoThread
  /\ io_lock' = t
  /\ GoTo(t, "recheck")
  /\ UNCHANGED <<mainVars, taskVars, filenumber_lock, lore, logVars, at>>

\* Another thread may have stored the key since LookUp.
RaceEvaded(t) ==
  /\ pc[t] = "recheck"
  /\ Known(Offer(t))
  /\ io_lock' = NoThread
  /\ NextOffer(t)
  /\ UNCHANGED <<mainVars, taskVars, filenumber_lock, lore, logVars>>

\* Mutant of Recheck: no second look-up under the exclusive lock.
RecheckForgotten(t) ==
  /\ pc[t] = "recheck"
  /\ lore' = lore \ FirstEntry(Offer(t))
  /\ GoTo(t, "insert")
  /\ UNCHANGED <<mainVars, taskVars, lockVars, logVars, at>>

\* A key stored with more gates would be taken out first.
Recheck(t) ==
  /\ pc[t] = "recheck"
  /\ ~Known(Offer(t))
  /\ lore' = lore \ FirstEntry(Offer(t))
  /\ GoTo(t, "insert")
  /\ UNCHANGED <<mainVars, taskVars, lockVars, logVars, at>>

\* Mutant of Insert: the lock is released before the line is written.
InsertUnlocks(t) ==
  /\ pc[t] = "insert"
  /\ lore' = lore \cup {<<num_gates, Offer(t)>>}
  /\ io_lock' = NoThread
  /\ GoTo(t, "open")
  /\ UNCHANGED <<mainVars, taskVars, filenumber_lock, logVars, at>>

Insert(t) ==
  /\ pc[t] = "insert"
  /\ lore' = lore \cup {<<num_gates, Offer(t)>>}
  /\ GoTo(t, "open")
  /\ UNCHANGED <<mainVars, taskVars, lockVars, logVars, at>>

\* Mutant of Emptied: the file is opened with "a".
EmptiedNot(o) == datalog

\* The datalogs once the file for o outputs is opened with "w".
Emptied(o) == [k \in Keys |-> IF OutputsOf[k] = o THEN << >> ELSE datalog[k]]

\* The first line of a run for a number of outputs has to open the file: the
\* lines of an earlier run are gone before the new line is there.
OpenDatalog(t) ==
  /\ pc[t] = "open"
  /\ IF at[t].outs \in logfps
     THEN UNCHANGED logVars
     ELSE /\ datalog' = Emptied(at[t].outs)
          /\ logfps' = logfps \cup {at[t].outs}
  /\ GoTo(t, "log")
  /\ UNCHANGED <<mainVars, taskVars, lockVars, lore, at>>

\* fprintf() and fflush(): the line fits the buffer and is written at once.
WriteLine(t) ==
  /\ pc[t] = "log"
  /\ datalog' = [datalog EXCEPT ![Offer(t)] = Append(@, num_gates)]
  /\ io_lock' = NoThread
  /\ NextOffer(t)
  /\ UNCHANGED <<mainVars, taskVars, filenumber_lock, lore, logfps>>
-----------------------------------------------------------------------------
ClaimSteps(t) ==
  \/ TestMissing(t) \/ ReadNextFile(t) \/ ClaimGroup(t) \/ ClaimNothing(t)
  \/ TryLockFails(t) \/ TryLockSucceeds(t) \/ AdvanceFile(t) \/ NextRecord(t)

CatalogueSteps(t) == RecordFinished(t) \/ NextOutputs(t) \/ TakeOffer(t)

SaveSteps(t) ==
  \/ LookUp(t) \/ Lock(t) \/ RaceEvaded(t) \/ Recheck(t)
  \/ Insert(t) \/ OpenDatalog(t) \/ WriteLine(t)

Worker(t) == ClaimSteps(t) \/ CatalogueSteps(t) \/ SaveSteps(t)
Main      == SkipRound \/ BeginRound \/ EndRound

\* main() has returned.
Finished == num_gates > MaxGates /\ UNCHANGED vars

Next == Main \/ (\E t \in Threads : Worker(t)) \/ Restart \/ Finished

\* Threads are scheduled preemptively: one that can go on eventually does.
\* Nothing makes a thread win a contended lock: each lock is taken only
\* finitely often, so that weak fairness is enough.
Fairness == WF_vars(Main) /\ \A t \in Threads : WF_vars(Worker(t))

SafeSpec == Init /\ [][Next]_vars
Spec     == SafeSpec /\ Fairness
-----------------------------------------------------------------------------
\* Properties.

\* Where a thread is: at a file, at a group of it, at a record, at a key.
AtKey(t)    == pc[t] \in {"lookup", "lock", "recheck", "insert", "open", "log"}
AtRecord(t) == pc[t] = "offer" \/ AtKey(t)
InGroup(t)  == pc[t] = "record" \/ AtRecord(t)
AtFile(t)   == pc[t] \in {"claim", "roll", "advance"} \/ InGroup(t)

Places == [file : Nat \ {0}, base : Nat, b : 0..Group,
           outs : 1..(MaxOutputs + 1), combo : Nat \ {0}]

ThreadTypes == pc \in [Threads -> PCs] /\ at \in [Threads -> Places]

\* Every variable has its type; no thread leaves its group of records or the
\* numbers of outputs there are.
TypeOK ==
  /\ num_gates \in 1..MaxGates + 1
  /\ main \in {"begin", "join"}
  /\ next_file \in Nat \ {0}
  /\ filenumber_lock \in Threads \cup {NoThread}
  /\ io_lock \in Threads \cup {NoThread}
  /\ lore \subseteq Gates \X Keys
  /\ logfps \subseteq Outputs
  /\ datalog \in [Keys -> Seq(Gates)]
  /\ ThreadTypes
  /\ restarts \in 0..MaxRestarts
  /\ main = "join" => /\ num_gates <= MaxGates
                      /\ next_record \in [1..NumFiles -> Nat]

\* The keys offered by the networks of g gates, and the first round that
\* offers a key: the number of gates that the key needs (0: never offered).
OfferedIn == [g \in Gates |->
  {k \in Keys : \E f \in 1..Len(Files[g]) : \E i \in 1..Len(Files[g][f]) :
     LET rec == Files[g][f][i] IN
     \E c \in 1..Len(rec[OutputsOf[k]]) : rec[OutputsOf[k]][c] = k}]

RoundsOf(k) == {g \in Gates : k \in OfferedIn[g]}

Optimum == [k \in Keys |->
  IF RoundsOf(k) = {} THEN 0
  ELSE CHOOSE g \in RoundsOf(k) : \A h \in RoundsOf(k) : g <= h]

Stored(k) == \E n \in Gates : <<n, k>> \in lore

\* However the threads race for a key, and however often the program is run
\* again over the files of an earlier run, a datalog has one line per key:
\* the importers insert the lines into a table whose PRIMARY KEY is the key.
OneLinePerKey == \A k \in Keys : Len(datalog[k]) <= 1

\* No line tells of more gates than the key needs, because a round begins
\* only after the last thread of the round before has ended.
OptimalLines == \A k \in Keys : \A l \in 1..Len(datalog[k]) : datalog[k][l] = Optimum[k]

\* In between two rounds everything the earlier rounds offered is stored: the
\* early exits (test_missing, the unlocked LoreSize) and the way the threads
\* share the files lose no key.
RoundsComplete ==
  main = "begin" =>
    \A g \in Gates : g < num_gates => \A k \in OfferedIn[g] : Stored(k)

\* While nobody writes, the datalogs that this run has opened say exactly what
\* the lore says: no key is stored without its line or logged without entry.
LinesMatchLore ==
  io_lock = NoThread =>
    \A k \in Keys :
      IF OutputsOf[k] \in logfps
      THEN \A n \in Gates : <<n, k>> \in lore <=> datalog[k] = <<n>>
      ELSE ~Stored(k)

\* No two threads ever process the same record.
RecordsClaimedOnce ==
  \A t, u \in Threads :
    (t # u /\ InGroup(t) /\ InGroup(u) /\ at[t].file = at[u].file)
      => at[t].base # at[u].base

\* As the rounds ascend, a stored key is never taken out again: the "Result
\* updated" branch is dead, and no line of the datalog is ever superseded.
NeverReplaced == [][restarts' = restarts => lore \subseteq lore']_vars

\* The threads finish every round and main() returns, after any number of
\* kills and new runs.
Terminates == <>[](num_gates > MaxGates)

\* The datalogs are the catalogue of optimal solutions: a run loses the lines
\* of the run before only where it starts the file anew, whenever it is killed,
\* and the catalogue becomes complete.
Catalogue == INSTANCE OptimalCatalogue WITH
  Keys <- Keys, OutputsOf <- OutputsOf, Optimum <- Optimum,
  datalog <- datalog, opened <- logfps
ImplementsCatalogue     == Catalogue!Spec
ImplementsCatalogueSafe == Catalogue!SafeSpec
-----------------------------------------------------------------------------
\* The inductive invariant behind the safety properties.

\* The threads run only within a round; a thread at a record or at a key is at
\* one that exists; a group in hand has been claimed.
PlaceInv(t) ==
  /\ AtFile(t)   => at[t].file <= NumFiles
  /\ InGroup(t)  => at[t].base + Group <= next_record[at[t].file] * Group
  /\ AtRecord(t) => at[t].b < Group /\ RecordNum(t) < NumRecords(at[t].file)
  /\ AtKey(t)    => /\ at[t].outs <= MaxOutputs
                    /\ at[t].combo <= Len(OffersOf(t))
                    /\ Offer(t) # NoKey
PlacesInv ==
  /\ main = "begin" => \A t \in Threads : pc[t] = "done"
  /\ \A t \in Threads : PlaceInv(t)

\* io_lock is held exactly from the second look-up to the end of the line.
LockInv ==
  \A t \in Threads : io_lock = t <=> pc[t] \in {"recheck", "insert", "open", "log"}

\* What is stored was stored by this round or an earlier one, at one level; a
\* key about to be inserted is new, one about to be logged is stored.
LevelsInv ==
  /\ \A m, n \in Gates, k \in Keys : <<m, k>> \in lore /\ <<n, k>> \in lore => m = n
  /\ \A n \in Gates, k \in Keys : <<n, k>> \in lore => n <= num_gates
  /\ \A t \in Threads :
       /\ pc[t] = "insert"           => ~Stored(Offer(t))
       /\ pc[t] \in {"open", "log"} => <<num_gates, Offer(t)>> \in lore

\* The offers of a record up to (not including) offer c of o outputs are
\* stored, and all of them are.
StoredUpTo(rec, outs, combo) ==
  \A o \in Outputs : \A c \in 1..Len(rec[o]) :
    (o < outs \/ (o = outs /\ c < combo)) => rec[o][c] = NoKey \/ Stored(rec[o][c])
RecordStored(rec) == StoredUpTo(rec, MaxOutputs + 1, 1)

Exhausted(f) == next_record[f] * Group >= NumRecords(f)

\* Record i of file f is still ahead of thread t, in the group it has claimed.
AheadOf(t, f, i) ==
  /\ InGroup(t)
  /\ at[t].file = f
  /\ RecordNum(t) <= i
  /\ i < at[t].base + Group

\* Every record of the round is stored, or unclaimed, or ahead of a thread;
\* next_file passes exhausted files only, and threads end when nothing is left.
RecordCovered(f, i) ==
  \/ RecordStored(RoundFiles[f][i + 1])
  \/ next_record[f] * Group <= i
  \/ \E t \in Threads : AheadOf(t, f, i)
RecordsCovered == \A f \in 1..NumFiles : \A i \in 0..NumRecords(f) - 1 : RecordCovered(f, i)
FilesPassed == \A f \in 1..NumFiles : f < next_file => Exhausted(f)
Progress(t) ==
  /\ pc[t] \in {"roll", "advance"} => Exhausted(at[t].file)
  /\ AtRecord(t) => StoredUpTo(RecordOf(t), at[t].outs, at[t].combo)
  /\ pc[t] = "done" => next_file > NumFiles \/ \A k \in Keys : Stored(k)
CoverInv ==
  main = "join" => RecordsCovered /\ FilesPassed /\ \A t \in Threads : Progress(t)

\* The rounds before this one have stored whatever they offered, if there was a
\* thread to do so.
EarlierRoundsInv == Threads # {} =>
  \A g \in Gates : g < num_gates => \A k \in OfferedIn[g] : Stored(k)

\* A key is stored with as many gates as it needs; a line was written for each
\* stored key but the one in hand, and for no other; the file is open by then.
BeingLogged(k) == \E t \in Threads : pc[t] \in {"open", "log"} /\ Offer(t) = k
Logged(k)      == OutputsOf[k] \in logfps /\ datalog[k] # << >>
DatalogInv ==
  /\ \A n \in Gates, k \in Keys : <<n, k>> \in lore => n = Optimum[k]
  /\ \A k \in Keys :
       /\ datalog[k] \in {<< >>, <<Optimum[k]>>}
       /\ Logged(k) <=> Stored(k) /\ ~BeingLogged(k)
  /\ \A t \in Threads : pc[t] = "log" => at[t].outs \in logfps

StructureInv == TypeOK /\ PlacesInv /\ LockInv /\ LevelsInv
ProgressInv  == CoverInv /\ EarlierRoundsInv
IInv == StructureInv /\ ProgressInv /\ DatalogInv
=============================================================================
