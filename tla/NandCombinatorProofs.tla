----------------------- MODULE NandCombinatorProofs -----------------------
(***************************************************************************)
(* The safety properties of NandCombinator, for every number of threads,   *)
(* every set of files and records, and every number of kills and reruns.   *)
(***************************************************************************)
EXTENDS NandCombinator, TLAPS, FiniteSetTheorems

USE SizesAssumption

\* The offers of a record are keys with the right number of outputs, or NoKey.
LEMMA RecordType ==
  ASSUME NEW g \in Gates,
         NEW f \in 1..Len(Files[g]), NEW i \in 1..Len(Files[g][f]),
         NEW o \in Outputs
  PROVE  /\ Files[g] \in Seq(Seq(Record))
         /\ Files[g][f] \in Seq(Record)
         /\ Files[g][f][i] \in Record
         /\ Files[g][f][i][o] \in Seq(KeysOf(o) \cup {NoKey})
         /\ \A c \in 1..Len(Files[g][f][i][o]) :
              Files[g][f][i][o][c] \in KeysOf(o) \cup {NoKey}
<1>1. Files[g] \in Seq(Seq(Record))
  BY FilesAssumption
<1>2. Files[g][f] \in Seq(Record)
  BY <1>1
<1>3. Files[g][f][i] \in Record
  BY <1>2
<1>4. Files[g][f][i][o] \in Seq(KeysOf(o) \cup {NoKey})
  BY <1>3 DEF Record
<1>5. \A c \in 1..Len(Files[g][f][i][o]) :
        Files[g][f][i][o][c] \in KeysOf(o) \cup {NoKey}
  BY <1>4
<1> QED
  BY <1>1, <1>2, <1>3, <1>4, <1>5

\* Lengths are natural numbers.
LEMMA LengthType ==
  ASSUME TypeOK, main = "join"
  PROVE  /\ num_gates \in Gates
         /\ NumFiles \in Nat
         /\ \A f \in 1..NumFiles : NumRecords(f) \in Nat
<1>1. num_gates \in Gates
  BY DEF TypeOK, Gates
<1>2. RoundFiles \in Seq(Seq(Record))
  BY <1>1, FilesAssumption DEF RoundFiles
<1>3. \A f \in 1..NumFiles : RoundFiles[f] \in Seq(Record)
  BY <1>2 DEF NumFiles
<1> QED
  BY <1>1, <1>2, <1>3 DEF NumFiles, NumRecords

\* The loop variables of a thread.
LEMMA AtType ==
  ASSUME TypeOK, NEW t \in Threads
  PROVE  /\ at[t].file \in Nat \ {0}
         /\ at[t].base \in Nat
         /\ at[t].b \in 0..Group
         /\ at[t].outs \in 1..MaxOutputs + 1
         /\ at[t].combo \in Nat \ {0}
         /\ RecordNum(t) \in Nat
         /\ pc[t] \in PCs
<1>1. at[t] \in Places /\ pc[t] \in PCs
  BY DEF TypeOK, ThreadTypes
<1> QED
  BY <1>1 DEF RecordNum, Places

\* What a thread at a record or at a key has in hand.
LEMMA InHand ==
  ASSUME TypeOK, PlacesInv, main = "join", NEW t \in Threads, AtRecord(t)
  PROVE  /\ at[t].file \in 1..NumFiles
         /\ RecordNum(t) \in 0..NumRecords(at[t].file) - 1
         /\ RecordOf(t) \in Record
         /\ at[t].outs <= MaxOutputs =>
              /\ OffersOf(t) \in Seq(KeysOf(at[t].outs) \cup {NoKey})
              /\ \A c \in 1..Len(OffersOf(t)) :
                   OffersOf(t)[c] \in KeysOf(at[t].outs) \cup {NoKey}
         /\ AtKey(t) => Offer(t) \in KeysOf(at[t].outs)
<1>1. at[t].file \in 1..NumFiles
  BY LengthType, AtType DEF PlacesInv, PlaceInv, AtFile, InGroup
<1>2. RecordNum(t) \in 0..NumRecords(at[t].file) - 1
  BY <1>1, LengthType, AtType DEF PlacesInv, PlaceInv
<1>3. RecordNum(t) + 1 \in 1..Len(Files[num_gates][at[t].file])
  BY <1>1, <1>2, LengthType DEF NumRecords, RoundFiles
<1>4. num_gates \in Gates /\ at[t].file \in 1..Len(Files[num_gates])
  BY <1>1, LengthType DEF NumFiles, RoundFiles
<1>5. RecordOf(t) \in Record
  BY <1>3, <1>4, FilesAssumption DEF RecordOf, RoundFiles
<1>6. ASSUME at[t].outs <= MaxOutputs
      PROVE  /\ OffersOf(t) \in Seq(KeysOf(at[t].outs) \cup {NoKey})
             /\ \A c \in 1..Len(OffersOf(t)) :
                   OffersOf(t)[c] \in KeysOf(at[t].outs) \cup {NoKey}
  <2>1. at[t].outs \in Outputs
    BY <1>6, AtType DEF Outputs
  <2>2. OffersOf(t) \in Seq(KeysOf(at[t].outs) \cup {NoKey})
    BY <1>5, <2>1 DEF Record, OffersOf
  <2> QED
    BY <2>2
<1>7. ASSUME AtKey(t)
      PROVE  Offer(t) \in KeysOf(at[t].outs)
  <2>1. /\ at[t].outs <= MaxOutputs
        /\ at[t].combo \in 1..Len(OffersOf(t))
        /\ Offer(t) # NoKey
    BY <1>7, <1>6, AtType DEF PlacesInv, PlaceInv
  <2> QED
    BY <2>1, <1>6 DEF Offer
<1> QED
  BY <1>1, <1>2, <1>5, <1>6, <1>7

\* Threads run only while main() waits for them.
LEMMA Running ==
  ASSUME TypeOK, PlacesInv, NEW t \in Threads, pc[t] # "done"
  PROVE  main = "join"
  BY DEF TypeOK, PlacesInv

LEMMA NextOutputsPlace ==
  ASSUME at \in [Threads -> Places], NEW t \in Threads,
         at[t].outs + 1 \in 1..MaxOutputs + 1
  PROVE  [at EXCEPT ![t].outs = @ + 1, ![t].combo = 1] \in [Threads -> Places]
<1>1. [at EXCEPT ![t].outs = @ + 1] \in [Threads -> Places]
  BY DEF Places
<1>2. \A q \in [Threads -> Places] : [q EXCEPT ![t].combo = 1] \in [Threads -> Places]
  BY DEF Places
<1> QED
  BY <1>1, <1>2

LEMMA ThreadTypesStep ==
  ASSUME TypeOK, PlacesInv, NEW t \in Threads, Worker(t)
  PROVE  ThreadTypes'
<1> DEFINE OkAt == at' \in [Threads -> Places]
           OkPc == pc' \in [Threads -> PCs]
<1>a. at \in [Threads -> Places] /\ pc \in [Threads -> PCs]
  BY DEF TypeOK, ThreadTypes
<1>b. at[t].combo + 1 \in Nat \ {0}
  BY AtType
<1>c. \A l \in PCs : GoTo(t, l) => OkPc
  BY <1>a DEF GoTo
<1>d. NextOffer(t) => OkAt /\ OkPc
  BY <1>a, <1>b, <1>c DEF NextOffer, Places, PCs
<1>1. CASE TestMissing(t)
  BY <1>1, <1>a, <1>c DEF TestMissing, PCs, ThreadTypes
<1>2. CASE ReadNextFile(t)
  <2>1. OkPc
    BY <1>2, <1>a, <1>c DEF ReadNextFile, PCs
  <2>2. OkAt
    <3>1. next_file \in Nat \ {0}
      BY DEF TypeOK
    <3> QED
      BY <1>2, <1>a, <3>1 DEF ReadNextFile, Places
  <2> QED
    BY <2>1, <2>2 DEF ThreadTypes
<1>3. CASE ClaimGroup(t)
  <2>1. OkPc
    BY <1>3, <1>a, <1>c DEF ClaimGroup, PCs
  <2>2. OkAt
    <3>1. ClaimBase(t) \in Nat /\ 0 \in 0..Group
      <4>1. at[t].file \in 1..NumFiles /\ next_record \in [1..NumFiles -> Nat]
        <5>1. main = "join" /\ at[t].file <= NumFiles
          BY <1>3, Running DEF ClaimGroup, PlacesInv, PlaceInv, AtFile
        <5>2. next_record \in [1..NumFiles -> Nat]
          BY <5>1 DEF TypeOK
        <5> QED
          BY <5>1, <5>2, AtType, LengthType
      <4> QED
        BY <4>1 DEF ClaimBase
    <3> QED
      BY <1>3, <1>a, <3>1 DEF ClaimGroup, Places
  <2> QED
    BY <2>1, <2>2 DEF ThreadTypes
<1>4. CASE ClaimNothing(t)
  BY <1>4, <1>a, <1>c DEF ClaimNothing, PCs, ThreadTypes
<1>5. CASE TryLockFails(t)
  BY <1>5, <1>a, <1>c DEF TryLockFails, PCs, ThreadTypes
<1>6. CASE TryLockSucceeds(t)
  BY <1>6, <1>a, <1>c DEF TryLockSucceeds, PCs, ThreadTypes
<1>7. CASE AdvanceFile(t)
  BY <1>7, <1>a, <1>c DEF AdvanceFile, PCs, ThreadTypes
<1>8. CASE NextRecord(t)
  <2>1. OkPc
    BY <1>8, <1>a, <1>c DEF NextRecord, PCs
  <2>2. OkAt
    BY <1>8, <1>a DEF NextRecord, Places
  <2> QED
    BY <2>1, <2>2 DEF ThreadTypes
<1>9. CASE RecordFinished(t)
  <2>1. OkPc
    BY <1>9, <1>a, <1>c DEF RecordFinished, PCs
  <2>2. OkAt
    <3>1. at[t].b + 1 \in 0..Group
      BY <1>9, AtType DEF RecordFinished, PlacesInv, PlaceInv, AtRecord
    <3> QED
      BY <1>9, <1>a, <3>1 DEF RecordFinished, Places
  <2> QED
    BY <2>1, <2>2 DEF ThreadTypes
<1>10. CASE NextOutputs(t)
  <2>1. OkPc
    BY <1>10, <1>a, <1>c DEF NextOutputs, PCs
  <2>2. OkAt
    <3>1. at[t].outs + 1 \in 1..MaxOutputs + 1
      BY <1>10, AtType DEF NextOutputs
    <3>2. at' = [at EXCEPT ![t].outs = @ + 1, ![t].combo = 1]
      BY <1>10 DEF NextOutputs
    <3>3. [at EXCEPT ![t].outs = @ + 1, ![t].combo = 1] \in [Threads -> Places]
      BY <1>a, <3>1, NextOutputsPlace
    <3> QED
      BY <3>2, <3>3
  <2> QED
    BY <2>1, <2>2 DEF ThreadTypes
<1>11. CASE TakeOffer(t)
  <2>1. OkPc
    BY <1>11, <1>a, <1>c DEF TakeOffer, PCs
  <2>2. OkAt
    <3>1. at' = at \/ at' = [at EXCEPT ![t].combo = @ + 1]
      BY <1>11 DEF TakeOffer
    <3> QED
      BY <1>a, <1>b, <3>1 DEF Places
  <2> QED
    BY <2>1, <2>2 DEF ThreadTypes
<1>12. CASE LookUp(t)
  BY <1>12, <1>a, <1>c, <1>d DEF LookUp, PCs, ThreadTypes
<1>13. CASE Lock(t)
  BY <1>13, <1>a, <1>c DEF Lock, PCs, ThreadTypes
<1>14. CASE RaceEvaded(t)
  BY <1>14, <1>d DEF RaceEvaded, ThreadTypes
<1>15. CASE Recheck(t)
  BY <1>15, <1>a, <1>c DEF Recheck, PCs, ThreadTypes
<1>16. CASE Insert(t)
  BY <1>16, <1>a, <1>c DEF Insert, PCs, ThreadTypes
<1>17. CASE OpenDatalog(t)
  BY <1>17, <1>a, <1>c DEF OpenDatalog, PCs, ThreadTypes
<1>18. CASE WriteLine(t)
  BY <1>18, <1>d DEF WriteLine, ThreadTypes
<1> QED
  BY <1>1, <1>2, <1>3, <1>4, <1>5, <1>6, <1>7, <1>8, <1>9, <1>10, <1>11, <1>12, <1>13, <1>14, <1>15, <1>16, <1>17, <1>18
     DEF Worker, ClaimSteps, CatalogueSteps, SaveSteps

LEMMA CounterType ==
  ASSUME NEW S, NEW h \in [S -> Nat], NEW x \in S
  PROVE  [h EXCEPT ![x] = @ + 1] \in [S -> Nat]
  OBVIOUS

\* The shared variables keep their types as well.
LEMMA TypeStep ==
  ASSUME TypeOK, PlacesInv, [Next]_vars
  PROVE  TypeOK'
<1>1. CASE SkipRound
  BY <1>1 DEF SkipRound, TypeOK, ThreadTypes, mainVars, taskVars, lockVars, logVars
<1>2. CASE BeginRound
  BY <1>2 DEF BeginRound, TypeOK, ThreadTypes, PCs, NumFiles, RoundFiles, lockVars, logVars
<1>3. CASE EndRound
  BY <1>3 DEF EndRound, TypeOK, ThreadTypes, taskVars, lockVars, logVars
<1>4. CASE Restart
  BY <1>4 DEF Restart, TypeOK, ThreadTypes, PCs, Places, StartOfRecord
<1>5. CASE UNCHANGED vars
  BY <1>5 DEF vars, TypeOK, ThreadTypes, NumFiles, RoundFiles, mainVars, taskVars, lockVars, logVars
<1>6. ASSUME NEW t \in Threads, Worker(t)
      PROVE  TypeOK'
  <2> USE DEF mainVars, taskVars, lockVars, logVars
  <2>1. ThreadTypes'
    BY <1>6, ThreadTypesStep
  <2>2. UNCHANGED mainVars /\ NumFiles' = NumFiles
    BY <1>6 DEF Worker, ClaimSteps, CatalogueSteps, SaveSteps, TestMissing, ReadNextFile,
         ClaimGroup, ClaimNothing, TryLockFails, TryLockSucceeds, AdvanceFile, NextRecord,
         RecordFinished, NextOutputs, TakeOffer, LookUp, Lock, RaceEvaded, Recheck,
         Insert, OpenDatalog, WriteLine, NumFiles, RoundFiles
  <2>3. main = "join"
    BY <1>6, Running DEF Worker, ClaimSteps, CatalogueSteps, SaveSteps, TestMissing, ReadNextFile,
         ClaimGroup, ClaimNothing, TryLockFails, TryLockSucceeds, AdvanceFile, NextRecord,
         RecordFinished, NextOutputs, TakeOffer, LookUp, Lock, RaceEvaded, Recheck,
         Insert, OpenDatalog, WriteLine
  <2>4. CASE UNCHANGED <<taskVars, lockVars, lore, logVars>>
    BY <2>1, <2>2, <2>4 DEF TypeOK
  <2>5. CASE ClaimGroup(t)
    <3>1. next_record' \in [1..NumFiles -> Nat]
      <4>1. next_record \in [1..NumFiles -> Nat]
        BY <2>3 DEF TypeOK
      <4>2. [next_record EXCEPT ![at[t].file] = @ + 1] \in [1..NumFiles -> Nat]
        <5>1. at[t].file \in 1..NumFiles
          BY <2>3, <2>5, AtType, LengthType DEF ClaimGroup, PlacesInv, PlaceInv, AtFile
        <5> QED
          BY <4>1, <5>1, CounterType
      <4>3. next_record' = [next_record EXCEPT ![at[t].file] = @ + 1]
        BY <2>5 DEF ClaimGroup
      <4> QED
        BY <4>2, <4>3
    <3> QED
      BY <2>1, <2>2, <2>3, <2>5, <3>1 DEF ClaimGroup, TypeOK
  <2>6. CASE TryLockSucceeds(t) \/ AdvanceFile(t)
    BY <2>1, <2>2, <2>6 DEF TryLockSucceeds, AdvanceFile, TypeOK
  <2>7. CASE Lock(t) \/ RaceEvaded(t) \/ Recheck(t)
    BY <2>1, <2>2, <2>7 DEF Lock, RaceEvaded, Recheck, TypeOK
  <2>8. CASE Insert(t) \/ OpenDatalog(t) \/ WriteLine(t)
    <3>1. /\ num_gates \in Gates
          /\ Offer(t) \in Keys
          /\ at[t].outs \in Outputs
      <4>1. AtKey(t)
        BY <2>8 DEF Insert, OpenDatalog, WriteLine, AtKey
      <4>2. Offer(t) \in KeysOf(at[t].outs)
        BY <4>1, <2>3, InHand DEF AtRecord
      <4>3. at[t].outs <= MaxOutputs
        BY <4>1 DEF PlacesInv, PlaceInv
      <4> QED
        BY <2>3, <4>2, <4>3, LengthType, AtType DEF KeysOf, Outputs
    <3>2. CASE Insert(t)
      BY <2>1, <2>2, <3>1, <3>2 DEF Insert, TypeOK
    <3>3. CASE OpenDatalog(t)
      <4>1. Emptied(at[t].outs) \in [Keys -> Seq(Gates)]
        BY DEF Emptied, TypeOK
      <4>2. datalog' \in [Keys -> Seq(Gates)] /\ logfps' \subseteq Outputs
        BY <3>1, <3>3, <4>1 DEF OpenDatalog, TypeOK
      <4> QED
        BY <2>1, <2>2, <3>3, <4>2 DEF OpenDatalog, TypeOK
    <3>4. CASE WriteLine(t)
      <4>1. datalog' \in [Keys -> Seq(Gates)]
        BY <3>1, <3>4 DEF WriteLine, TypeOK
      <4> QED
        BY <2>1, <2>2, <3>4, <4>1 DEF WriteLine, TypeOK
    <3> QED
      BY <2>8, <3>2, <3>3, <3>4
  <2> QED
    BY <1>6, <2>4, <2>5, <2>6, <2>7, <2>8
       DEF Worker, ClaimSteps, CatalogueSteps, SaveSteps, TestMissing, ReadNextFile,
         ClaimNothing, TryLockFails, NextRecord, RecordFinished, NextOutputs, TakeOffer, LookUp
<1> QED
  BY <1>1, <1>2, <1>3, <1>4, <1>5, <1>6 DEF Next, Main, Finished

-----------------------------------------------------------------------------
\* A step of one thread leaves main() and the other threads where they are.
LEMMA OthersStay ==
  ASSUME TypeOK, NEW t \in Threads, Worker(t)
  PROVE  /\ UNCHANGED mainVars
         /\ pc[t] # "done"
         /\ \A u \in Threads \ {t} : pc'[u] = pc[u] /\ at'[u] = at[u]
  BY DEF TypeOK, ThreadTypes, Worker, ClaimSteps, CatalogueSteps, SaveSteps, GoTo, NextOffer,
         mainVars, TestMissing, ReadNextFile, ClaimGroup, ClaimNothing,
         TryLockFails, TryLockSucceeds, AdvanceFile, NextRecord, RecordFinished,
         NextOutputs, TakeOffer, LookUp, Lock, RaceEvaded, Recheck, Insert,
         OpenDatalog, WriteLine

\* What a thread has in hand depends on the round and on its own place only.
LEMMA SameView ==
  ASSUME num_gates' = num_gates, NEW u \in Threads, at'[u] = at[u]
  PROVE  /\ RoundFiles' = RoundFiles
         /\ NumFiles' = NumFiles
         /\ \A f : NumRecords(f)' = NumRecords(f)
         /\ RecordNum(u)' = RecordNum(u)
         /\ RecordOf(u)' = RecordOf(u)
         /\ OffersOf(u)' = OffersOf(u)
         /\ Offer(u)' = Offer(u)
  BY DEF RoundFiles, NumFiles, NumRecords, RecordNum, RecordOf, OffersOf, Offer

\* Only ClaimGroup changes the counters of the files, one of them by one.
LEMMA CountersGrow ==
  ASSUME TypeOK, PlacesInv, main = "join", NEW t \in Threads, Worker(t)
  PROVE  \A f \in 1..NumFiles : next_record'[f] \in Nat /\ next_record'[f] >= next_record[f]
<1>1. next_record \in [1..NumFiles -> Nat]
  BY DEF TypeOK
<1>2. next_record' = next_record \/ next_record' = [next_record EXCEPT ![at[t].file] = @ + 1]
  BY DEF Worker, ClaimSteps, CatalogueSteps, SaveSteps, taskVars, TestMissing, ReadNextFile, ClaimGroup, ClaimNothing,
         TryLockFails, TryLockSucceeds, AdvanceFile, NextRecord, RecordFinished,
         NextOutputs, TakeOffer, LookUp, Lock, RaceEvaded, Recheck, Insert,
         OpenDatalog, WriteLine
<1>3. \A f \in 1..NumFiles : next_record[f] \in Nat
  BY <1>1
<1>4. \A f \in 1..NumFiles : next_record'[f] = next_record[f] \/ next_record'[f] = next_record[f] + 1
  BY <1>1, <1>2
<1> QED
  BY <1>3, <1>4

LEMMA TimesGroup ==
  ASSUME NEW m \in Nat, NEW n \in Nat, m <= n
  PROVE  m * Group <= n * Group /\ (m + 1) * Group = m * Group + Group /\ m * Group \in Nat
  OBVIOUS

\* A thread that does not move keeps its place.
LEMMA PlaceKept ==
  ASSUME TypeOK, PlacesInv, main = "join", NEW t \in Threads, Worker(t),
         NEW u \in Threads \ {t}
  PROVE  PlaceInv(u)'
<1>1. /\ pc'[u] = pc[u] /\ at'[u] = at[u] /\ num_gates' = num_gates
      /\ PlaceInv(u)
  BY OthersStay DEF mainVars, PlacesInv
<1>2. /\ AtFile(u)' = AtFile(u) /\ InGroup(u)' = InGroup(u)
      /\ AtRecord(u)' = AtRecord(u) /\ AtKey(u)' = AtKey(u)
  BY <1>1 DEF AtFile, InGroup, AtRecord, AtKey
<1>3. AtFile(u) => at[u].file \in 1..NumFiles
  BY <1>1, AtType, LengthType DEF PlaceInv
<1>4. InGroup(u) => at[u].base + Group <= next_record'[at[u].file] * Group
  <2> SUFFICES ASSUME InGroup(u)
               PROVE  at[u].base + Group <= next_record'[at[u].file] * Group
    OBVIOUS
  <2>1. /\ next_record[at[u].file] \in Nat
        /\ next_record'[at[u].file] \in Nat
        /\ next_record[at[u].file] <= next_record'[at[u].file]
    BY <1>3, CountersGrow DEF AtFile, TypeOK
  <2>2. next_record[at[u].file] * Group <= next_record'[at[u].file] * Group
    BY <2>1, TimesGroup
  <2>3. at[u].base + Group <= next_record[at[u].file] * Group
    BY <1>1 DEF PlaceInv
  <2>4. /\ next_record[at[u].file] * Group \in Nat
        /\ next_record'[at[u].file] * Group \in Nat
        /\ at[u].base \in Nat
    BY <2>1, TimesGroup, AtType
  <2> QED
    BY <2>2, <2>3, <2>4
<1> QED
  BY <1>1, <1>2, <1>4, SameView DEF PlaceInv

\* The moving thread finds its new place in order.
LEMMA PlaceReached ==
  ASSUME TypeOK, PlacesInv, main = "join", NEW t \in Threads, Worker(t)
  PROVE  PlaceInv(t)'
<1>1. /\ num_gates' = num_gates /\ PlaceInv(t)
      /\ pc \in [Threads -> PCs] /\ at \in [Threads -> Places]
      /\ TypeOK'
  BY OthersStay, TypeStep DEF mainVars, PlacesInv, TypeOK, ThreadTypes, Next
<1> USE DEF AtFile, InGroup, AtRecord, AtKey, GoTo
<1>2. CASE TestMissing(t) \/ AdvanceFile(t) \/ TryLockFails(t) \/ TryLockSucceeds(t) \/ ClaimNothing(t)
  <2>1. at' = at /\ next_record' = next_record /\ pc'[t] \in {"loop", "done", "advance", "roll"}
    BY <1>1, <1>2 DEF TestMissing, AdvanceFile, TryLockFails, TryLockSucceeds, ClaimNothing, taskVars
  <2> QED
    BY <1>1, <1>2, <2>1, SameView
       DEF PlaceInv, TestMissing, AdvanceFile, TryLockFails, TryLockSucceeds, ClaimNothing
<1>3. CASE ReadNextFile(t)
  <2>1. pc'[t] \in {"done", "claim"} /\ (pc'[t] = "claim" => at'[t].file <= NumFiles)
    <3>1. pc \in [Threads -> PCs] /\ at \in [Threads -> Places]
          /\ next_file \in Nat /\ NumFiles \in Nat
      BY <1>1, LengthType DEF TypeOK
    <3>2. CASE next_file > NumFiles
      BY <1>3, <3>1, <3>2 DEF ReadNextFile
    <3>3. CASE ~ (next_file > NumFiles)
      <4>1. at' = [at EXCEPT ![t].file = next_file] /\ pc'[t] = "claim"
        BY <1>3, <3>1, <3>3 DEF ReadNextFile
      <4> QED
        BY <3>1, <3>3, <4>1 DEF Places
    <3> QED
      BY <3>2, <3>3
  <2> QED
    BY <1>1, <2>1 DEF PlaceInv, NumFiles, RoundFiles
<1>4. CASE ClaimGroup(t)
  <2>1. /\ pc'[t] = "record" /\ at'[t].file = at[t].file /\ at'[t].base = ClaimBase(t)
        /\ at[t].file \in 1..NumFiles
    BY <1>1, <1>4, AtType, LengthType DEF ClaimGroup, PlaceInv, Places
  <2>2. next_record[at[t].file] \in Nat
        /\ next_record'[at[t].file] = next_record[at[t].file] + 1
    BY <2>1, <1>4 DEF ClaimGroup, TypeOK
  <2> QED
    BY <1>1, <2>1, <2>2, TimesGroup DEF PlaceInv, ClaimBase, NumFiles, RoundFiles
<1>5. CASE NextRecord(t)
  <2>1. /\ at'[t].file = at[t].file /\ at'[t].base = at[t].base /\ at'[t].b = at[t].b
        /\ next_record' = next_record
        /\ pc[t] = "record" /\ pc'[t] \in {"offer", "test"}
        /\ pc'[t] = "offer" => at[t].b < Group /\ RecordNum(t) < NumRecords(at[t].file)
    BY <1>1, <1>5 DEF NextRecord, Places, taskVars
  <2> QED
    BY <1>1, <2>1 DEF PlaceInv, NumFiles, RoundFiles, RecordNum, NumRecords
<1>6. CASE RecordFinished(t)
  <2>1. /\ at'[t].file = at[t].file /\ at'[t].base = at[t].base
        /\ next_record' = next_record
        /\ pc[t] = "offer" /\ pc'[t] = "record"
    BY <1>1, <1>6 DEF RecordFinished, Places, taskVars
  <2> QED
    BY <1>1, <2>1 DEF PlaceInv, NumFiles, RoundFiles
<1>7. CASE NextOutputs(t) \/ TakeOffer(t)
  <2>1. /\ at'[t].file = at[t].file /\ at'[t].base = at[t].base /\ at'[t].b = at[t].b
        /\ next_record' = next_record
        /\ pc[t] = "offer"
    <3>1. CASE NextOutputs(t)
      BY <1>1, <3>1 DEF NextOutputs, Places, taskVars
    <3>2. CASE TakeOffer(t)
      <4>1. at' = at \/ at' = [at EXCEPT ![t].combo = @ + 1]
        BY <3>2 DEF TakeOffer
      <4>2. next_record' = next_record /\ pc[t] = "offer"
        BY <3>2 DEF TakeOffer, taskVars
      <4> QED
        BY <1>1, <4>1, <4>2 DEF Places
    <3> QED
      BY <1>7, <3>1, <3>2
  <2>2. \/ pc'[t] = "offer"
        \/ /\ pc'[t] = "lookup" /\ at' = at
           /\ at[t].outs <= MaxOutputs /\ at[t].combo <= Len(OffersOf(t)) /\ Offer(t) # NoKey
    BY <1>1, <1>7 DEF NextOutputs, TakeOffer, Places
  <2> QED
    BY <1>1, <2>1, <2>2, SameView DEF PlaceInv, NumFiles, RoundFiles, RecordNum, NumRecords
<1>8. CASE SaveSteps(t)
  <2>1. /\ at'[t].file = at[t].file /\ at'[t].base = at[t].base /\ at'[t].b = at[t].b
        /\ next_record' = next_record
        /\ AtKey(t)
    BY <1>1, <1>8 DEF SaveSteps, LookUp, Lock, RaceEvaded, Recheck, Insert,
         OpenDatalog, WriteLine, NextOffer, Places, taskVars
  <2>2. pc'[t] = "offer" \/ (AtKey(t)' /\ at' = at)
    BY <1>1, <1>8 DEF SaveSteps, LookUp, Lock, RaceEvaded, Recheck, Insert,
         OpenDatalog, WriteLine, NextOffer
  <2> QED
    BY <1>1, <2>1, <2>2, SameView DEF PlaceInv, NumFiles, RoundFiles, RecordNum, NumRecords
<1> QED
  BY <1>2, <1>3, <1>4, <1>5, <1>6, <1>7, <1>8 DEF Worker, ClaimSteps, CatalogueSteps, SaveSteps

LEMMA PlacesStep ==
  ASSUME TypeOK, PlacesInv, [Next]_vars
  PROVE  PlacesInv'
<1>1. CASE SkipRound
  BY <1>1 DEF SkipRound, PlacesInv, PlaceInv, AtFile, InGroup, AtRecord, AtKey
<1>2. CASE BeginRound
  BY <1>2 DEF BeginRound, PlacesInv, PlaceInv, AtFile, InGroup, AtRecord, AtKey
<1>3. CASE EndRound
  BY <1>3 DEF EndRound, PlacesInv, PlaceInv, AtFile, InGroup, AtRecord, AtKey
<1>4. CASE Restart
  BY <1>4 DEF Restart, PlacesInv, PlaceInv, AtFile, InGroup, AtRecord, AtKey
<1>5. CASE UNCHANGED vars
  BY <1>5, SameView DEF vars, mainVars, taskVars, PlacesInv, PlaceInv, AtFile, InGroup, AtRecord, AtKey
<1>6. ASSUME NEW t \in Threads, Worker(t)
      PROVE  PlacesInv'
  <2>1. main = "join" /\ main' = main
    BY <1>6, OthersStay, Running DEF mainVars
  <2> QED
    BY <1>6, <2>1, PlaceKept, PlaceReached DEF PlacesInv
<1> QED
  BY <1>1, <1>2, <1>3, <1>4, <1>5, <1>6 DEF Next, Main, Finished

LEMMA LockStep ==
  ASSUME TypeOK, PlacesInv, LockInv, [Next]_vars
  PROVE  LockInv'
<1>1. CASE Main
  BY <1>1 DEF Main, SkipRound, BeginRound, EndRound, PlacesInv, LockInv, lockVars
<1>2. CASE Restart
  BY <1>2, ThreadsAssumption DEF Restart, LockInv
<1>3. CASE UNCHANGED vars
  BY <1>3 DEF vars, lockVars, LockInv
<1>4. ASSUME NEW t \in Threads, Worker(t)
      PROVE  LockInv'
  <2>1. \A u \in Threads \ {t} : pc'[u] = pc[u]
    BY <1>4, OthersStay
  <2>2. pc \in [Threads -> PCs]
    BY DEF TypeOK, ThreadTypes
  <2>3. CASE Lock(t)
    BY <2>1, <2>2, <2>3, ThreadsAssumption DEF Lock, LockInv, GoTo
  <2>4. CASE RaceEvaded(t) \/ WriteLine(t)
    BY <2>1, <2>2, <2>4, ThreadsAssumption DEF RaceEvaded, WriteLine, LockInv, NextOffer, GoTo
  <2>5. CASE Recheck(t) \/ Insert(t) \/ OpenDatalog(t)
    BY <2>1, <2>2, <2>5 DEF Recheck, Insert, OpenDatalog, LockInv, GoTo, lockVars
  <2>6. CASE ClaimSteps(t) \/ CatalogueSteps(t) \/ LookUp(t)
    <3>1. /\ io_lock' = io_lock
          /\ pc[t] \notin {"recheck", "insert", "open", "log"}
          /\ pc'[t] \notin {"recheck", "insert", "open", "log"}
      BY <2>2, <2>6 DEF ClaimSteps, CatalogueSteps, TestMissing, ReadNextFile, ClaimGroup,
           ClaimNothing, TryLockFails, TryLockSucceeds, AdvanceFile, NextRecord, RecordFinished,
           NextOutputs, TakeOffer, LookUp, NextOffer, GoTo, lockVars
    <3> QED
      BY <2>1, <3>1 DEF LockInv
  <2> QED
    BY <1>4, <2>3, <2>4, <2>5, <2>6 DEF Worker, SaveSteps
<1> QED
  BY <1>1, <1>2, <1>3, <1>4 DEF Next, Finished

\* Within a round nothing is ever taken out of the lore: the second look-up
\* finds a key on whatever level it is, as no level is above num_gates.
LEMMA LoreGrows ==
  ASSUME TypeOK, PlacesInv, LevelsInv, main = "join", NEW t \in Threads, Worker(t)
  PROVE  /\ Insert(t) \/ lore' = lore
         /\ Recheck(t) => ~Stored(Offer(t))
         /\ lore \subseteq lore'
<1>1. ASSUME Recheck(t)
      PROVE  ~Stored(Offer(t)) /\ lore' = lore
  <2>1. Offer(t) \in Keys
    BY <1>1, InHand DEF Recheck, AtRecord, AtKey, KeysOf
  <2>2. ~Stored(Offer(t))
    BY <1>1, <2>1 DEF Recheck, Known, Levels, LevelsInv, Stored
  <2>3. FirstEntry(Offer(t)) = {}
    BY <2>2 DEF FirstEntry, Levels, Stored
  <2> QED
    BY <1>1, <2>2, <2>3 DEF Recheck
<1>2. ASSUME ~Recheck(t), ~Insert(t)
      PROVE  lore' = lore
  BY <1>2 DEF Worker, ClaimSteps, CatalogueSteps, SaveSteps, TestMissing, ReadNextFile, ClaimGroup, ClaimNothing,
         TryLockFails, TryLockSucceeds, AdvanceFile, NextRecord, RecordFinished,
         NextOutputs, TakeOffer, LookUp, Lock, RaceEvaded, Recheck, Insert,
         OpenDatalog, WriteLine
<1>3. Insert(t) => lore \subseteq lore'
  BY DEF Insert
<1> QED
  BY <1>1, <1>2, <1>3

LEMMA LevelsStep ==
  ASSUME TypeOK, PlacesInv, LockInv, LevelsInv, [Next]_vars
  PROVE  LevelsInv'
<1>1. CASE SkipRound
  BY <1>1 DEF SkipRound, PlacesInv, LevelsInv, TypeOK, Gates
<1>2. CASE BeginRound
  BY <1>2 DEF BeginRound, LevelsInv
<1>3. CASE EndRound
  BY <1>3 DEF EndRound, LevelsInv, TypeOK, Gates
<1>4. CASE Restart
  BY <1>4 DEF Restart, LevelsInv
<1>5. CASE UNCHANGED vars
  BY <1>5, SameView DEF vars, mainVars, LevelsInv, Stored
<1>6. ASSUME NEW t \in Threads, Worker(t)
      PROVE  LevelsInv'
  <2>1. /\ main = "join" /\ num_gates' = num_gates /\ num_gates \in Gates
        /\ \A u \in Threads \ {t} : pc'[u] = pc[u] /\ Offer(u)' = Offer(u)
    BY <1>6, OthersStay, Running, LengthType, SameView DEF mainVars
  <2>2. pc \in [Threads -> PCs]
    BY DEF TypeOK, ThreadTypes
  <2>3. CASE Insert(t)
    <3>1. /\ Offer(t)' = Offer(t) /\ pc'[t] = "open"
          /\ lore' = lore \cup {<<num_gates, Offer(t)>>}
          /\ ~Stored(Offer(t))
      BY <2>1, <2>2, <2>3, SameView DEF Insert, GoTo, LevelsInv
    <3>2. \A u \in Threads \ {t} : pc[u] \notin {"insert", "open", "log"}
      BY <2>3 DEF Insert, LockInv
    <3>3. \A u \in Threads : pc'[u] # "insert" /\ (pc'[u] \in {"open", "log"} => u = t)
      BY <2>1, <3>1, <3>2
    <3>4. \A m, n \in Gates, k \in Keys :
            <<m, k>> \in lore' /\ <<n, k>> \in lore' => m = n /\ n <= num_gates
      BY <2>1, <3>1 DEF LevelsInv, Stored, Gates
    <3> QED
      BY <2>1, <3>1, <3>3, <3>4 DEF LevelsInv
  <2>4. CASE Recheck(t)
    <3>1. /\ Offer(t)' = Offer(t) /\ pc'[t] = "insert" /\ lore' = lore /\ ~Stored(Offer(t))
      BY <1>6, <2>1, <2>2, <2>4, SameView, LoreGrows DEF Recheck, GoTo, Insert
    <3> QED
      BY <2>1, <3>1 DEF LevelsInv, Stored
  <2>5. CASE OpenDatalog(t)
    <3>1. /\ Offer(t)' = Offer(t) /\ pc'[t] = "log" /\ lore' = lore
          /\ <<num_gates, Offer(t)>> \in lore
      BY <2>1, <2>2, <2>5, SameView DEF OpenDatalog, GoTo, LevelsInv
    <3> QED
      BY <2>1, <3>1 DEF LevelsInv, Stored
  <2>6. CASE ~Insert(t) /\ ~Recheck(t) /\ ~OpenDatalog(t)
    <3>1. lore' = lore
      BY <1>6, <2>1, <2>6, LoreGrows
    <3>2. pc'[t] \notin {"insert", "open", "log"}
      BY <1>6, <2>2, <2>6 DEF Worker, ClaimSteps, CatalogueSteps, SaveSteps, GoTo, NextOffer,
         TestMissing, ReadNextFile, ClaimGroup, ClaimNothing,
         TryLockFails, TryLockSucceeds, AdvanceFile, NextRecord, RecordFinished,
         NextOutputs, TakeOffer, LookUp, Lock, RaceEvaded, Recheck, Insert,
         OpenDatalog, WriteLine
    <3> QED
      BY <2>1, <3>1, <3>2 DEF LevelsInv, Stored
  <2> QED
    BY <2>3, <2>4, <2>5, <2>6
<1> QED
  BY <1>1, <1>2, <1>3, <1>4, <1>5, <1>6 DEF Next, Main, Finished

-----------------------------------------------------------------------------
\* When the lore of o outputs has reached hyp_size, every key of o outputs is
\* stored: there are no more keys than that, and none is stored twice.
LEMMA CompleteStored ==
  ASSUME TypeOK, LevelsInv, NEW o \in Outputs, Complete(o)
  PROVE  \A k \in KeysOf(o) : Stored(k)
<1> DEFINE f == [e \in LoreOf(o) |-> e[2]]
<1>1. f \in [LoreOf(o) -> KeysOf(o)]
  BY DEF LoreOf, KeysOf, TypeOK
<1>2. \A d, e \in LoreOf(o) : f[d] = f[e] => d = e
  BY DEF LoreOf, TypeOK, LevelsInv
<1>3. f \in Injection(LoreOf(o), KeysOf(o))
  BY <1>1, <1>2 DEF Injection, IsInjective
<1>4. IsFiniteSet(KeysOf(o))
  BY KeysAssumption, FS_Subset DEF KeysOf
<1>5. /\ IsFiniteSet(LoreOf(o))
      /\ Cardinality(LoreOf(o)) <= Cardinality(KeysOf(o))
      /\ Cardinality(LoreOf(o)) = Cardinality(KeysOf(o)) <=> f \in Surjection(LoreOf(o), KeysOf(o))
  BY <1>3, <1>4, FS_Injection
<1>6. Cardinality(LoreOf(o)) = Cardinality(KeysOf(o))
  <2>1. Cardinality(LoreOf(o)) \in Nat /\ Cardinality(KeysOf(o)) \in Nat
    BY <1>4, <1>5, FS_CardinalityType
  <2>2. /\ Cardinality(KeysOf(o)) <= HypSize[o] /\ HypSize[o] \in Nat
        /\ HypSize[o] <= Cardinality(LoreOf(o))
    BY HypSizeAssumption DEF Complete, LoreSize
  <2> QED
    BY <1>5, <2>1, <2>2
<1>7. \A k \in KeysOf(o) : \E e \in LoreOf(o) : f[e] = k
  BY <1>5, <1>6 DEF Surjection
<1>8. \A e \in LoreOf(o) : Stored(e[2])
  <2>1. \A e \in Gates \X Keys : e[1] \in Gates /\ e = <<e[1], e[2]>>
    OBVIOUS
  <2> QED
    BY <2>1 DEF LoreOf, Stored, TypeOK
<1> QED
  BY <1>7, <1>8

LEMMA NothingMissing ==
  ASSUME TypeOK, LevelsInv, ~Missing
  PROVE  \A k \in Keys : Stored(k)
  BY CompleteStored, KeysAssumption DEF Missing, KeysOf

LEMMA ExhaustedKept ==
  ASSUME TypeOK, PlacesInv, main = "join", NEW t \in Threads, Worker(t),
         NEW f \in 1..NumFiles, Exhausted(f)
  PROVE  Exhausted(f)'
<1>1. /\ next_record[f] \in Nat /\ next_record'[f] \in Nat
      /\ next_record[f] <= next_record'[f] /\ NumRecords(f) \in Nat
  BY CountersGrow, LengthType DEF TypeOK
<1>2. /\ next_record[f] * Group <= next_record'[f] * Group
      /\ next_record[f] * Group \in Nat /\ next_record'[f] * Group \in Nat
  BY <1>1, TimesGroup
<1>3. NumRecords(f)' = NumRecords(f)
  BY OthersStay DEF mainVars, NumRecords, RoundFiles
<1> QED
  BY <1>1, <1>2, <1>3 DEF Exhausted

LEMMA FilesPassedStep ==
  ASSUME TypeOK, PlacesInv, CoverInv, main = "join", NEW t \in Threads, Worker(t)
  PROVE  FilesPassed' /\ next_file' >= next_file
<1>1. /\ NumFiles' = NumFiles /\ FilesPassed
      /\ pc[t] \in {"roll", "advance"} => Exhausted(at[t].file)
  BY OthersStay DEF mainVars, NumFiles, RoundFiles, CoverInv, Progress
<1>2. next_file' = next_file \/ (pc[t] = "advance" /\ next_file = at[t].file /\ next_file' = next_file + 1)
  BY DEF Worker, ClaimSteps, CatalogueSteps, SaveSteps, taskVars, TestMissing, ReadNextFile, ClaimGroup, ClaimNothing,
         TryLockFails, TryLockSucceeds, AdvanceFile, NextRecord, RecordFinished,
         NextOutputs, TakeOffer, LookUp, Lock, RaceEvaded, Recheck, Insert,
         OpenDatalog, WriteLine
<1>3. \A f \in 1..NumFiles : f < next_file' => Exhausted(f)
  BY <1>1, <1>2, LengthType DEF FilesPassed, TypeOK
<1> QED
  BY <1>1, <1>2, <1>3, ExhaustedKept DEF FilesPassed, TypeOK

\* What was stored stays stored.
LEMMA StoredKept ==
  ASSUME TypeOK, lore \subseteq lore'
  PROVE  /\ \A k : (\E n \in Gates : <<n, k>> \in lore) => \E n \in Gates : <<n, k>> \in lore'
         /\ \A rec, outs, combo :
              StoredUpTo(rec, outs, combo) =>
                \A o \in Outputs : \A c \in 1..Len(rec[o]) :
                  (o < outs \/ (o = outs /\ c < combo)) =>
                     rec[o][c] = NoKey \/ \E n \in Gates : <<n, rec[o][c]>> \in lore'
  BY DEF StoredUpTo, Stored

\* A thread that does not move keeps its progress.
LEMMA ProgressKept ==
  ASSUME TypeOK, PlacesInv, LevelsInv, CoverInv, main = "join",
         NEW t \in Threads, Worker(t), NEW u \in Threads \ {t}
  PROVE  Progress(u)'
<1>1. /\ pc'[u] = pc[u] /\ at'[u] = at[u] /\ num_gates' = num_gates /\ Progress(u)
  BY OthersStay DEF mainVars, CoverInv
<1>2. lore \subseteq lore'
  BY LoreGrows
<1>3. RecordOf(u)' = RecordOf(u) /\ NumFiles' = NumFiles /\ AtRecord(u)' = AtRecord(u)
  BY <1>1, SameView DEF AtRecord, AtKey
<1>4. pc[u] \in {"roll", "advance"} => Exhausted(at[u].file)'
  <2>1. pc[u] \in {"roll", "advance"} => at[u].file \in 1..NumFiles /\ Exhausted(at[u].file)
    BY <1>1, AtType, LengthType DEF Progress, PlacesInv, PlaceInv, AtFile
  <2>2. \A f \in 1..NumFiles : Exhausted(f) => next_record'[f] * Group >= NumRecords(f)'
    BY ExhaustedKept DEF Exhausted
  <2> QED
    BY <1>1, <2>1, <2>2 DEF Exhausted
<1>5. AtRecord(u) => StoredUpTo(RecordOf(u), at[u].outs, at[u].combo)'
  BY <1>1, <1>2, <1>3, StoredKept DEF Progress, StoredUpTo, Stored
<1>6. pc[u] = "done" => next_file' > NumFiles \/ \A k \in Keys : Stored(k)'
  <2>1. next_file' >= next_file /\ TypeOK'
    BY FilesPassedStep, TypeStep DEF Next
  <2>2. next_file > NumFiles => next_file' > NumFiles
    BY <2>1, LengthType DEF TypeOK
  <2> QED
    BY <1>1, <1>2, <2>2, StoredKept DEF Progress, Stored
<1> QED
  BY <1>1, <1>3, <1>4, <1>5, <1>6 DEF Progress

\* Passing an offer that is NoKey or stored, and passing a number of outputs.
LEMMA PassOffer ==
  ASSUME TypeOK, PlacesInv, LevelsInv, main = "join", NEW t \in Threads, AtRecord(t),
         StoredUpTo(RecordOf(t), at[t].outs, at[t].combo), at[t].outs <= MaxOutputs
  PROVE  /\ (Offer(t) = NoKey \/ Stored(Offer(t))) =>
               StoredUpTo(RecordOf(t), at[t].outs, at[t].combo + 1)
         /\ (at[t].combo > Len(OffersOf(t)) \/ Complete(at[t].outs)) =>
               StoredUpTo(RecordOf(t), at[t].outs + 1, 1)
<1>1. /\ at[t].outs \in Outputs /\ at[t].combo \in Nat \ {0}
      /\ RecordOf(t) \in Record
      /\ \A o \in Outputs : Len(RecordOf(t)[o]) \in Nat
  <2>1. RecordOf(t) \in Record
    BY InHand
  <2>2. \A o \in Outputs : RecordOf(t)[o] \in Seq(Keys \cup {NoKey})
    BY <2>1 DEF Record
  <2>3. \A o \in Outputs : Len(RecordOf(t)[o]) \in Nat
    BY <2>2
  <2> QED
    BY <2>1, <2>3, AtType DEF Outputs
<1>2. ASSUME Offer(t) = NoKey \/ Stored(Offer(t))
      PROVE  StoredUpTo(RecordOf(t), at[t].outs, at[t].combo + 1)
  BY <1>1, <1>2 DEF StoredUpTo, Offer, OffersOf
<1>3. ASSUME at[t].combo > Len(OffersOf(t)) \/ Complete(at[t].outs)
      PROVE  StoredUpTo(RecordOf(t), at[t].outs + 1, 1)
  <2>1. \A c \in 1..Len(OffersOf(t)) : OffersOf(t)[c] = NoKey \/ Stored(OffersOf(t)[c])
    <3>1. CASE at[t].combo > Len(OffersOf(t))
      BY <1>1, <3>1 DEF StoredUpTo, OffersOf
    <3>2. CASE Complete(at[t].outs)
      <4>1. \A k \in KeysOf(at[t].outs) : Stored(k)
        BY <1>1, <3>2, CompleteStored
      <4>2. \A c \in 1..Len(OffersOf(t)) : OffersOf(t)[c] \in KeysOf(at[t].outs) \cup {NoKey}
        BY InHand
      <4> QED
        BY <4>1, <4>2
    <3> QED
      BY <1>3, <3>1, <3>2
  <2>2. \A o \in Outputs : o < at[t].outs + 1 => o < at[t].outs \/ o = at[t].outs
    BY <1>1 DEF Outputs
  <2> QED
    BY <1>1, <2>1, <2>2 DEF StoredUpTo, OffersOf, Outputs
<1> QED
  BY <1>2, <1>3

\* The moving thread has made the progress that its new place claims.
LEMMA ProgressReached ==
  ASSUME TypeOK, PlacesInv, LevelsInv, CoverInv, main = "join", NEW t \in Threads, Worker(t)
  PROVE  Progress(t)'
<1>1. /\ num_gates' = num_gates /\ Progress(t)
      /\ pc \in [Threads -> PCs] /\ at \in [Threads -> Places]
      /\ NumFiles' = NumFiles /\ RoundFiles' = RoundFiles
  BY OthersStay DEF mainVars, CoverInv, TypeOK, ThreadTypes, NumFiles, RoundFiles
<1> USE DEF GoTo
<1>2. CASE TestMissing(t)
  <2>1. /\ pc'[t] = "loop" \/ (pc'[t] = "done" /\ \A k \in Keys : Stored(k))
        /\ lore' = lore
    BY <1>1, <1>2, NothingMissing DEF TestMissing
  <2> QED
    BY <2>1 DEF Progress, AtRecord, AtKey, Stored
<1>3. CASE ReadNextFile(t)
  <2>1. pc'[t] = "claim" \/ (pc'[t] = "done" /\ next_file' > NumFiles')
    BY <1>1, <1>3 DEF ReadNextFile, taskVars
  <2> QED
    BY <2>1 DEF Progress, AtRecord, AtKey
<1>4. CASE ClaimGroup(t) \/ TryLockFails(t) \/ AdvanceFile(t) \/ RecordFinished(t)
  <2>1. pc'[t] \in {"record", "loop"}
    BY <1>1, <1>4 DEF ClaimGroup, TryLockFails, AdvanceFile, RecordFinished
  <2> QED
    BY <2>1 DEF Progress, AtRecord, AtKey
<1>5. CASE ClaimNothing(t)
  <2>1. /\ pc'[t] = "roll" /\ at' = at /\ next_record' = next_record
        /\ next_record[at[t].file] * Group >= NumRecords(at[t].file)
    BY <1>1, <1>5 DEF ClaimNothing, ClaimBase, taskVars
  <2> QED
    BY <1>1, <2>1 DEF Progress, AtRecord, AtKey, Exhausted, NumRecords
<1>6. CASE TryLockSucceeds(t)
  <2>1. pc[t] = "roll" /\ pc'[t] = "advance" /\ at' = at /\ next_record' = next_record
    BY <1>1, <1>6 DEF TryLockSucceeds, taskVars
  <2> QED
    BY <1>1, <2>1 DEF Progress, AtRecord, AtKey, Exhausted, NumRecords
<1>7. CASE NextRecord(t)
  <2>1. pc'[t] = "test" \/ (pc'[t] = "offer" /\ at'[t].outs = 1 /\ at'[t].combo = 1)
    BY <1>1, <1>7 DEF NextRecord, Places
  <2> QED
    BY <2>1 DEF Progress, AtRecord, AtKey, StoredUpTo, Outputs
<1>8. ASSUME AtRecord(t), at'[t].file = at[t].file, at'[t].base = at[t].base, at'[t].b = at[t].b,
             pc'[t] \notin {"roll", "advance", "done"}, lore \subseteq lore',
             StoredUpTo(RecordOf(t), at'[t].outs, at'[t].combo)
      PROVE  Progress(t)'
  <2>1. RecordOf(t)' = RecordOf(t)
    BY <1>1, <1>8 DEF RecordOf, RecordNum
  <2> QED
    BY <1>8, <2>1 DEF Progress, StoredUpTo, Stored
<1>9. AtRecord(t) => StoredUpTo(RecordOf(t), at[t].outs, at[t].combo)
  BY <1>1 DEF Progress
<1>10. CASE NextOutputs(t)
  <2>1. /\ at'[t].file = at[t].file /\ at'[t].base = at[t].base /\ at'[t].b = at[t].b
        /\ at'[t].outs = at[t].outs + 1 /\ at'[t].combo = 1
    BY <1>1, <1>10 DEF NextOutputs, Places
  <2>2. StoredUpTo(RecordOf(t), at[t].outs + 1, 1)
    BY <1>9, <1>10, PassOffer DEF NextOutputs, AtRecord
  <2> QED
    BY <1>8, <1>10, <2>1, <2>2 DEF NextOutputs, AtRecord
<1>11. CASE \/ TakeOffer(t) \/ Lock(t) \/ Recheck(t) \/ Insert(t) \/ OpenDatalog(t)
            \/ LookUp(t) /\ at' = at
  <2>1. CASE at' = at
    <3>1. AtRecord(t) /\ pc'[t] \notin {"roll", "advance", "done"}
      BY <1>1, <1>11
         DEF TakeOffer, Lock, Recheck, Insert, OpenDatalog, LookUp, NextOffer, AtRecord, AtKey
    <3>2. lore \subseteq lore'
      BY LoreGrows
    <3> QED
      BY <1>8, <1>9, <2>1, <3>1, <3>2
  <2>2. CASE at' # at
    <3>1. /\ TakeOffer(t) /\ Offer(t) = NoKey
          /\ at' = [at EXCEPT ![t].combo = @ + 1] /\ at[t].outs <= MaxOutputs
      BY <1>11, <2>2 DEF TakeOffer, Lock, Recheck, Insert, OpenDatalog
    <3>2. /\ at'[t].file = at[t].file /\ at'[t].base = at[t].base /\ at'[t].b = at[t].b
          /\ at'[t].outs = at[t].outs /\ at'[t].combo = at[t].combo + 1
      BY <1>1, <3>1 DEF Places
    <3>3. StoredUpTo(RecordOf(t), at[t].outs, at[t].combo + 1)
      BY <1>9, <3>1, PassOffer DEF TakeOffer, AtRecord
    <3> QED
      BY <1>1, <1>8, <3>1, <3>2, <3>3 DEF TakeOffer, AtRecord
  <2> QED
    BY <2>1, <2>2
<1>12. CASE RaceEvaded(t) \/ WriteLine(t) \/ (LookUp(t) /\ at' # at)
  <2>1. AtKey(t) /\ NextOffer(t) /\ lore' = lore /\ (pc[t] = "log" \/ Known(Offer(t)))
    BY <1>12 DEF RaceEvaded, WriteLine, LookUp, AtKey
  <2>2. /\ at'[t].file = at[t].file /\ at'[t].base = at[t].base /\ at'[t].b = at[t].b
        /\ at'[t].outs = at[t].outs /\ at'[t].combo = at[t].combo + 1 /\ pc'[t] = "offer"
    BY <1>1, <2>1 DEF NextOffer, Places
  <2>3. Stored(Offer(t)) /\ at[t].outs <= MaxOutputs
    BY <2>1, LengthType DEF Known, Levels, LevelsInv, Stored, PlacesInv, PlaceInv
  <2>4. StoredUpTo(RecordOf(t), at[t].outs, at[t].combo + 1)
    BY <1>9, <2>1, <2>3, PassOffer DEF AtRecord
  <2> QED
    BY <1>8, <2>1, <2>2, <2>4 DEF AtRecord
<1> QED
  BY <1>2, <1>3, <1>4, <1>5, <1>6, <1>7, <1>10, <1>11, <1>12
     DEF Worker, ClaimSteps, CatalogueSteps, SaveSteps

\* A record ahead of the moving thread stays ahead of it or has been stored.
LEMMA AheadOfMover ==
  ASSUME TypeOK, PlacesInv, CoverInv, main = "join", NEW t \in Threads, Worker(t),
         NEW f \in 1..NumFiles, NEW i \in 0..NumRecords(f) - 1, AheadOf(t, f, i)
  PROVE  AheadOf(t, f, i)' \/ RecordStored(RoundFiles[f][i + 1])
<1>1. /\ pc \in [Threads -> PCs] /\ at \in [Threads -> Places]
      /\ InGroup(t) /\ at[t].file = f /\ RecordNum(t) <= i /\ i < at[t].base + Group
      /\ i \in Int /\ NumRecords(f) \in Nat /\ i < NumRecords(f)
  BY LengthType DEF TypeOK, ThreadTypes, AheadOf
<1>2. at[t].base \in Nat /\ at[t].b \in Nat /\ RecordNum(t) \in Nat
  BY AtType
<1> USE DEF GoTo
<1>3. CASE NextRecord(t)
  <2>1. pc'[t] = "offer"
    BY <1>1, <1>2, <1>3 DEF NextRecord, RecordNum
  <2>2. at'[t].file = at[t].file /\ at'[t].base = at[t].base /\ at'[t].b = at[t].b
    BY <1>1, <1>3 DEF NextRecord, Places
  <2> QED
    BY <1>1, <2>1, <2>2 DEF AheadOf, InGroup, AtRecord, RecordNum
<1>4. CASE RecordFinished(t)
  <2>1. /\ at'[t].file = at[t].file /\ at'[t].base = at[t].base /\ at'[t].b = at[t].b + 1
        /\ pc'[t] = "record" /\ pc[t] = "offer" /\ at[t].outs > MaxOutputs
    BY <1>1, <1>4 DEF RecordFinished, Places
  <2>2. CASE i = RecordNum(t)
    <3>1. StoredUpTo(RoundFiles[f][i + 1], at[t].outs, at[t].combo)
      BY <1>1, <2>1, <2>2 DEF CoverInv, Progress, AtRecord, RecordOf
    <3>2. \A o \in Outputs : o < at[t].outs
      BY <2>1, AtType DEF Outputs
    <3> QED
      BY <3>1, <3>2 DEF RecordStored, StoredUpTo
  <2>3. CASE i # RecordNum(t)
    BY <1>1, <1>2, <2>1, <2>3 DEF AheadOf, InGroup, RecordNum
  <2> QED
    BY <2>2, <2>3
<1>5. CASE CatalogueSteps(t) /\ ~RecordFinished(t)
  <2>1. /\ at'[t].file = at[t].file /\ at'[t].base = at[t].base /\ at'[t].b = at[t].b
        /\ pc'[t] \in {"offer", "lookup"}
    <3>1. CASE NextOutputs(t)
      BY <1>1, <3>1 DEF NextOutputs, Places
    <3>2. CASE TakeOffer(t)
      <4>1. \/ at' = at /\ pc'[t] = "lookup"
            \/ at' = [at EXCEPT ![t].combo = @ + 1] /\ pc'[t] = "offer"
        BY <1>1, <3>2 DEF TakeOffer
      <4> QED
        BY <1>1, <4>1 DEF Places
    <3> QED
      BY <1>5, <3>1, <3>2 DEF CatalogueSteps
  <2> QED
    BY <1>1, <2>1 DEF AheadOf, InGroup, AtRecord, AtKey, RecordNum
<1>6. CASE SaveSteps(t)
  <2>1. /\ at'[t].file = at[t].file /\ at'[t].base = at[t].base /\ at'[t].b = at[t].b
        /\ pc'[t] \in {"offer", "lock", "recheck", "insert", "open", "log"}
    <3>1. CASE LookUp(t)
      BY <1>1, <3>1 DEF LookUp, NextOffer, Places
    <3>2. CASE Lock(t) \/ Recheck(t) \/ Insert(t) \/ OpenDatalog(t)
      BY <1>1, <3>2 DEF Lock, Recheck, Insert, OpenDatalog
    <3>3. CASE RaceEvaded(t)
      BY <1>1, <3>3 DEF RaceEvaded, NextOffer, Places
    <3>4. CASE WriteLine(t)
      BY <1>1, <3>4 DEF WriteLine, NextOffer, Places
    <3> QED
      BY <1>6, <3>1, <3>2, <3>3, <3>4 DEF SaveSteps
  <2> QED
    BY <1>1, <2>1 DEF AheadOf, InGroup, AtRecord, AtKey, RecordNum
<1>7. CASE ClaimSteps(t) /\ ~NextRecord(t)
  BY <1>1, <1>7 DEF ClaimSteps, TestMissing, ReadNextFile, ClaimGroup, ClaimNothing,
       TryLockFails, TryLockSucceeds, AdvanceFile, InGroup, AtRecord, AtKey
<1> QED
  BY <1>3, <1>4, <1>5, <1>6, <1>7 DEF Worker

\* A group that a thread claims is ahead of it.
LEMMA ClaimCovers ==
  ASSUME TypeOK, PlacesInv, main = "join", NEW t \in Threads, Worker(t),
         NEW f \in 1..NumFiles, NEW i \in 0..NumRecords(f) - 1, next_record[f] * Group <= i
  PROVE  next_record'[f] * Group <= i \/ AheadOf(t, f, i)'
<1>1. /\ next_record \in [1..NumFiles -> Nat] /\ at \in [Threads -> Places]
      /\ pc \in [Threads -> PCs] /\ i \in Int
  BY LengthType DEF TypeOK, ThreadTypes
<1>2. CASE ClaimGroup(t) /\ at[t].file = f
  <2>1. /\ next_record'[f] = next_record[f] + 1 /\ pc'[t] = "record"
        /\ at'[t].base = next_record[f] * Group /\ at'[t].b = 0 /\ at'[t].file = f
    BY <1>1, <1>2 DEF ClaimGroup, ClaimBase, GoTo, Places
  <2>2. /\ next_record'[f] * Group = next_record[f] * Group + Group
        /\ next_record[f] * Group \in Nat
    BY <1>1, <2>1, TimesGroup
  <2> QED
    BY <1>1, <2>1, <2>2 DEF AheadOf, InGroup, RecordNum
<1>3. CASE ~(ClaimGroup(t) /\ at[t].file = f)
  <2>1. next_record'[f] = next_record[f]
    BY <1>1, <1>3 DEF Worker, ClaimSteps, CatalogueSteps, SaveSteps, taskVars,
         TestMissing, ReadNextFile, ClaimGroup, ClaimNothing,
         TryLockFails, TryLockSucceeds, AdvanceFile, NextRecord, RecordFinished,
         NextOutputs, TakeOffer, LookUp, Lock, RaceEvaded, Recheck, Insert,
         OpenDatalog, WriteLine
  <2> QED
    BY <2>1
<1> QED
  BY <1>2, <1>3

LEMMA RecordsCoveredStep ==
  ASSUME TypeOK, PlacesInv, LevelsInv, CoverInv, main = "join", NEW t \in Threads, Worker(t)
  PROVE  RecordsCovered'
<1>1. /\ NumFiles' = NumFiles /\ RoundFiles' = RoundFiles
      /\ \A f : NumRecords(f)' = NumRecords(f)
  BY OthersStay DEF mainVars, NumFiles, RoundFiles, NumRecords
<1>2. ASSUME NEW f \in 1..NumFiles, NEW i \in 0..NumRecords(f) - 1
      PROVE  RecordCovered(f, i)'
  <2>1. RecordStored(RoundFiles[f][i + 1]) => RecordStored(RoundFiles[f][i + 1])'
    BY <1>1, LoreGrows, StoredKept DEF RecordStored, StoredUpTo, Stored
  <2>2. CASE RecordStored(RoundFiles[f][i + 1])
    BY <2>1, <2>2 DEF RecordCovered
  <2>3. CASE next_record[f] * Group <= i
    BY <1>2, <2>3, ClaimCovers DEF RecordCovered
  <2>4. ASSUME NEW u \in Threads, AheadOf(u, f, i)
        PROVE  RecordCovered(f, i)'
    <3>1. CASE u = t
      BY <1>2, <2>1, <2>4, <3>1, AheadOfMover DEF RecordCovered
    <3>2. CASE u # t
      <4>1. pc'[u] = pc[u] /\ at'[u] = at[u]
        BY <3>2, OthersStay
      <4>2. AheadOf(u, f, i)'
        BY <2>4, <4>1 DEF AheadOf, InGroup, AtRecord, AtKey, RecordNum
      <4> QED
        BY <4>2 DEF RecordCovered
    <3> QED
      BY <3>1, <3>2
  <2>5. RecordCovered(f, i)
    BY DEF CoverInv, RecordsCovered
  <2> QED
    BY <2>2, <2>3, <2>4, <2>5 DEF RecordCovered
<1> QED
  BY <1>1, <1>2 DEF RecordsCovered

LEMMA CoverStep ==
  ASSUME TypeOK, PlacesInv, LevelsInv, CoverInv, [Next]_vars
  PROVE  CoverInv'
<1>1. CASE SkipRound \/ EndRound \/ Restart
  BY <1>1 DEF SkipRound, EndRound, Restart, CoverInv
<1>2. CASE BeginRound
  <2>1. /\ next_file' = 1 /\ next_record' = [f \in 1..NumFiles |-> 0]
        /\ \A t \in Threads : pc'[t] = "start"
        /\ NumFiles' = NumFiles /\ RoundFiles' = RoundFiles /\ \A f : NumRecords(f)' = NumRecords(f)
    BY <1>2 DEF BeginRound, NumFiles, RoundFiles, NumRecords
  <2>2. \A t \in Threads : Progress(t)'
    BY <2>1 DEF Progress, AtRecord, AtKey
  <2>3. FilesPassed'
    BY <2>1 DEF FilesPassed
  <2>4. RecordsCovered'
    <3>1. \A f \in 1..NumFiles : next_record'[f] * Group = 0
      BY <2>1
    <3> QED
      BY <2>1, <3>1 DEF RecordsCovered, RecordCovered
  <2> QED
    BY <2>2, <2>3, <2>4 DEF CoverInv
<1>3. CASE UNCHANGED vars
  <2>1. UNCHANGED <<num_gates, main, next_file, next_record, lore, pc, at>>
    BY <1>3 DEF vars, mainVars, taskVars
  <2>2. /\ NumFiles' = NumFiles /\ \A f : NumRecords(f)' = NumRecords(f)
        /\ \A f : Exhausted(f)' = Exhausted(f)
    BY <2>1 DEF NumFiles, RoundFiles, NumRecords, Exhausted
  <2>3. \A f, i : RecordCovered(f, i)' = RecordCovered(f, i)
    BY <2>1 DEF RecordCovered, RecordStored, StoredUpTo, Stored, AheadOf, InGroup, AtRecord,
         AtKey, RecordNum, RoundFiles
  <2>4. \A t \in Threads : Progress(t)' = Progress(t)
    BY <2>1, <2>2 DEF Progress, AtRecord, AtKey, StoredUpTo, Stored, RecordNum, RecordOf,
         RoundFiles, Exhausted, NumRecords
  <2> QED
    BY <2>1, <2>2, <2>3, <2>4 DEF CoverInv, RecordsCovered, FilesPassed
<1>4. ASSUME NEW t \in Threads, Worker(t)
      PROVE  CoverInv'
  <2>1. main = "join"
    BY <1>4, OthersStay, Running
  <2>2. RecordsCovered' /\ FilesPassed'
    BY <1>4, <2>1, RecordsCoveredStep, FilesPassedStep
  <2>3. \A u \in Threads : Progress(u)'
    BY <1>4, <2>1, ProgressKept, ProgressReached
  <2> QED
    BY <2>2, <2>3 DEF CoverInv
<1> QED
  BY <1>1, <1>2, <1>3, <1>4 DEF Next, Main, Finished

\* When every thread has ended, every record of the round is stored.
LEMMA RoundStored ==
  ASSUME TypeOK, PlacesInv, CoverInv, EndRound, Threads # {}
  PROVE  \A k \in OfferedIn[num_gates] : Stored(k)
<1>1. main = "join" /\ \A t \in Threads : pc[t] = "done" /\ Progress(t)
  BY DEF EndRound, CoverInv
<1>2. CASE \A k \in Keys : Stored(k)
  BY <1>1, <1>2, LengthType DEF OfferedIn
<1>3. CASE next_file > NumFiles
  <2>1. \A f \in 1..NumFiles : Exhausted(f)
    BY <1>1, <1>3, LengthType DEF CoverInv, FilesPassed, TypeOK
  <2>2. \A f \in 1..NumFiles : \A i \in 0..NumRecords(f) - 1 : RecordStored(RoundFiles[f][i + 1])
    <3> SUFFICES ASSUME NEW f \in 1..NumFiles, NEW i \in 0..NumRecords(f) - 1
                 PROVE  RecordStored(RoundFiles[f][i + 1])
      OBVIOUS
    <3>1. \A t \in Threads : ~AheadOf(t, f, i)
      BY <1>1 DEF AheadOf, InGroup, AtRecord, AtKey
    <3>2. /\ next_record[f] * Group >= NumRecords(f) /\ NumRecords(f) \in Nat
          /\ next_record[f] * Group \in Nat
      <4>1. f \in 1..NumFiles /\ next_record[f] \in Nat
        BY <1>1 DEF TypeOK
      <4>2. NumRecords(f) \in Nat
        BY <1>1, <4>1, LengthType
      <4>3. next_record[f] * Group \in Nat
        BY <4>1, TimesGroup
      <4> QED
        BY <2>1, <4>1, <4>2, <4>3 DEF Exhausted
    <3>3. ~(next_record[f] * Group <= i)
      BY <3>2
    <3> QED
      BY <1>1, <3>1, <3>3 DEF CoverInv, RecordsCovered, RecordCovered
  <2>3. ASSUME NEW k \in OfferedIn[num_gates]
        PROVE  Stored(k)
    <3>1. k \in Keys /\ OutputsOf[k] \in Outputs /\ k # NoKey
      BY <1>1, <2>3, LengthType, KeysAssumption DEF OfferedIn
    <3>f. PICK f \in 1..NumFiles : \E i \in 1..NumRecords(f) :
            \E c \in 1..Len(RoundFiles[f][i][OutputsOf[k]]) : RoundFiles[f][i][OutputsOf[k]][c] = k
      BY <1>1, <2>3, LengthType DEF OfferedIn, NumFiles, NumRecords, RoundFiles
    <3>2. PICK i \in 1..NumRecords(f) :
            \E c \in 1..Len(RoundFiles[f][i][OutputsOf[k]]) : RoundFiles[f][i][OutputsOf[k]][c] = k
      BY <3>f
    <3>3. i - 1 \in 0..NumRecords(f) - 1 /\ (i - 1) + 1 = i
      BY <1>1, <3>2, LengthType
    <3>4. RecordStored(RoundFiles[f][i])
      BY <2>2, <3>2, <3>3
    <3>5. \A o \in Outputs : \A c \in 1..Len(RoundFiles[f][i][o]) :
            RoundFiles[f][i][o][c] = NoKey \/ Stored(RoundFiles[f][i][o][c])
      <4>1. \A o \in Outputs : o < MaxOutputs + 1
        BY DEF Outputs
      <4> QED
        BY <3>4, <4>1 DEF RecordStored, StoredUpTo
    <3> QED
      BY <3>1, <3>2, <3>5
  <2> QED
    BY <2>3
<1> QED
  BY <1>1, <1>2, <1>3 DEF Progress

LEMMA EarlierRoundsStep ==
  ASSUME TypeOK, PlacesInv, LevelsInv, CoverInv, EarlierRoundsInv, [Next]_vars
  PROVE  EarlierRoundsInv'
<1>1. CASE SkipRound
  <2>1. \A k \in Keys : Stored(k)
    BY <1>1, NothingMissing DEF SkipRound
  <2>2. \A g \in Gates : OfferedIn[g] \subseteq Keys
    BY DEF OfferedIn
  <2> QED
    BY <1>1, <2>1, <2>2 DEF SkipRound, EarlierRoundsInv, Stored
<1>2. CASE BeginRound \/ UNCHANGED vars
  BY <1>2 DEF BeginRound, vars, mainVars, EarlierRoundsInv, Stored
<1>3. CASE EndRound
  <2>1. \A g \in Gates : g < num_gates + 1 => g < num_gates \/ g = num_gates
    BY DEF TypeOK, Gates
  <2> QED
    BY <1>3, <2>1, RoundStored DEF EndRound, EarlierRoundsInv, Stored
<1>4. CASE Restart
  BY <1>4 DEF Restart, EarlierRoundsInv, Gates
<1>5. ASSUME NEW t \in Threads, Worker(t)
      PROVE  EarlierRoundsInv'
  <2>1. lore \subseteq lore' /\ num_gates' = num_gates
    BY <1>5, OthersStay, Running, LoreGrows DEF mainVars
  <2> QED
    BY <2>1 DEF EarlierRoundsInv, Stored
<1> QED
  BY <1>1, <1>2, <1>3, <1>4, <1>5 DEF Next, Main, Finished

-----------------------------------------------------------------------------
\* Optimum[k] is the first round that offers k.
LEMMA FirstRound ==
  ASSUME NEW g \in Gates, NEW k \in OfferedIn[g],
         \A h \in Gates : h < g => k \notin OfferedIn[h]
  PROVE  k \in Keys /\ Optimum[k] = g
<1>1. k \in Keys /\ g \in RoundsOf(k)
  BY DEF OfferedIn, RoundsOf
<1>2. \A h \in RoundsOf(k) : g <= h
  BY DEF RoundsOf, Gates
<1>3. \A x \in RoundsOf(k) : (\A h \in RoundsOf(k) : x <= h) => x = g
  BY <1>1, <1>2 DEF RoundsOf, Gates
<1>4. (CHOOSE x \in RoundsOf(k) : \A h \in RoundsOf(k) : x <= h) = g
  BY <1>1, <1>2, <1>3
<1> QED
  BY <1>1, <1>4 DEF Optimum

\* The key in the hand of a thread is one that this round offers.
LEMMA OfferOffered ==
  ASSUME TypeOK, PlacesInv, main = "join", NEW t \in Threads, AtKey(t)
  PROVE  Offer(t) \in OfferedIn[num_gates]
<1>1. /\ at[t].file \in 1..NumFiles /\ RecordNum(t) \in 0..NumRecords(at[t].file) - 1
      /\ Offer(t) \in KeysOf(at[t].outs)
  BY InHand DEF AtRecord
<1>2. RecordNum(t) + 1 \in 1..NumRecords(at[t].file)
  BY <1>1, LengthType
<1>3. at[t].outs = OutputsOf[Offer(t)] /\ Offer(t) \in Keys
  BY <1>1 DEF KeysOf
<1>4. at[t].combo \in 1..Len(OffersOf(t))
  <2>1. at[t].combo <= Len(OffersOf(t)) /\ Len(OffersOf(t)) \in Nat
    BY InHand DEF PlacesInv, PlaceInv, AtRecord
  <2> QED
    BY <2>1, AtType
<1> QED
  BY <1>1, <1>2, <1>3, <1>4, LengthType
     DEF OfferedIn, Offer, OffersOf, RecordOf, RoundFiles, NumFiles, NumRecords

\* A key that is inserted is stored with as many gates as it needs: had an
\* earlier round offered it, it would be stored.
LEMMA InsertOptimal ==
  ASSUME TypeOK, PlacesInv, LevelsInv, EarlierRoundsInv, main = "join",
         NEW t \in Threads, Insert(t)
  PROVE  Optimum[Offer(t)] = num_gates
<1>1. AtKey(t) /\ ~Stored(Offer(t))
  BY DEF Insert, AtKey, LevelsInv
<1>2. Offer(t) \in OfferedIn[num_gates]
  BY <1>1, OfferOffered
<1>3. \A h \in Gates : h < num_gates => Offer(t) \notin OfferedIn[h]
  BY <1>1 DEF EarlierRoundsInv
<1> QED
  BY <1>2, <1>3, FirstRound, LengthType

\* A datalog is opened before any line of this run is in it.
LEMMA DatalogOpened ==
  ASSUME TypeOK, PlacesInv, LockInv, LevelsInv, DatalogInv, main = "join",
         NEW t \in Threads, OpenDatalog(t)
  PROVE  /\ Offer(t) \in Keys /\ at[t].outs = OutputsOf[Offer(t)]
         /\ num_gates \in Gates /\ num_gates = Optimum[Offer(t)]
         /\ logfps' = logfps \cup {at[t].outs}
         /\ \A k \in Keys :
              /\ Logged(k)' <=> Logged(k)
              /\ datalog'[k] \in {<< >>, datalog[k]}
<1>1. Offer(t) \in Keys /\ at[t].outs = OutputsOf[Offer(t)]
  BY InHand DEF OpenDatalog, AtRecord, AtKey, KeysOf
<1>2. num_gates \in Gates /\ num_gates = Optimum[Offer(t)]
  BY <1>1, LengthType DEF OpenDatalog, LevelsInv, DatalogInv
<1>3. logfps' = logfps \cup {at[t].outs}
  BY DEF OpenDatalog, logVars
<1>4. CASE at[t].outs \in logfps
  BY <1>1, <1>2, <1>3, <1>4 DEF OpenDatalog, logVars, Logged
<1>5. CASE at[t].outs \notin logfps
  <2>1. \A k \in Keys : datalog'[k] = IF OutputsOf[k] = at[t].outs THEN << >> ELSE datalog[k]
    BY <1>5 DEF OpenDatalog, Emptied
  <2> QED
    BY <1>1, <1>2, <1>3, <1>5, <2>1 DEF Logged
<1> QED
  BY <1>4, <1>5

\* The line that WriteLine writes is the key's only one.
LEMMA LineWritten ==
  ASSUME TypeOK, PlacesInv, LockInv, LevelsInv, DatalogInv, main = "join",
         NEW t \in Threads, WriteLine(t)
  PROVE  /\ Offer(t) \in Keys /\ OutputsOf[Offer(t)] \in logfps
         /\ Stored(Offer(t)) /\ num_gates \in Gates /\ num_gates = Optimum[Offer(t)]
         /\ datalog[Offer(t)] = << >>
         /\ datalog' = [datalog EXCEPT ![Offer(t)] = <<num_gates>>]
         /\ \A k \in Keys : BeingLogged(k) <=> k = Offer(t)
<1>1. Offer(t) \in Keys /\ OutputsOf[Offer(t)] \in logfps
  BY InHand DEF WriteLine, AtRecord, AtKey, KeysOf, DatalogInv
<1>2. <<num_gates, Offer(t)>> \in lore /\ num_gates \in Gates
  BY LengthType DEF WriteLine, LevelsInv
<1>3. \A u \in Threads : pc[u] \in {"open", "log"} <=> u = t
  BY DEF WriteLine, LockInv
<1>4. \A k \in Keys : BeingLogged(k) <=> k = Offer(t)
  BY <1>3 DEF BeingLogged
<1>5. datalog[Offer(t)] = << >>
  BY <1>1, <1>4 DEF DatalogInv, Logged
<1>6. Append(<< >>, num_gates) = <<num_gates>>
  BY <1>2
<1>7. datalog' = [datalog EXCEPT ![Offer(t)] = <<num_gates>>]
  BY <1>5, <1>6 DEF WriteLine
<1> QED
  BY <1>1, <1>2, <1>4, <1>5, <1>7 DEF Stored, DatalogInv

LEMMA DatalogStep ==
  ASSUME TypeOK, PlacesInv, LockInv, LevelsInv, EarlierRoundsInv, DatalogInv, [Next]_vars
  PROVE  DatalogInv'
<1>1. CASE Main
  <2>1. /\ UNCHANGED <<lore, logfps, datalog>>
        /\ \A u \in Threads : pc[u] \notin {"open", "log"} /\ pc'[u] \notin {"open", "log"}
    BY <1>1 DEF Main, SkipRound, BeginRound, EndRound, PlacesInv, logVars
  <2> QED
    BY <2>1 DEF DatalogInv, Logged, Stored, BeingLogged
<1>2. CASE Restart
  BY <1>2 DEF Restart, DatalogInv, Logged, Stored
<1>3. CASE UNCHANGED vars
  <2>1. UNCHANGED <<num_gates, lore, logfps, datalog, pc, at>>
    BY <1>3 DEF vars, mainVars, logVars
  <2>2. \A k : BeingLogged(k)' <=> BeingLogged(k)
    BY <2>1, SameView DEF BeingLogged
  <2> QED
    BY <2>1, <2>2 DEF DatalogInv, Logged, Stored
<1>4. ASSUME NEW t \in Threads, Worker(t)
      PROVE  DatalogInv'
  <2>1. /\ main = "join" /\ num_gates' = num_gates /\ num_gates \in Gates
        /\ pc \in [Threads -> PCs]
        /\ \A u \in Threads \ {t} :
             pc'[u] = pc[u] /\ at'[u] = at[u] /\ Offer(u)' = Offer(u)
    BY <1>4, OthersStay, Running, LengthType, SameView DEF mainVars, TypeOK, ThreadTypes
  <2>2. CASE Insert(t)
    <3>1. /\ UNCHANGED <<logfps, datalog>> /\ Offer(t)' = Offer(t)
          /\ lore' = lore \cup {<<num_gates, Offer(t)>>}
          /\ pc'[t] = "open" /\ pc[t] = "insert" /\ ~Stored(Offer(t))
      BY <2>1, <2>2, SameView DEF Insert, GoTo, LevelsInv, logVars
    <3>2. \A u \in Threads :
            pc[u] \notin {"open", "log"} /\ (pc'[u] \in {"open", "log"} <=> u = t)
      BY <2>1, <2>2, <3>1 DEF Insert, LockInv
    <3>3. \A k : ~BeingLogged(k) /\ (BeingLogged(k)' <=> k = Offer(t))
      BY <3>1, <3>2 DEF BeingLogged
    <3>4. \A k : Stored(k)' <=> Stored(k) \/ k = Offer(t)
      BY <2>1, <3>1 DEF Stored
    <3>5. \A k : Logged(k)' <=> Logged(k)
      BY <3>1 DEF Logged
    <3>6. \A n \in Gates, k \in Keys : <<n, k>> \in lore' => n = Optimum[k]
      BY <2>1, <2>2, <3>1, InsertOptimal DEF DatalogInv
    <3>7. \A u \in Threads : pc'[u] = "log" => at'[u].outs \in logfps'
      BY <2>1, <3>1 DEF DatalogInv
    <3> QED
      BY <3>1, <3>3, <3>4, <3>5, <3>6, <3>7 DEF DatalogInv
  <2>3. CASE OpenDatalog(t)
    <3>1. /\ lore' = lore /\ at' = at /\ Offer(t)' = Offer(t)
          /\ pc[t] = "open" /\ pc'[t] = "log"
      BY <2>1, <2>3, SameView DEF OpenDatalog, GoTo
    <3>2. \A k : (BeingLogged(k)' <=> BeingLogged(k)) /\ (Stored(k)' <=> Stored(k))
      BY <2>1, <3>1 DEF BeingLogged, Stored
    <3>3. /\ logfps' = logfps \cup {at[t].outs}
          /\ \A k \in Keys : (Logged(k)' <=> Logged(k)) /\ datalog'[k] \in {<< >>, datalog[k]}
      BY <2>1, <2>3, DatalogOpened
    <3>4. \A u \in Threads : pc'[u] = "log" => at'[u].outs \in logfps'
      BY <2>1, <3>1, <3>3 DEF DatalogInv
    <3> QED
      BY <3>1, <3>2, <3>3, <3>4 DEF DatalogInv
  <2>4. CASE WriteLine(t)
    <3>1. /\ logfps' = logfps /\ lore' = lore
          /\ \A u \in Threads : pc'[u] \notin {"open", "log"}
      BY <2>1, <2>4 DEF WriteLine, NextOffer, GoTo, LockInv
    <3>2. \A k : ~BeingLogged(k)' /\ (Stored(k)' <=> Stored(k))
      BY <3>1 DEF BeingLogged, Stored
    <3>3. /\ Stored(Offer(t)) /\ num_gates = Optimum[Offer(t)]
          /\ OutputsOf[Offer(t)] \in logfps /\ <<num_gates>> # << >>
          /\ datalog' = [datalog EXCEPT ![Offer(t)] = <<num_gates>>]
          /\ \A k \in Keys : BeingLogged(k) <=> k = Offer(t)
      BY <2>1, <2>4, LineWritten
    <3>4. ASSUME NEW k \in Keys
          PROVE  datalog'[k] \in {<< >>, <<Optimum[k]>>} /\ (Logged(k)' <=> Stored(k))
      <4>1. CASE k = Offer(t)
        BY <3>1, <3>3, <4>1 DEF Logged, TypeOK
      <4>2. CASE k # Offer(t)
        BY <3>1, <3>3, <4>2 DEF Logged, TypeOK, DatalogInv
      <4> QED
        BY <4>1, <4>2
    <3> QED
      BY <3>1, <3>2, <3>4 DEF DatalogInv
  <2>5. CASE ~Insert(t) /\ ~OpenDatalog(t) /\ ~WriteLine(t)
    <3>1. /\ UNCHANGED <<logfps, datalog>>
          /\ pc[t] \notin {"open", "log"} /\ pc'[t] \notin {"open", "log"}
      BY <1>4, <2>1, <2>5 DEF Worker, ClaimSteps, CatalogueSteps, SaveSteps, GoTo, NextOffer, logVars,
         TestMissing, ReadNextFile, ClaimGroup, ClaimNothing,
         TryLockFails, TryLockSucceeds, AdvanceFile, NextRecord, RecordFinished,
         NextOutputs, TakeOffer, LookUp, Lock, RaceEvaded, Recheck, Insert,
         OpenDatalog, WriteLine
    <3>2. lore' = lore
      BY <1>4, <2>1, <2>5, LoreGrows
    <3>3. \A k : BeingLogged(k)' <=> BeingLogged(k)
      BY <2>1, <3>1 DEF BeingLogged
    <3>4. \A u \in Threads : pc'[u] = "log" => at'[u].outs \in logfps'
      BY <2>1, <3>1 DEF DatalogInv
    <3> QED
      BY <3>1, <3>2, <3>3, <3>4 DEF DatalogInv, Logged, Stored
  <2> QED
    BY <2>2, <2>3, <2>4, <2>5
<1> QED
  BY <1>1, <1>2, <1>3, <1>4 DEF Next, Finished

-----------------------------------------------------------------------------
LEMMA InitIInv ==
  ASSUME Init
  PROVE  IInv
<1> USE DEF Init
<1>1. TypeOK
  BY DEF TypeOK, ThreadTypes, PCs, Places, StartOfRecord
<1>2. PlacesInv /\ LevelsInv
  BY DEF PlacesInv, PlaceInv, LevelsInv, AtFile, InGroup, AtRecord, AtKey
<1>3. LockInv
  BY ThreadsAssumption DEF LockInv
<1>4. CoverInv /\ EarlierRoundsInv
  BY DEF CoverInv, EarlierRoundsInv, Gates
<1>5. DatalogInv
  BY DEF DatalogInv, Logged, Stored
<1> QED
  BY <1>1, <1>2, <1>3, <1>4, <1>5 DEF IInv, StructureInv, ProgressInv

LEMMA NextIInv ==
  ASSUME IInv, [Next]_vars
  PROVE  IInv'
  BY TypeStep, PlacesStep, LockStep, LevelsStep, CoverStep, EarlierRoundsStep, DatalogStep
     DEF IInv, StructureInv, ProgressInv

\* The invariant holds in every reachable state.
THEOREM Invariance == SafeSpec => []IInv
<1>1. Init => IInv
  BY InitIInv
<1>2. IInv /\ [Next]_vars => IInv'
  BY NextIInv
<1> QED
  BY <1>1, <1>2, PTL DEF SafeSpec

\* Every variable keeps its type, whatever the threads do.
THEOREM TypeCorrect == SafeSpec => []TypeOK
<1>1. IInv => TypeOK
  BY DEF IInv, StructureInv
<1> QED
  BY <1>1, Invariance, PTL

\* However the threads race, a datalog never has two lines for a key.
THEOREM LinesUnique == SafeSpec => []OneLinePerKey
<1>1. IInv => OneLinePerKey
  <2>1. Len(<< >>) <= 1 /\ \A n : Len(<<n>>) <= 1
    OBVIOUS
  <2> QED
    BY <2>1 DEF IInv, DatalogInv, OneLinePerKey
<1> QED
  BY <1>1, Invariance, PTL

\* Every line tells the smallest number of gates that builds its key.
THEOREM LinesOptimal == SafeSpec => []OptimalLines
<1>1. IInv => OptimalLines
  BY DEF IInv, DatalogInv, OptimalLines
<1> QED
  BY <1>1, Invariance, PTL

\* Between two rounds, all that the earlier rounds offered is stored, provided
\* that hardware_concurrency() is not 0.
THEOREM NothingLost ==
  ASSUME Threads # {}
  PROVE  SafeSpec => []RoundsComplete
<1>1. IInv => RoundsComplete
  BY DEF IInv, ProgressInv, EarlierRoundsInv, RoundsComplete
<1> QED
  BY <1>1, Invariance, PTL

\* While nobody writes, the datalogs of this run say what the lore says.
THEOREM LinesAndLoreAgree == SafeSpec => []LinesMatchLore
<1>1. IInv => LinesMatchLore
  <2> SUFFICES ASSUME IInv, io_lock = NoThread, NEW k \in Keys
               PROVE  IF OutputsOf[k] \in logfps
                      THEN \A n \in Gates : <<n, k>> \in lore <=> datalog[k] = <<n>>
                      ELSE ~Stored(k)
    BY DEF LinesMatchLore
  <2>1. ~BeingLogged(k)
    BY ThreadsAssumption DEF IInv, StructureInv, LockInv, BeingLogged
  <2>2. /\ datalog[k] \in {<< >>, <<Optimum[k]>>} /\ (Logged(k) <=> Stored(k))
        /\ \A n \in Gates : <<n, k>> \in lore => n = Optimum[k]
    BY <2>1 DEF IInv, DatalogInv
  <2>3. \A n : <<n>> # << >> /\ (<<n>> = <<Optimum[k]>> => n = Optimum[k])
    OBVIOUS
  <2> QED
    BY <2>2, <2>3 DEF Logged, Stored
<1> QED
  BY <1>1, Invariance, PTL

\* A group is claimed once: the counter is already past the groups in hand.
LEMMA ClaimsStep ==
  ASSUME TypeOK, PlacesInv, RecordsClaimedOnce, [Next]_vars
  PROVE  RecordsClaimedOnce'
<1>1. CASE Main \/ Restart
  <2>1. \A t \in Threads : pc'[t] \in {"start", "done"}
    BY <1>1 DEF Main, SkipRound, BeginRound, EndRound, Restart, PlacesInv
  <2> QED
    BY <2>1 DEF RecordsClaimedOnce, InGroup, AtRecord, AtKey
<1>2. CASE UNCHANGED vars
  BY <1>2 DEF vars, RecordsClaimedOnce, InGroup, AtRecord, AtKey
<1>3. ASSUME NEW t \in Threads, Worker(t)
      PROVE  RecordsClaimedOnce'
  <2>1. /\ main = "join" /\ at \in [Threads -> Places] /\ pc \in [Threads -> PCs]
        /\ \A u \in Threads \ {t} :
              /\ at'[u] = at[u] /\ InGroup(u)' = InGroup(u)
    BY <1>3, OthersStay, Running DEF TypeOK, ThreadTypes, InGroup, AtRecord, AtKey
  <2>2. ASSUME NEW u \in Threads \ {t}, InGroup(u), InGroup(t)', at'[t].file = at[u].file
        PROVE  at'[t].base # at[u].base
    <3>1. CASE ClaimGroup(t)
      <4>1. /\ at'[t].file = at[t].file /\ at'[t].base = next_record[at[u].file] * Group
        BY <2>1, <2>2, <3>1 DEF ClaimGroup, ClaimBase, Places
      <4>2. /\ at[u].base + Group <= next_record[at[u].file] * Group /\ at[u].base \in Nat
        BY <2>2, AtType DEF PlacesInv, PlaceInv
      <4> QED
        BY <4>1, <4>2
    <3>2. CASE ~ClaimGroup(t)
      <4>1. InGroup(t) /\ at'[t].file = at[t].file /\ at'[t].base = at[t].base
        <5>1. CASE ClaimSteps(t)
          BY <2>1, <2>2, <3>2, <5>1 DEF ClaimSteps, TestMissing, ReadNextFile, ClaimNothing,
             TryLockFails, TryLockSucceeds, AdvanceFile, NextRecord, GoTo, InGroup, AtRecord,
             AtKey, Places
        <5>2. CASE CatalogueSteps(t)
          <6>1. CASE RecordFinished(t)
            BY <2>1, <2>2, <6>1 DEF RecordFinished, GoTo, InGroup, AtRecord, AtKey, Places
          <6>2. CASE NextOutputs(t)
            BY <2>1, <6>2 DEF NextOutputs, InGroup, AtRecord, Places
          <6>3. CASE TakeOffer(t)
            <7>1. /\ pc[t] = "offer"
                  /\ at' = at \/ at' = [at EXCEPT ![t].combo = @ + 1]
              BY <6>3 DEF TakeOffer
            <7> QED
              BY <2>1, <7>1 DEF InGroup, AtRecord, Places
          <6> QED
            BY <5>2, <6>1, <6>2, <6>3 DEF CatalogueSteps
        <5>3. CASE SaveSteps(t)
          BY <2>1, <5>3 DEF SaveSteps, LookUp, Lock, RaceEvaded, Recheck, Insert,
         OpenDatalog, WriteLine,
             NextOffer, InGroup, AtRecord, AtKey, Places
        <5> QED
          BY <1>3, <5>1, <5>2, <5>3 DEF Worker
      <4> QED
        BY <2>2, <4>1 DEF RecordsClaimedOnce
    <3> QED
      BY <3>1, <3>2
  <2> QED
    BY <2>1, <2>2 DEF RecordsClaimedOnce
<1> QED
  BY <1>1, <1>2, <1>3 DEF Next, Finished

\* No two threads process the same record.
THEOREM ClaimsDisjoint == SafeSpec => []RecordsClaimedOnce
<1>1. Init => RecordsClaimedOnce
  BY DEF Init, RecordsClaimedOnce, InGroup, AtRecord, AtKey
<1>2. IInv /\ RecordsClaimedOnce /\ [Next]_vars => RecordsClaimedOnce'
  BY ClaimsStep DEF IInv, StructureInv
<1> QED
  BY <1>1, <1>2, Invariance, PTL DEF SafeSpec

\* No stored key is taken out again within a run of the program.
THEOREM NeverTakenOut == SafeSpec => NeverReplaced
<1>1. IInv /\ [Next]_vars => [restarts' = restarts => lore \subseteq lore']_vars
  <2> SUFFICES ASSUME IInv, [Next]_vars, restarts' = restarts
               PROVE  lore \subseteq lore'
    OBVIOUS
  <2>1. ASSUME NEW t \in Threads, Worker(t)
        PROVE  lore \subseteq lore'
    BY <2>1, OthersStay, Running, LoreGrows DEF IInv, StructureInv
  <2>2. ~Restart
    BY DEF Restart, IInv, StructureInv, TypeOK
  <2> QED
    BY <2>1, <2>2 DEF Next, Main, SkipRound, BeginRound, EndRound, Finished, vars
<1> QED
  BY <1>1, Invariance, PTL DEF SafeSpec, NeverReplaced

\* The datalogs are at any time part of the catalogue of optimal solutions,
\* also where the program is killed after it has emptied a file and before it
\* writes there.
THEOREM CatalogueImplemented == SafeSpec => ImplementsCatalogueSafe
<1>1. Init => Catalogue!Init
  BY DEF Init, Catalogue!Init
<1>2. IInv /\ [Next]_vars => [Catalogue!Next]_(Catalogue!vars)
  <2> SUFFICES ASSUME IInv, [Next]_vars, ~UNCHANGED <<datalog, logfps>>
               PROVE  Catalogue!Next
    BY DEF Catalogue!vars
  <2>1. TypeOK /\ TypeOK'
    BY TypeStep DEF IInv, StructureInv
  <2>2. CASE Restart
    BY <2>2 DEF Restart, Catalogue!Next, Catalogue!NewRun
  <2>3. ASSUME NEW t \in Threads, OpenDatalog(t)
        PROVE  Catalogue!Next
    <3>1. main = "join"
      BY <2>3, Running DEF OpenDatalog, IInv, StructureInv
    <3> DEFINE k == Offer(t)
    <3>2. /\ k \in Keys /\ at[t].outs = OutputsOf[k]
          /\ num_gates \in Gates /\ num_gates = Optimum[k]
      BY <2>3, <3>1, DatalogOpened DEF IInv, StructureInv
    <3>3. k \in Catalogue!Buildable
      BY <3>2 DEF Gates, Catalogue!Buildable
    <3>4. Catalogue!Open(OutputsOf[k])
      <4>1. at[t].outs \notin logfps
        BY <2>3 DEF OpenDatalog, logVars
      <4> QED
        BY <2>3, <3>2, <4>1 DEF OpenDatalog, Emptied, Catalogue!Open
    <3> QED
      BY <3>3, <3>4 DEF Catalogue!Next
  <2>4. ASSUME NEW t \in Threads, WriteLine(t)
        PROVE  Catalogue!Next
    <3>1. main = "join"
      BY <2>4, Running DEF WriteLine, IInv, StructureInv
    <3> DEFINE k == Offer(t)
    <3>2. /\ k \in Keys /\ OutputsOf[k] \in logfps
          /\ num_gates \in Gates /\ num_gates = Optimum[k]
          /\ datalog[k] = << >> /\ datalog' = [datalog EXCEPT ![k] = <<num_gates>>]
      BY <2>4, <3>1, LineWritten DEF IInv, StructureInv
    <3>3. k \in Catalogue!Buildable
      BY <3>2 DEF Gates, Catalogue!Buildable
    <3>4. Catalogue!Publish(k)
      BY <2>4, <3>2 DEF WriteLine, Catalogue!Publish
    <3> QED
      BY <3>3, <3>4 DEF Catalogue!Next
  <2>5. Restart \/ \E t \in Threads : OpenDatalog(t) \/ WriteLine(t)
    BY DEF Next, Main, SkipRound, BeginRound, EndRound, Finished, vars, Worker,
         ClaimSteps, CatalogueSteps, SaveSteps, TestMissing, ReadNextFile, ClaimGroup,
         ClaimNothing, TryLockFails, TryLockSucceeds, AdvanceFile, NextRecord, RecordFinished,
         NextOutputs, TakeOffer, LookUp, Lock, RaceEvaded, Recheck, Insert, logVars
  <2> QED
    BY <2>2, <2>3, <2>4, <2>5
<1> QED
  BY <1>1, <1>2, Invariance, PTL DEF SafeSpec, ImplementsCatalogueSafe, Catalogue!SafeSpec
=============================================================================
