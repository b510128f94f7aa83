-------------------------- MODULE AsyncPoolProofs --------------------------
(***************************************************************************)
(* The safety properties of AsyncPool, for every number of threads, users, *)
(* calls and spurious wake-ups.                                            *)
(***************************************************************************)
EXTENDS AsyncPool, TLAPS, FiniteSetTheorems

Threads == Runners \cup Users
PCs     == RunnerPC \cup OwnerPC \cup {"left"}
-----------------------------------------------------------------------------
\* Where the threads are.
PCTypes ==
  /\ pc \in [Threads -> PCs]
  /\ \A r \in Runners : pc[r] \in RunnerPC
  /\ \A u \in Users \ {Owner} : pc[u] \in CallPC \cup {"left"}
  /\ pc[Owner] \in OwnerPC

\* A notification moves sleepers only.
LEMMA NotifiedOne ==
  ASSUME PCTypes, NEW t \in Threads, NEW label \in PCs, t \notin Asleep, NotifyOne(t, label)
  PROVE  /\ pc' \in [Threads -> PCs]
         /\ pc'[t] = label
         /\ \A s \in Threads \ {t} :
              pc'[s] = pc[s] \/ (pc[s] = "asleep" /\ pc'[s] = Woken(s))
         /\ Asleep # {} => \E s \in Asleep : pc'[s] = Woken(s)
<1>1. CASE Asleep = {} /\ Goto(t, label)
  BY <1>1 DEF PCTypes, Goto
<1>2. CASE \E s \in Asleep : pc' = [pc EXCEPT ![t] = label, ![s] = Woken(s)]
  <2>1. PICK s \in Asleep : pc' = [pc EXCEPT ![t] = label, ![s] = Woken(s)]
    BY <1>2
  <2>2. s \in Threads /\ s # t /\ pc[s] = "asleep"
    BY <2>1 DEF Asleep, Threads
  <2>3. Woken(s) \in PCs
    BY DEF Woken, PCs, RunnerPC, OwnerPC, CallPC
  <2> QED
    BY <2>1, <2>2, <2>3 DEF PCTypes
<1> QED
  BY <1>1, <1>2 DEF NotifyOne

\* notify_all(): the notifier goes on, and every sleeper is woken.
LEMMA NotifiedAll ==
  ASSUME PCTypes, NEW t \in Threads, NEW label \in PCs, NotifyAll(t, label)
  PROVE  /\ pc' \in [Threads -> PCs]
         /\ pc'[t] = label
         /\ \A s \in Threads \ {t} :
              pc'[s] = IF pc[s] = "asleep" THEN Woken(s) ELSE pc[s]
<1>1. \A s \in Threads : Woken(s) \in PCs
  BY DEF Woken, PCs, RunnerPC, OwnerPC, CallPC
<1> QED
  BY <1>1 DEF PCTypes, NotifyAll, Asleep, Threads

\* Users who make a step of their own.
LEMMA UserWent ==
  ASSUME PCTypes, PoolAssumption, NEW u \in Users, NEW label,
         label \in CallPC \/ (label = "left" /\ u # Owner), Goto(u, label)
  PROVE  PCTypes'
<1>1. /\ CallPC \subseteq OwnerPC /\ OwnerPC \subseteq PCs /\ "left" \in PCs
      /\ Runners \subseteq Threads /\ Users \subseteq Threads /\ Owner \in Users
      /\ Runners \cap Users = {}
  BY DEF OwnerPC, PCs, Threads, PoolAssumption
<1>2. label \in PCs
  BY <1>1
<1>3. pc' \in [Threads -> PCs] /\ \A t \in Threads : pc'[t] = IF t = u THEN label ELSE pc[t]
  BY <1>1, <1>2 DEF PCTypes, Goto
<1>4. \A r \in Runners : pc'[r] \in RunnerPC
  BY <1>1, <1>3 DEF PCTypes
<1>5. \A v \in Users \ {Owner} : pc'[v] \in CallPC \cup {"left"}
  BY <1>1, <1>3 DEF PCTypes
<1>6. pc'[Owner] \in OwnerPC
  BY <1>1, <1>3 DEF PCTypes
<1> QED
  BY <1>3, <1>4, <1>5, <1>6 DEF PCTypes

\* The part of the program that a thread runs.
PCsOf(t) == IF t \in Runners THEN RunnerPC ELSE IF t = Owner THEN OwnerPC ELSE CallPC \cup {"left"}

\* What the step of another thread may do to s.
Roused(s) ==
  \/ pc[s] = "asleep" /\ pc'[s] = Woken(s)
  \/ s = Owner /\ pc[s] = "unregistered" /\ pc'[s] = IF ending THEN "closing" ELSE "ctor"

\* A thread that is woken goes on in its own part of the program.
LEMMA PartsOfThreads ==
  ASSUME PoolAssumption, NEW t \in Threads
  PROVE  /\ PCsOf(t) \subseteq PCs
         /\ Woken(t) \in PCsOf(t)
         /\ t \in Users => CallPC \subseteq PCsOf(t)
         /\ t = Owner => PCsOf(t) = OwnerPC
<1>1. CASE t \in Runners
  <2>1. PCsOf(t) = RunnerPC /\ t \notin Users /\ t # Owner
    BY <1>1 DEF PCsOf, PoolAssumption
  <2> QED
    BY <1>1, <2>1 DEF PCs, Woken, RunnerPC
<1>2. CASE t \notin Runners
  <2>1. PCsOf(t) = IF t = Owner THEN OwnerPC ELSE CallPC \cup {"left"}
    BY <1>2 DEF PCsOf
  <2>2. CallPC \subseteq OwnerPC /\ "woke" \in CallPC /\ Woken(t) = "woke"
    BY <1>2 DEF OwnerPC, CallPC, Woken
  <2> QED
    BY <2>1, <2>2 DEF PCs
<1> QED
  BY <1>1, <1>2

\* A thread moves within its part of the program, and may rouse others.
LEMMA MovesWithin ==
  ASSUME PCTypes, PoolAssumption, NEW t \in Threads,
         pc' \in [Threads -> PCs], pc'[t] \in PCsOf(t),
         \A s \in Threads \ {t} : pc'[s] = pc[s] \/ Roused(s)
  PROVE  PCTypes'
<1>1. /\ Owner \in Users /\ Runners \cap Users = {}
      /\ Runners \subseteq Threads /\ Users \subseteq Threads /\ Threads \subseteq Runners \cup Users
  BY DEF PoolAssumption, Threads
<1>2. ASSUME NEW s \in Threads
      PROVE  pc'[s] \in PCsOf(s)
  <2>1. CASE s = t
    BY <2>1
  <2>2. CASE pc'[s] = pc[s]
    BY <1>1, <2>2 DEF PCTypes, PCsOf
  <2>3. CASE pc[s] = "asleep" /\ pc'[s] = Woken(s)
    BY <2>3, PartsOfThreads
  <2>4. CASE s = Owner /\ pc'[s] = IF ending THEN "closing" ELSE "ctor"
    <3>1. "closing" \in OwnerPC /\ "ctor" \in OwnerPC
      BY DEF OwnerPC
    <3> QED
      BY <2>4, <3>1, PartsOfThreads
  <2> QED
    BY <2>1, <2>2, <2>3, <2>4 DEF Roused
<1>3. \A r \in Runners : pc'[r] \in RunnerPC
  BY <1>1, <1>2 DEF PCsOf
<1>4. \A u \in Users \ {Owner} : pc'[u] \in CallPC \cup {"left"}
  BY <1>1, <1>2 DEF PCsOf
<1>5. pc'[Owner] \in OwnerPC
  BY <1>1, <1>2 DEF PCsOf
<1> QED
  BY <1>3, <1>4, <1>5 DEF PCTypes

\* A thread makes a step of its own.
LEMMA Went ==
  ASSUME PCTypes, PoolAssumption, NEW t \in Threads, NEW label \in PCsOf(t), Goto(t, label)
  PROVE  PCTypes'
<1>1. label \in PCs
  BY PartsOfThreads
<1>2. /\ pc' \in [Threads -> PCs] /\ pc'[t] = label
      /\ \A s \in Threads \ {t} : pc'[s] = pc[s]
  BY <1>1 DEF PCTypes, Goto
<1> QED
  BY <1>2, MovesWithin

\* A thread goes on and notifies others.
LEMMA Notified ==
  ASSUME PCTypes, PoolAssumption, NEW t \in Threads, NEW label \in PCsOf(t), t \notin Asleep,
         NotifyOne(t, label) \/ NotifyAll(t, label)
  PROVE  PCTypes'
<1>1. label \in PCs
  BY PartsOfThreads
<1>2. /\ pc' \in [Threads -> PCs]
      /\ pc'[t] = label
      /\ \A s \in Threads \ {t} : pc'[s] = pc[s] \/ (pc[s] = "asleep" /\ pc'[s] = Woken(s))
  <2>1. CASE NotifyOne(t, label)
    BY <1>1, <2>1, NotifiedOne
  <2>2. CASE NotifyAll(t, label)
    BY <1>1, <2>2, NotifiedAll
  <2> QED
    BY <2>1, <2>2
<1>3. \A s \in Threads \ {t} : pc'[s] = pc[s] \/ Roused(s)
  BY <1>2 DEF Roused
<1> QED
  BY <1>2, <1>3, MovesWithin

\* Every thread stays within its own part of the program.
LEMMA PCTypesKept ==
  ASSUME PCTypes, PoolAssumption, Next
  PROVE  PCTypes'
<1>1. /\ Owner \in Users /\ Runners \cap Users = {}
      /\ Runners \subseteq Threads /\ Users \subseteq Threads
  BY DEF PoolAssumption, Threads
<1>2. CASE \E r \in Runners : Runner(r)
  <2>1. PICK r \in Runners : Runner(r)
    BY <1>2
  <2> USE DEF RunnerPC
  <2>a. r \in Threads /\ PCsOf(r) = RunnerPC
    BY <1>1 DEF PCsOf
  <2>2. CASE Register(r) \/ EndRunner(r) \/ TakeTask(r) \/ Drowse(r)
    <3>1. PICK label \in {"look", "ended", "task", "drowsy"} : Goto(r, label)
      BY <2>2 DEF Register, EndRunner, TakeTask, Drowse
    <3> QED
      BY <2>a, <3>1, Went
  <2>3. CASE FallAsleep(r)
    <3>1. PICK awake \in {"ctor", "closing"} :
            /\ awake = IF ending THEN "closing" ELSE "ctor"
            /\ pc' = [pc EXCEPT ![r] = "asleep",
                                ![Owner] = IF @ = "unregistered" THEN awake ELSE @]
      BY <2>3 DEF FallAsleep
    <3>2. pc \in [Threads -> PCs] /\ r # Owner /\ "asleep" \in PCs /\ awake \in PCs
      BY <1>1, <2>a, <3>1 DEF PCTypes, PCs, OwnerPC
    <3>3. /\ pc' \in [Threads -> PCs] /\ pc'[r] = "asleep"
          /\ \A s \in Threads \ {r, Owner} : pc'[s] = pc[s]
          /\ pc'[Owner] = IF pc[Owner] = "unregistered" THEN awake ELSE pc[Owner]
      BY <1>1, <2>a, <3>1, <3>2
    <3>4. \A s \in Threads \ {r} : pc'[s] = pc[s] \/ Roused(s)
      BY <3>1, <3>3 DEF Roused
    <3> QED
      BY <2>a, <3>3, <3>4, MovesWithin
  <2>4. CASE Execute(r) \/ CountDown(r) \/ ReadWaiting(r)
    <3>1. PICK label \in {"done", "signal", "signal all", "signal one"} : Goto(r, label)
      BY <2>4 DEF Execute, CountDown, ReadWaiting
    <3> QED
      BY <2>a, <3>1, Went
  <2>5. CASE SignalOthers(r)
    <3>1. r \notin Asleep /\ (NotifyOne(r, "look") \/ NotifyAll(r, "look"))
      BY <2>5 DEF SignalOthers, Asleep
    <3> QED
      BY <2>a, <3>1, Notified
  <2> QED
    BY <2>1, <2>2, <2>3, <2>4, <2>5 DEF Runner
<1>3. CASE \E u \in Users : User(u)
  <2>1. PICK u \in Users : User(u)
    BY <1>3
  <2> USE DEF CallPC
  <2>2. CASE \/ RunTask(u) \/ \E limit \in Limits : ParallelizeFor(u, limit)
             \/ Share(u) \/ Piece(u) \/ NextShare(u) \/ WaitSaved(u)
    <3>1. \/ UNCHANGED pc \/ Goto(u, "pushed") \/ Goto(u, "inner")
          \/ Goto(u, "outer") \/ Goto(u, "idle")
      BY <2>2 DEF RunTask, ParallelizeFor, Share, Piece, NextShare, WaitSaved
    <3>2. {"pushed", "inner", "outer", "idle"} \subseteq CallPC
      OBVIOUS
    <3>3. CASE UNCHANGED pc
      BY <3>3 DEF PCTypes
    <3> QED
      BY <3>1, <3>2, <3>3, UserWent
  <2>4. CASE Wait(u) \/ StopWaiting(u) \/ WaitForChange(u) \/ PassOn(u) \/ Leave(u)
    <3>1. \/ Goto(u, "wait") \/ Goto(u, "idle") \/ Goto(u, "asleep") \/ Goto(u, "pass on")
          \/ u # Owner /\ Goto(u, "left")
      BY <2>4 DEF Wait, StopWaiting, WaitForChange, PassOn, Leave
    <3>2. {"wait", "idle", "asleep", "pass on"} \subseteq CallPC
      OBVIOUS
    <3> QED
      BY <3>1, <3>2, UserWent
  <2>5. CASE Pushed(u) \/ PassedOn(u)
    <3>1. PICK label \in CallPC : u \notin Asleep /\ NotifyOne(u, label)
      BY <2>5 DEF Pushed, PassedOn, Asleep
    <3>2. u \in Threads /\ label \in PCsOf(u)
      BY <1>1, PartsOfThreads
    <3> QED
      BY <3>1, <3>2, Notified
  <2> QED
    BY <2>1, <2>2, <2>4, <2>5 DEF User
<1>4. CASE Lifetime
  <2> USE DEF OwnerPC
  <2>a. Owner \in Threads /\ PCsOf(Owner) = OwnerPC
    BY <1>1, PartsOfThreads
  <2>1. CASE NotifyEnding
    <3>1. Owner \notin Asleep /\ NotifyAll(Owner, "join")
      BY <2>1 DEF NotifyEnding, Asleep
    <3> QED
      BY <2>a, <3>1, Notified
  <2>2. CASE Destroy \/ AllRegistered \/ NotAllRegistered \/ AwaitRunner \/ Announce \/ Join
    <3>1. \E label \in {"closing", "announce", "unaware", "unregistered", "notify", "destroyed"} :
             Goto(Owner, label) \/ Goto(Owner, "idle")
      BY <2>2 DEF Destroy, AllRegistered, NotAllRegistered, AwaitRunner, Announce, Join
    <3>2. "idle" \in PCsOf(Owner)
      BY <2>a DEF CallPC
    <3> QED
      BY <2>a, <3>1, <3>2, Went
  <2> QED
    BY <1>4, <2>1, <2>2 DEF Lifetime
<1>5. CASE \E t \in Threads : SpuriousWake(t)
  <2>1. PICK t \in Threads : SpuriousWake(t)
    BY <1>5
  <2>2. CASE t \in Asleep /\ Goto(t, Woken(t))
    BY <2>2, PartsOfThreads, Went
  <2>3. CASE pc[t] = "unregistered" /\ Goto(t, IF ending THEN "closing" ELSE "ctor")
    <3>1. t = Owner
      BY <2>3 DEF PCTypes, Threads, RunnerPC, CallPC
    <3>2. PICK label \in {"closing", "ctor"} : Goto(t, label)
      BY <2>3
    <3>3. label \in PCsOf(t)
      BY <3>1, PartsOfThreads DEF OwnerPC
    <3> QED
      BY <3>2, <3>3, Went
  <2> QED
    BY <2>1, <2>2, <2>3 DEF SpuriousWake
<1>6. CASE Finished
  BY <1>6 DEF Finished, vars, PCTypes
<1> QED
  BY <1>2, <1>3, <1>4, <1>5, <1>6 DEF Next, Threads
-----------------------------------------------------------------------------
\* A step of t.
Step(t) ==
  \/ t \in Runners /\ Runner(t)
  \/ t \in Users /\ User(t)
  \/ t = Owner /\ Lifetime
  \/ SpuriousWake(t)

\* Each step of the pool is the step of one thread, or nothing happens.
LEMMA Steps ==
  ASSUME PoolAssumption, Next
  PROVE  (\E t \in Threads : Step(t)) \/ UNCHANGED vars
BY DEF Next, Step, Threads, PoolAssumption, Finished

\* A step moves another thread only by waking it.
LEMMA OthersAreRoused ==
  ASSUME PCTypes, PoolAssumption, NEW t \in Threads, Step(t)
  PROVE  \A s \in Threads \ {t} : pc'[s] = pc[s] \/ Roused(s)
<1>1. Owner \in Threads /\ Runners \subseteq Threads /\ Users \subseteq Threads
  BY DEF PoolAssumption, Threads
<1>2. ASSUME NEW label, Goto(t, label)
      PROVE  \A s \in Threads \ {t} : pc'[s] = pc[s]
  BY <1>2 DEF PCTypes, Goto
<1>3. ASSUME NEW label \in PCs, t \notin Asleep, NotifyOne(t, label) \/ NotifyAll(t, label)
      PROVE  \A s \in Threads \ {t} : pc'[s] = pc[s] \/ Roused(s)
  BY <1>3, NotifiedOne, NotifiedAll DEF Roused
<1>4. {"look", "idle", "inner", "wait", "join"} \subseteq PCs
  BY DEF PCs, RunnerPC, OwnerPC, CallPC
<1>5. CASE t \in Runners /\ Runner(t)
  <2>1. CASE SignalOthers(t)
    BY <2>1, <1>3, <1>4 DEF SignalOthers, Asleep
  <2>2. CASE FallAsleep(t)
    BY <2>2, <1>1 DEF FallAsleep, PCTypes, Roused
  <2>3. CASE \/ Register(t) \/ EndRunner(t) \/ TakeTask(t) \/ Drowse(t)
             \/ Execute(t) \/ CountDown(t) \/ ReadWaiting(t)
    <3>1. \E label : Goto(t, label)
      BY <2>3 DEF Register, EndRunner, TakeTask, Drowse, Execute, CountDown, ReadWaiting
    <3> QED
      BY <3>1, <1>2
  <2> QED
    BY <1>5, <2>1, <2>2, <2>3 DEF Runner
<1>6. CASE t \in Users /\ User(t)
  <2>1. CASE Pushed(t) \/ PassedOn(t)
    BY <2>1, <1>3, <1>4 DEF Pushed, PassedOn, Asleep
  <2>2. CASE \/ RunTask(t) \/ \E limit \in Limits : ParallelizeFor(t, limit)
             \/ Share(t) \/ Piece(t) \/ NextShare(t) \/ WaitSaved(t)
             \/ Wait(t) \/ StopWaiting(t) \/ WaitForChange(t) \/ PassOn(t) \/ Leave(t)
    <3>1. UNCHANGED pc \/ \E label : Goto(t, label)
      BY <2>2 DEF RunTask, ParallelizeFor, Share, Piece, NextShare, WaitSaved,
                  Wait, StopWaiting, WaitForChange, PassOn, Leave
    <3> QED
      BY <3>1, <1>2
  <2> QED
    BY <1>6, <2>1, <2>2 DEF User
<1>7. CASE t = Owner /\ Lifetime
  <2>1. CASE NotifyEnding
    BY <1>7, <2>1, <1>3, <1>4 DEF NotifyEnding, Asleep
  <2>2. CASE Destroy \/ AllRegistered \/ NotAllRegistered \/ AwaitRunner \/ Announce \/ Join
    <3>1. \E label : Goto(t, label)
      BY <1>7, <2>2 DEF Destroy, AllRegistered, NotAllRegistered, AwaitRunner, Announce, Join
    <3> QED
      BY <3>1, <1>2
  <2> QED
    BY <1>7, <2>1, <2>2 DEF Lifetime
<1>8. CASE SpuriousWake(t)
  BY <1>8, <1>2 DEF SpuriousWake
<1> QED
  BY <1>5, <1>6, <1>7, <1>8 DEF Step
-----------------------------------------------------------------------------
\* Who holds the lock between two steps.
LockInv ==
  /\ lock \in {NoThread, Owner} \cup Runners
  /\ \A r \in Runners : pc[r] = "drowsy" => lock = r
  /\ pc[Owner] = "unaware" => lock = Owner

\* The steps that take or release the lock without doing anything else.
LockStep(t) ==
  \/ t \in Runners /\ (Drowse(t) \/ FallAsleep(t))
  \/ t = Owner /\ (NotAllRegistered \/ AwaitRunner)

\* The remaining steps begin and end without the lock.
LEMMA OtherSteps ==
  ASSUME PCTypes, PoolAssumption, NEW t \in Threads, Step(t), ~LockStep(t)
  PROVE  /\ UNCHANGED lock
         /\ pc'[t] \notin {"drowsy", "unaware"} /\ pc[t] \notin {"drowsy", "unaware"}
<1>1. /\ Owner \in Threads /\ Owner \notin Runners
      /\ Runners \subseteq Threads /\ Users \subseteq Threads
  BY DEF PoolAssumption, Threads
<1>2. ASSUME NEW label, Goto(t, label)
      PROVE  pc'[t] = label
  BY <1>2 DEF PCTypes, Goto
<1>3. ASSUME NEW label \in PCs, t \notin Asleep, NotifyOne(t, label) \/ NotifyAll(t, label)
      PROVE  pc'[t] = label
  BY <1>3, NotifiedOne, NotifiedAll
<1>4. {"look", "idle", "inner", "wait", "join"} \subseteq PCs
  BY DEF PCs, RunnerPC, OwnerPC, CallPC
<1>5. CASE t \in Runners /\ Runner(t)
  <2>1. CASE SignalOthers(t)
    BY <2>1, <1>3, <1>4 DEF SignalOthers, Asleep
  <2>2. CASE \/ Register(t) \/ EndRunner(t) \/ TakeTask(t)
             \/ Execute(t) \/ CountDown(t) \/ ReadWaiting(t)
    BY <2>2, <1>2 DEF Register, EndRunner, TakeTask, Execute, CountDown, ReadWaiting
  <2> QED
    BY <1>5, <2>1, <2>2 DEF Runner, LockStep
<1>6. CASE t \in Users /\ User(t)
  <2>1. CASE Pushed(t) \/ PassedOn(t)
    BY <2>1, <1>3, <1>4 DEF Pushed, PassedOn, Asleep
  <2>2. CASE RunTask(t) \/ \E limit \in Limits : ParallelizeFor(t, limit)
    BY <2>2, <1>2 DEF RunTask, ParallelizeFor, MayCall
  <2>3. CASE Share(t) \/ Piece(t) \/ NextShare(t) \/ WaitSaved(t)
    BY <2>3, <1>2 DEF Share, Piece, NextShare, WaitSaved
  <2>4. CASE Wait(t) \/ StopWaiting(t) \/ WaitForChange(t) \/ PassOn(t) \/ Leave(t)
    BY <2>4, <1>2 DEF Wait, StopWaiting, WaitForChange, PassOn, Leave, MayCall
  <2> QED
    BY <1>6, <2>1, <2>2, <2>3, <2>4 DEF User
<1>7. CASE t = Owner /\ Lifetime
  <2>1. CASE NotifyEnding
    BY <1>7, <2>1, <1>3, <1>4 DEF NotifyEnding, Asleep
  <2>2. CASE Destroy \/ AllRegistered \/ Announce \/ Join
    BY <1>7, <2>2, <1>2 DEF Destroy, AllRegistered, Announce, Join
  <2> QED
    BY <1>7, <2>1, <2>2 DEF Lifetime, LockStep
<1>8. CASE SpuriousWake(t)
  BY <1>8, <1>2 DEF SpuriousWake, Asleep, Woken
<1> QED
  BY <1>5, <1>6, <1>7, <1>8 DEF Step

\* The lock between two steps belongs to the thread that is about to sleep.
LEMMA LocksKept ==
  ASSUME PCTypes, LockInv, PoolAssumption, NEW t \in Threads, Step(t)
  PROVE  LockInv'
<1>1. /\ Owner \in Threads /\ Runners \subseteq Threads /\ Owner \notin Runners
      /\ NoThread \notin Threads
  BY DEF PoolAssumption, Threads
<1>2. \A s \in Threads \ {t} :
        pc'[s] = pc[s] \/ pc'[s] \in {"look", "woke", "closing", "ctor"}
  BY OthersAreRoused DEF Roused, Woken
<1>3. CASE ~LockStep(t)
  BY <1>1, <1>2, <1>3, OtherSteps DEF LockInv
<1>4. CASE t \in Runners /\ Drowse(t)
  <2>1. lock = NoThread /\ lock' = t
    BY <1>4 DEF Drowse
  <2>2. (\A s \in Runners \ {t} : pc'[s] # "drowsy") /\ pc'[Owner] # "unaware"
    BY <1>1, <1>2, <1>4, <2>1 DEF LockInv
  <2> QED
    BY <1>1, <1>4, <2>1, <2>2 DEF LockInv
<1>5. CASE t \in Runners /\ FallAsleep(t)
  <2>1. lock = t /\ lock' = NoThread /\ pc'[t] = "asleep"
    BY <1>1, <1>5 DEF FallAsleep, LockInv, PCTypes
  <2> QED
    BY <1>1, <1>2, <2>1, <1>5 DEF LockInv
<1>6. CASE t = Owner /\ NotAllRegistered
  BY <1>1, <1>2, <1>6 DEF NotAllRegistered, LockInv
<1>7. CASE t = Owner /\ AwaitRunner
  <2>1. lock = t /\ lock' = NoThread /\ pc'[t] = "unregistered"
    BY <1>1, <1>7 DEF AwaitRunner, LockInv, PCTypes, Goto
  <2> QED
    BY <1>1, <1>2, <2>1, <1>7 DEF LockInv
<1> QED
  BY <1>3, <1>4, <1>5, <1>6, <1>7 DEF LockStep
-----------------------------------------------------------------------------
\* The counters count.
Registered == {r \in Runners : pc[r] # "start"}
CountInv ==
  /\ num_running = Cardinality(Counted)
  /\ num_runners = Cardinality(Registered)

\* The counters are numbers of threads.
LEMMA CountTypes ==
  ASSUME PoolAssumption, CountInv
  PROVE  /\ IsFiniteSet(Runners) /\ N \in Nat
         /\ IsFiniteSet(Counted) /\ num_running \in 0..N
         /\ IsFiniteSet(Registered) /\ num_runners \in 0..N
<1>1. IsFiniteSet(Runners) /\ N \in Nat
  BY FS_CardinalityType DEF PoolAssumption, N
<1>2. ASSUME NEW S, S \subseteq Runners
      PROVE  IsFiniteSet(S) /\ Cardinality(S) \in 0..N
  <2>1. IsFiniteSet(S) /\ Cardinality(S) <= Cardinality(Runners)
    BY <1>1, <1>2, FS_Subset
  <2>2. Cardinality(S) \in Nat
    BY <2>1, FS_CardinalityType
  <2> QED
    BY <1>1, <2>1, <2>2 DEF N
<1>3. Counted \subseteq Runners /\ Registered \subseteq Runners
  BY DEF Counted, Registered
<1> QED
  BY <1>1, <1>2, <1>3 DEF CountInv

\* The steps that change a counter.
CountStep(t) == t \in Runners /\ (Register(t) \/ TakeTask(t) \/ CountDown(t))

\* No other step changes a counter or moves a thread that is counted.
LEMMA UncountedSteps ==
  ASSUME PCTypes, PoolAssumption, NEW t \in Threads, Step(t), ~CountStep(t)
  PROVE  UNCHANGED <<num_running, num_runners>> /\ Counted' = Counted /\ Registered' = Registered
<1>1. Owner \in Users /\ Runners \cap Users = {} /\ Runners \subseteq Threads
  BY DEF PoolAssumption, Threads
<1>2. UNCHANGED <<num_running, num_runners>>
  BY DEF Step, CountStep, Runner, EndRunner, Drowse, FallAsleep, Execute, ReadWaiting, SignalOthers,
         User, RunTask, Pushed, ParallelizeFor, Share, Piece, NextShare, WaitSaved, Wait,
         StopWaiting, WaitForChange, PassOn, PassedOn, Leave,
         Lifetime, Destroy, AllRegistered, NotAllRegistered, AwaitRunner, Announce, NotifyEnding,
         Join, SpuriousWake, pool
<1>3. \A s \in Runners \ {t} :
        pc'[s] = pc[s] \/ (pc[s] = "asleep" /\ pc'[s] = "look")
  BY <1>1, OthersAreRoused DEF Roused, Woken
<1>4. ASSUME t \in Runners
      PROVE  \/ {pc[t], pc'[t]} \subseteq {"task", "done"}
             \/ {pc[t], pc'[t]} \cap {"task", "done", "start"} = {}
  <2>1. ASSUME NEW label, Goto(t, label)
        PROVE  pc'[t] = label
    BY <2>1 DEF PCTypes, Goto
  <2>2. CASE SignalOthers(t)
    <3>1. "look" \in PCs
      BY DEF PCs, RunnerPC
    <3>2. pc'[t] = "look" /\ pc[t] \in {"signal one", "signal all"}
      BY <2>2, <3>1, NotifiedOne, NotifiedAll DEF SignalOthers, Asleep
    <3> QED
      BY <3>2
  <2>3. CASE EndRunner(t) \/ Drowse(t) \/ Execute(t) \/ ReadWaiting(t)
    BY <2>1, <2>3 DEF EndRunner, Drowse, Execute, ReadWaiting
  <2>4. CASE FallAsleep(t)
    BY <1>1, <1>4, <2>4 DEF FallAsleep, PCTypes
  <2>5. CASE SpuriousWake(t)
    BY <1>4, <2>1, <2>5 DEF SpuriousWake, Asleep, Woken
  <2> QED
    BY <1>1, <1>4, <2>2, <2>3, <2>4, <2>5 DEF Step, Runner, CountStep
<1>5. \A s \in Runners : /\ pc[s] \in {"task", "done"} <=> pc'[s] \in {"task", "done"}
                         /\ pc[s] = "start" <=> pc'[s] = "start"
  BY <1>3, <1>4
<1> QED
  BY <1>2, <1>5 DEF Counted, Registered

\* num_running and num_runners keep up with the threads.
LEMMA CountsKept ==
  ASSUME PCTypes, CountInv, PoolAssumption, NEW t \in Threads, Step(t)
  PROVE  CountInv'
<1>1. CASE ~CountStep(t)
  BY <1>1, UncountedSteps DEF CountInv
<1>2. CASE CountStep(t)
  <2>1. t \in Runners /\ Runners \subseteq Threads
    BY <1>2 DEF CountStep, Threads
  <2>2. ASSUME NEW label, Goto(t, label)
        PROVE  pc'[t] = label /\ \A s \in Runners \ {t} : pc'[s] = pc[s]
    BY <2>1, <2>2 DEF PCTypes, Goto
  <2>3. CASE Register(t)
    <3>1. /\ Registered' = Registered \cup {t} /\ t \notin Registered /\ Counted' = Counted
          /\ num_runners' = num_runners + 1 /\ UNCHANGED num_running
      BY <2>1, <2>2, <2>3 DEF Register, Registered, Counted
    <3> QED
      BY <3>1, CountTypes, FS_AddElement DEF CountInv
  <2>4. CASE TakeTask(t)
    <3>1. /\ Counted' = Counted \cup {t} /\ t \notin Counted /\ Registered' = Registered
          /\ num_running' = num_running + 1 /\ UNCHANGED num_runners
      BY <2>1, <2>2, <2>4 DEF TakeTask, Registered, Counted
    <3> QED
      BY <3>1, CountTypes, FS_AddElement DEF CountInv
  <2>5. CASE CountDown(t)
    <3>1. /\ Counted' = Counted \ {t} /\ t \in Counted /\ Registered' = Registered
          /\ num_running' = num_running - 1 /\ UNCHANGED num_runners
      BY <2>1, <2>2, <2>5 DEF CountDown, Registered, Counted
    <3> QED
      BY <3>1, CountTypes, FS_RemoveElement DEF CountInv
  <2> QED
    BY <1>2, <2>3, <2>4, <2>5 DEF CountStep
<1> QED
  BY <1>1, <1>2

\* A thread that falls asleep leaves no task behind: if all threads were at
\* work, it would be one of them.
LEMMA DrowseEmpty ==
  ASSUME PoolAssumption, CountInv, NEW r \in Runners, Drowse(r)
  PROVE  tasks = << >>
<1>1. r \notin Counted /\ Counted \subseteq Runners
  BY DEF Drowse, Counted
<1>2. Cardinality(Counted) < N
  <2>1. Counted # Runners
    BY <1>1
  <2>2. Cardinality(Counted) <= N /\ Cardinality(Counted) # N
    BY <1>1, <2>1, CountTypes, FS_Subset DEF N
  <2> QED
    BY <2>2, CountTypes DEF CountInv
<1> QED
  BY <1>2, CountTypes DEF Drowse, CountInv
-----------------------------------------------------------------------------
\* The life of the pool: it ends when its users are done, and a thread ends or
\* falls asleep when the queue is empty.
Ending == {"closing", "announce", "notify", "join", "destroyed"}
LifeInv ==
  /\ pc[Owner] \in Ending => ending
  /\ ending => /\ pc[Owner] \in Ending \cup {"unaware", "unregistered"}
               /\ \A u \in Users \ {Owner} : pc[u] = "left"
  /\ \A r \in Runners : pc[r] = "ended" => ending /\ tasks = << >>
  /\ \A r \in Runners : pc[r] = "drowsy" => tasks = << >>
  /\ pc[Owner] = "destroyed" => \A r \in Runners : pc[r] = "ended"

\* A user in a call does not end the pool, and adds a task to the queue only on
\* the way to its notification.
LEMMA UserSteps ==
  ASSUME PCTypes, PoolAssumption, NEW u \in Users, User(u)
  PROVE  /\ pc[u] \in CallPC
         /\ pc'[u] \in CallPC \/ (u # Owner /\ pc'[u] = "left")
         /\ UNCHANGED ending
         /\ UNCHANGED tasks \/ (lock = NoThread /\ pc'[u] = "pushed")
         /\ \/ pc[u] \notin {"pushed", "woke", "pass on"}
            \/ Pushed(u) \/ PassedOn(u) \/ PassOn(u) \/ StopWaiting(u)
<1>1. ASSUME NEW label, Goto(u, label)
      PROVE  pc'[u] = label
  BY <1>1 DEF PCTypes, Goto, Threads
<1> QED
  <2>1. CASE Pushed(u) \/ PassedOn(u)
    <3>1. PICK label \in CallPC : u \notin Asleep /\ NotifyOne(u, label)
      BY <2>1 DEF Pushed, PassedOn, Asleep, CallPC
    <3>2. pc'[u] = label
      BY <3>1, NotifiedOne DEF PCs, OwnerPC, Threads
    <3> QED
      BY <2>1, <3>1, <3>2 DEF Pushed, PassedOn, CallPC, pool
  <2>2. CASE RunTask(u) \/ \E limit \in Limits : ParallelizeFor(u, limit)
    BY <2>2, <1>1 DEF RunTask, ParallelizeFor, MayCall, Push, CallPC, pool
  <2>3. CASE Share(u) \/ NextShare(u) \/ WaitSaved(u)
    BY <2>3, <1>1 DEF Share, NextShare, WaitSaved, CallPC, pool
  <2>4. CASE Piece(u)
    <3>1. /\ pc[u] = "inner" /\ UNCHANGED ending
          /\ \/ UNCHANGED tasks /\ pc'[u] = "inner"
             \/ lock = NoThread /\ pc'[u] = "pushed"
      BY <1>1, <2>4 DEF Piece, Push, pool
    <3> QED
      BY <3>1, <2>4 DEF CallPC
  <2>5. CASE Wait(u) \/ StopWaiting(u) \/ WaitForChange(u) \/ PassOn(u) \/ Leave(u)
    BY <2>5, <1>1 DEF Wait, StopWaiting, WaitForChange, PassOn, Leave, MayCall, CallPC, pool
  <2> QED
    BY <2>1, <2>2, <2>3, <2>4, <2>5 DEF User

\* A thread of the pool ends or lies down only when the queue is empty.
LEMMA RunnerSteps ==
  ASSUME PCTypes, PoolAssumption, CountInv, LifeInv, NEW r \in Runners, Runner(r)
  PROVE  /\ pc[r] # "ended"
         /\ UNCHANGED ending
         /\ UNCHANGED tasks \/ (tasks # << >> /\ pc'[r] = "task")
         /\ pc'[r] = "ended" => ending /\ tasks = << >>
         /\ pc'[r] \in {"drowsy", "asleep"} => tasks = << >>
<1>1. ASSUME NEW label, Goto(r, label)
      PROVE  pc'[r] = label
  BY <1>1 DEF PCTypes, Goto, Threads
<1>2. CASE SignalOthers(r)
  <2>1. r \notin Asleep /\ (NotifyOne(r, "look") \/ NotifyAll(r, "look"))
    BY <1>2 DEF SignalOthers, Asleep
  <2>2. pc'[r] = "look"
    BY <2>1, NotifiedOne, NotifiedAll DEF PCs, RunnerPC, Threads
  <2> QED
    BY <1>2, <2>2 DEF SignalOthers, pool
<1>3. CASE \/ Register(r) \/ EndRunner(r) \/ TakeTask(r) \/ Execute(r)
           \/ CountDown(r) \/ ReadWaiting(r)
  BY <1>1, <1>3 DEF Register, EndRunner, TakeTask, Execute, CountDown, ReadWaiting, pool
<1>4. CASE Drowse(r)
  BY <1>1, <1>4, DrowseEmpty DEF Drowse, pool
<1>5. CASE FallAsleep(r)
  <2>1. pc[r] = "drowsy" /\ UNCHANGED <<tasks, ending>> /\ pc'[r] = "asleep"
    <3>1. r \in Threads /\ r # Owner
      BY DEF Threads, PoolAssumption
    <3> QED
      BY <1>5, <3>1 DEF FallAsleep, PCTypes, pool
  <2> QED
    BY <2>1 DEF LifeInv
<1> QED
  BY <1>2, <1>3, <1>4, <1>5 DEF Runner

\* The order in which the pool ends is kept.
LEMMA LifeKept ==
  ASSUME PCTypes, PoolAssumption, LockInv, CountInv, LifeInv, NEW t \in Threads, Step(t)
  PROVE  LifeInv'
<1>1. /\ Owner \in Users /\ Runners \cap Users = {} /\ NoThread \notin Threads
      /\ Runners \subseteq Threads /\ Users \subseteq Threads
  BY DEF PoolAssumption, Threads
<1>2. \A s \in Threads \ {t} : pc'[s] = pc[s] \/ Roused(s)
  BY OthersAreRoused
<1>3. \A r \in Runners \ {t} : pc'[r] = pc[r] \/ (pc[r] = "asleep" /\ pc'[r] = "look")
  BY <1>1, <1>2 DEF Roused, Woken
<1>4. \A u \in Users \ {t, Owner} : pc'[u] = pc[u] \/ (pc[u] = "asleep" /\ pc'[u] = "woke")
  BY <1>1, <1>2 DEF Roused, Woken
<1>5. Owner # t => \/ pc'[Owner] = pc[Owner]
                   \/ pc[Owner] = "asleep" /\ pc'[Owner] = "woke"
                   \/ /\ pc[Owner] = "unregistered"
                      /\ pc'[Owner] = IF ending THEN "closing" ELSE "ctor"
  BY <1>1, <1>2 DEF Roused, Woken
<1>6. CASE t \in Runners /\ Runner(t)
  BY <1>1, <1>3, <1>4, <1>5, <1>6, RunnerSteps DEF LifeInv, Ending
<1>7. CASE t \in Users /\ User(t)
  <2>1. ~ending
    BY <1>1, <1>7, UserSteps DEF LifeInv, Ending, CallPC
  <2>2. ~ending' /\ pc'[Owner] \notin Ending
    BY <1>1, <1>5, <1>7, <2>1, UserSteps DEF LifeInv, Ending, CallPC
  <2>3. \A r \in Runners : pc'[r] # "ended" /\ (pc'[r] = "drowsy" => tasks' = << >>)
    BY <1>1, <1>3, <1>7, <2>1, UserSteps DEF LifeInv, LockInv
  <2> QED
    BY <2>2, <2>3 DEF LifeInv, Ending
<1>8. CASE t = Owner /\ Lifetime
  <2>1. UNCHANGED tasks
    BY <1>8 DEF Lifetime, Destroy, AllRegistered, NotAllRegistered, AwaitRunner, Announce,
                NotifyEnding, Join
  <2>2. ASSUME NEW label, Goto(Owner, label)
        PROVE  pc'[Owner] = label
    BY <1>1, <2>2 DEF PCTypes, Goto
  <2>3. CASE Destroy
    <3>1. ending' /\ pc'[Owner] = "closing" /\ (\A u \in Users \ {Owner} : pc[u] = "left")
      BY <2>2, <2>3 DEF Destroy
    <3> QED
      BY <1>1, <1>3, <1>4, <1>8, <2>1, <3>1 DEF LifeInv, Ending
  <2>4. CASE NotifyEnding
    <3>1. pc[Owner] = "notify" /\ pc'[Owner] = "join" /\ UNCHANGED ending
      BY <1>1, <2>4, NotifiedAll DEF NotifyEnding, PCs, OwnerPC, pool
    <3> QED
      BY <1>1, <1>3, <1>4, <1>8, <2>1, <3>1 DEF LifeInv, Ending
  <2>5. CASE AllRegistered \/ NotAllRegistered \/ AwaitRunner \/ Announce
    <3>1. /\ UNCHANGED ending
          /\ \/ pc[Owner] = "ctor" /\ pc'[Owner] \in {"idle", "unaware"}
             \/ pc[Owner] = "closing" /\ pc'[Owner] \in {"announce", "unaware"}
             \/ pc[Owner] = "unaware" /\ pc'[Owner] = "unregistered"
             \/ pc[Owner] = "announce" /\ pc'[Owner] = "notify"
      BY <2>2, <2>5 DEF AllRegistered, NotAllRegistered, AwaitRunner, Announce, pool
    <3> QED
      BY <1>1, <1>3, <1>4, <1>8, <2>1, <3>1 DEF LifeInv, Ending
  <2>6. CASE Join
    <3>1. /\ pc[Owner] = "join" /\ pc'[Owner] = "destroyed" /\ UNCHANGED ending
          /\ \A r \in Runners : pc[r] = "ended"
      BY <2>2, <2>6 DEF Join, pool
    <3> QED
      BY <1>1, <1>3, <1>4, <1>8, <2>1, <3>1 DEF LifeInv, Ending
  <2> QED
    BY <1>8, <2>3, <2>4, <2>5, <2>6 DEF Lifetime
<1>9. CASE SpuriousWake(t)
  <2>1. /\ UNCHANGED <<ending, tasks>>
        /\ \/ pc[t] = "asleep" /\ pc'[t] = Woken(t)
           \/ pc[t] = "unregistered" /\ pc'[t] = IF ending THEN "closing" ELSE "ctor"
    BY <1>9 DEF SpuriousWake, Asleep, PCTypes, Goto, pool
  <2>2. t # Owner => pc[t] # "unregistered"
    BY <1>1 DEF PCTypes, RunnerPC, CallPC, Threads
  <2> QED
    BY <1>1, <1>3, <1>4, <1>5, <2>1, <2>2 DEF LifeInv, Ending, Woken
<1> QED
  BY <1>6, <1>7, <1>8, <1>9 DEF Step
-----------------------------------------------------------------------------
\* With a thread to wake, no wake-up is lost.

\* A notification finds a sleeper, or the threads of the pool are awake.
LEMMA NotifiedSomeone ==
  ASSUME PCTypes, PoolAssumption, LifeInv, Runners # {}, tasks # << >>,
         NEW u \in Users, NEW label \in PCs, u \notin Asleep, NotifyOne(u, label)
  PROVE  \/ \E r \in Runners : pc'[r] \notin {"asleep", "drowsy", "ended"}
         \/ \E v \in Users : pc'[v] = "woke"
<1>1. u \in Threads /\ Asleep \subseteq Threads
  BY DEF Threads, Asleep
<1>2. CASE Asleep # {}
  <2>1. PICK s \in Asleep : pc'[s] = Woken(s)
    BY <1>1, <1>2, NotifiedOne
  <2> QED
    BY <1>1, <2>1 DEF Woken, Threads
<1>3. CASE Asleep = {}
  <2>1. PICK r \in Runners : TRUE
    OBVIOUS
  <2>2. r \in Threads \ {u} /\ pc[r] # "asleep"
    BY <1>3, <2>1 DEF Asleep, Threads, PoolAssumption
  <2>3. pc'[r] = pc[r]
    BY <1>1, <2>2, NotifiedOne
  <2>4. pc[r] \notin {"drowsy", "ended"}
    BY DEF LifeInv
  <2> QED
    BY <2>2, <2>3, <2>4
<1> QED
  BY <1>2, <1>3

\* Every step leaves somebody awake for the tasks in the queue.
LEMMA WakeKept ==
  ASSUME PCTypes, PoolAssumption, CountInv, LifeInv, NoLostWakeup, Runners # {},
         NEW t \in Threads, Step(t)
  PROVE  NoLostWakeup'
<1>1. /\ Owner \in Users /\ Runners \cap Users = {}
      /\ Runners \subseteq Threads /\ Users \subseteq Threads
  BY DEF PoolAssumption, Threads
<1>2. \A s \in Threads \ {t} : pc'[s] = pc[s] \/ Roused(s)
  BY OthersAreRoused
<1>3. \A r \in Runners \ {t} : pc'[r] = pc[r] \/ (pc[r] = "asleep" /\ pc'[r] = "look")
  BY <1>1, <1>2 DEF Roused, Woken
<1>4. \A u \in Users \ {t} : pc[u] \in {"pushed", "woke", "pass on"} => pc'[u] = pc[u]
  BY <1>1, <1>2 DEF Roused
<1>5. SUFFICES ASSUME tasks' # << >>
      PROVE  NoLostWakeup'
  BY DEF NoLostWakeup
<1>6. CASE t \in Runners /\ Runner(t)
  <2>1. pc'[t] \notin {"asleep", "drowsy", "ended"} \/ (UNCHANGED tasks /\ tasks = << >>)
    BY <1>6, RunnerSteps
  <2> QED
    BY <1>5, <1>6, <2>1 DEF NoLostWakeup
<1>7. CASE t \in Users /\ User(t)
  <2>1. CASE UNCHANGED tasks /\ (Pushed(t) \/ PassedOn(t))
    <3>1. PICK label \in PCs : t \notin Asleep /\ NotifyOne(t, label)
      BY <2>1 DEF Pushed, PassedOn, Asleep, PCs, OwnerPC, CallPC
    <3> QED
      BY <1>5, <1>7, <2>1, <3>1, NotifiedSomeone DEF NoLostWakeup
  <2>2. CASE pc'[t] = "pushed"
    BY <1>7, <2>2 DEF NoLostWakeup
  <2>3. CASE UNCHANGED tasks /\ PassOn(t)
    <3>1. pc'[t] = "pass on"
      BY <1>1, <1>7, <2>3 DEF PassOn, Goto, PCTypes
    <3> QED
      BY <1>7, <3>1 DEF NoLostWakeup
  <2>4. CASE UNCHANGED tasks /\ StopWaiting(t)
    BY <1>5, <2>4 DEF StopWaiting
  <2>5. CASE UNCHANGED tasks /\ pc[t] \notin {"pushed", "woke", "pass on"}
    BY <1>1, <1>3, <1>4, <1>5, <1>7, <2>5 DEF NoLostWakeup
  <2> QED
    BY <1>7, <2>1, <2>2, <2>3, <2>4, <2>5, UserSteps
<1>8. CASE t = Owner /\ Lifetime
  <2>1. UNCHANGED tasks /\ pc[t] \notin {"pushed", "woke", "pass on"}
    BY <1>8 DEF Lifetime, Destroy, AllRegistered, NotAllRegistered, AwaitRunner, Announce,
                NotifyEnding, Join
  <2> QED
    BY <1>1, <1>3, <1>4, <1>5, <1>8, <2>1 DEF NoLostWakeup
<1>9. CASE SpuriousWake(t)
  <2>1. /\ UNCHANGED tasks
        /\ \/ pc[t] = "asleep" /\ pc'[t] = Woken(t)
           \/ pc[t] = "unregistered" /\ pc'[t] = IF ending THEN "closing" ELSE "ctor"
    BY <1>9 DEF SpuriousWake, Asleep, PCTypes, Goto
  <2>2. t \in Runners => pc[t] # "unregistered"
    BY <1>1 DEF PCTypes, RunnerPC, Threads
  <2> QED
    BY <1>1, <1>3, <1>4, <1>5, <2>1, <2>2 DEF NoLostWakeup, Woken
<1> QED
  BY <1>6, <1>7, <1>8, <1>9 DEF Step
-----------------------------------------------------------------------------
\* The cuts of a loop: b * rest \div n ascends from 0 to rest.

\* Multiplication keeps the order.
LEMMA Product ==
  ASSUME NEW n \in Nat, NEW x \in Nat, NEW y \in Nat, x <= y
  PROVE  n * x \in Nat /\ n * x <= n * y
OBVIOUS

\* What the integer division of C++ yields for naturals.
LEMMA Quotient ==
  ASSUME NEW n \in Nat \ {0}, NEW x \in Nat
  PROVE  x \div n \in Nat /\ n * (x \div n) <= x /\ x < n * (x \div n) + n
<1>1. x \div n \in Nat
  OBVIOUS
<1>2. n * (x \div n) <= x /\ x < n * (x \div n) + n
  OBVIOUS
<1> QED
  BY <1>1, <1>2

\* The quotient of a larger number is no smaller.
LEMMA DivisionAscends ==
  ASSUME NEW n \in Nat \ {0}, NEW x \in Nat, NEW y \in Nat, x <= y
  PROVE  x \div n \in Nat /\ x \div n <= y \div n
<1>1. ASSUME NEW p \in Nat, NEW q \in Nat, n * p <= x, y < n * q + n, q < p
      PROVE  FALSE
  <2>1. n * (q + 1) <= n * p /\ n * p \in Nat /\ n * q \in Nat
    BY <1>1, Product
  <2>2. n * (q + 1) = n * q + n
    BY <1>1
  <2> QED
    BY <1>1, <2>1, <2>2
<1> QED
  BY <1>1, Quotient

\* The division undoes the product.
LEMMA ExactDivision ==
  ASSUME NEW n \in Nat \ {0}, NEW x \in Nat
  PROVE  (n * x) \div n = x
<1>1. ASSUME NEW q \in Nat, n * q <= n * x, n * x < n * q + n
      PROVE  q = x
  <2>1. n * q \in Nat /\ n * x \in Nat
    BY <1>1, Product
  <2>2. CASE q < x
    <3>1. n * (q + 1) <= n * x /\ n * (q + 1) = n * q + n
      BY <1>1, <2>2, Product
    <3> QED
      BY <1>1, <2>1, <3>1
  <2>3. CASE x < q
    <3>1. n * (x + 1) <= n * q /\ n * (x + 1) = n * x + n
      BY <1>1, <2>3, Product
    <3> QED
      BY <1>1, <2>1, <3>1
  <2> QED
    BY <1>1, <2>2, <2>3
<1>2. n * x \in Nat
  BY Product
<1> QED
  BY <1>1, <1>2, Quotient

\* The cuts lie between 0 and the rest, ascend, and reach both ends.
LEMMA Cuts ==
  ASSUME NEW n \in Nat \ {0}, NEW rest \in Nat, NEW b \in 0..n
  PROVE  /\ (b * rest) \div n \in 0..rest
         /\ b < n => (b * rest) \div n <= ((b + 1) * rest) \div n
         /\ (0 * rest) \div n = 0
         /\ (n * rest) \div n = rest
<1>1. b * rest \in Nat /\ (b + 1) * rest \in Nat /\ n * rest \in Nat
      /\ b * rest <= (b + 1) * rest /\ b * rest <= n * rest
  <2>1. /\ rest * b \in Nat /\ rest * (b + 1) \in Nat /\ rest * n \in Nat
        /\ rest * b <= rest * (b + 1) /\ rest * b <= rest * n
    BY Product
  <2>2. b * rest = rest * b /\ (b + 1) * rest = rest * (b + 1) /\ n * rest = rest * n
    OBVIOUS
  <2> QED
    BY <2>1, <2>2
<1>2. (n * rest) \div n = rest
  BY ExactDivision
<1>3. (0 * rest) \div n = 0
  OBVIOUS
<1> QED
  BY <1>1, <1>2, <1>3, DivisionAscends
-----------------------------------------------------------------------------
\* The loop of a user, and what it has cut off so far.
LoopTypes ==
  /\ loop \in [Users -> [limit : 0..MaxLimit, ind : Nat, cap : 0..N, b : Nat]]
  /\ saved \in [Users -> SUBSET Tasks]
  /\ calls \in [Users -> Nat]

InLoop(u) == pc[u] \in {"outer", "inner", "pushed"} /\ loop[u].limit # 0

Position(u) == IF pc[u] = "outer" THEN loop[u].ind ELSE Begin(u, loop[u].b)

Covers(s, k) == s.begin <= k /\ k < s.end

LoopInv(u) ==
  /\ loop[u].b <= loop[u].cap /\ loop[u].ind <= loop[u].limit
  /\ loop[u].limit # 0 => Limits # {}
  /\ pc[u] \in {"outer", "inner"} => loop[u].limit # 0
  /\ ~InLoop(u) => loop[u] = NoLoop /\ saved[u] = {}
  /\ calls[u] <= MaxCalls[u]

SavedInv(u) == InLoop(u) =>
  /\ \A s \in saved[u] : s.user = u /\ s.call = calls[u] /\ s.begin < s.end /\ s.end <= Position(u)
  /\ \A k \in 0..Position(u) - 1 : \E s \in saved[u] :
       Covers(s, k) /\ \A other \in saved[u] : Covers(other, k) => other = s

LoopsInv == LoopTypes /\ \A u \in Users : LoopInv(u) /\ SavedInv(u)

\* A task made of values in their bounds is one of Tasks.
LEMMA TaskType ==
  ASSUME PoolAssumption, NEW u \in Users, NEW call \in 0..MaxCalls[u],
         NEW begin \in 0..MaxLimit, NEW end \in 0..MaxLimit
  PROVE  Task(u, call, begin, end) \in Tasks
BY DEF Task, Tasks

\* The members of Tasks have these values.
LEMMA TasksAreTasks ==
  ASSUME PoolAssumption
  PROVE  /\ Tasks \subseteq AnyTask
         /\ \A s \in Tasks : /\ s.user \in Users /\ s.call \in 0..MaxCalls[s.user]
                             /\ s.begin \in 0..MaxLimit /\ s.end \in 0..MaxLimit
BY DEF PoolAssumption, Tasks, AnyTask

\* Nobody touches the loop of another user.
LEMMA OthersLoops ==
  ASSUME PCTypes, LoopTypes, PoolAssumption, NEW t \in Threads, Step(t), NEW u \in Users, u # t
  PROVE  /\ loop'[u] = loop[u] /\ saved'[u] = saved[u] /\ calls'[u] = calls[u]
         /\ pc'[u] = pc[u] \/ {pc[u], pc'[u]} \cap {"outer", "inner", "pushed"} = {}
<1>1. /\ Owner \in Users /\ Runners \cap Users = {}
      /\ Runners \subseteq Threads /\ Users \subseteq Threads
  BY DEF PoolAssumption, Threads
<1>2. loop'[u] = loop[u] /\ saved'[u] = saved[u] /\ calls'[u] = calls[u]
  <2>1. CASE t \in Runners /\ Runner(t)
    BY <2>1 DEF Runner, Register, EndRunner, TakeTask, Drowse, FallAsleep, Execute, CountDown,
                ReadWaiting, SignalOthers, users
  <2>2. CASE t \in Users /\ User(t)
    <3>1. CASE RunTask(t) \/ \E limit \in Limits : ParallelizeFor(t, limit)
      BY <3>1 DEF RunTask, ParallelizeFor, Call, LoopTypes, users
    <3>2. CASE Share(t) \/ NextShare(t) \/ WaitSaved(t)
      BY <3>2 DEF Share, NextShare, WaitSaved, LoopTypes, users
    <3>3. CASE Piece(t)
      BY <3>3 DEF Piece, LoopTypes, users
    <3>4. CASE Wait(t)
      BY <3>4 DEF Wait, Call, LoopTypes
    <3>5. CASE \/ Pushed(t) \/ StopWaiting(t) \/ WaitForChange(t) \/ PassOn(t) \/ PassedOn(t)
               \/ Leave(t)
      BY <3>5 DEF Pushed, StopWaiting, WaitForChange, PassOn, PassedOn, Leave, users
    <3> QED
      BY <2>2, <3>1, <3>2, <3>3, <3>4, <3>5 DEF User
  <2>3. CASE t = Owner /\ Lifetime
    BY <2>3 DEF Lifetime, Destroy, AllRegistered, NotAllRegistered, AwaitRunner, Announce,
                NotifyEnding, Join, users
  <2>4. CASE SpuriousWake(t)
    BY <2>4 DEF SpuriousWake, users
  <2> QED
    BY <2>1, <2>2, <2>3, <2>4 DEF Step
<1>3. pc'[u] = pc[u] \/ {pc[u], pc'[u]} \cap {"outer", "inner", "pushed"} = {}
  BY <1>1, OthersAreRoused DEF Roused, Woken
<1> QED
  BY <1>2, <1>3

\* So every step keeps the invariants of the others' loops.
LEMMA OthersLoopsKept ==
  ASSUME PCTypes, LoopsInv, PoolAssumption, NEW t \in Threads, Step(t), NEW u \in Users, u # t
  PROVE  (LoopInv(u) /\ SavedInv(u))'
<1>1. /\ loop'[u] = loop[u] /\ saved'[u] = saved[u] /\ calls'[u] = calls[u]
      /\ pc'[u] = pc[u] \/ {pc[u], pc'[u]} \cap {"outer", "inner", "pushed"} = {}
  BY OthersLoops DEF LoopsInv
<1>2. InLoop(u)' = InLoop(u) /\ (InLoop(u) => Position(u)' = Position(u))
  BY <1>1 DEF InLoop, Position, Begin, Remain
<1>3. LoopInv(u)'
  BY <1>1, <1>2 DEF LoopsInv, LoopInv
<1>4. SavedInv(u)'
  <2>1. SUFFICES ASSUME InLoop(u)'
        PROVE  SavedInv(u)'
    BY DEF SavedInv
  <2>2. InLoop(u) /\ Position(u)' = Position(u)
    BY <1>2, <2>1
  <2> QED
    BY <1>1, <2>2 DEF LoopsInv, SavedInv
<1> QED
  BY <1>3, <1>4

\* Where the pieces of a share begin: within the limit, in order, the first where
\* the loop stands.
LEMMA Begins ==
  ASSUME PoolAssumption, CountInv, LoopTypes, NEW u \in Users, LoopInv(u), loop[u].limit # 0
  PROVE  /\ N \in Nat \ {0, 1}
         /\ loop[u].limit \in 1..MaxLimit /\ loop[u].ind \in 0..loop[u].limit
         /\ loop[u].cap \in 0..N /\ loop[u].b \in 0..loop[u].cap
         /\ Remain(u) \in Nat
         /\ Begin(u, 0) = loop[u].ind
         /\ \A b \in 0..N : Begin(u, b) \in 0..loop[u].limit
         /\ \A b \in 0..N - 1 : Begin(u, b) <= Begin(u, b + 1)
<1>1. N \in Nat \ {0, 1}
  <2>1. N \in Nat
    BY CountTypes
  <2> QED
    BY <2>1 DEF LoopInv, PoolAssumption
<1>2. loop[u] \in [limit : 0..MaxLimit, ind : Nat, cap : 0..N, b : Nat] /\ MaxLimit \in Nat
  BY DEF LoopTypes, PoolAssumption
<1>3. /\ loop[u].limit \in 1..MaxLimit /\ loop[u].ind \in 0..loop[u].limit
      /\ loop[u].cap \in 0..N /\ loop[u].b \in 0..loop[u].cap
  BY <1>1, <1>2 DEF LoopInv
<1>4. Remain(u) \in Nat /\ loop[u].ind + Remain(u) = loop[u].limit
  BY <1>3 DEF Remain
<1>5. ASSUME NEW b \in 0..N
      PROVE  Begin(u, b) \in 0..loop[u].limit
  <2>1. (b * Remain(u)) \div N \in 0..Remain(u)
    BY <1>1, <1>4, <1>5, Cuts
  <2> QED
    BY <1>3, <1>4, <2>1 DEF Begin
<1>6. ASSUME NEW b \in 0..N - 1
      PROVE  Begin(u, b) <= Begin(u, b + 1)
  <2>1. b \in 0..N /\ b + 1 \in 0..N /\ b < N
    BY <1>1
  <2>2. (b * Remain(u)) \div N <= ((b + 1) * Remain(u)) \div N
    BY <1>1, <1>4, <2>1, Cuts
  <2>3. (b * Remain(u)) \div N \in Nat /\ ((b + 1) * Remain(u)) \div N \in Nat
    BY <1>1, <1>4, <2>1, Cuts
  <2> QED
    BY <1>3, <2>2, <2>3 DEF Begin
<1>7. Begin(u, 0) = loop[u].ind
  <2>1. (0 * Remain(u)) \div N = 0
    BY <1>1, <1>4, Cuts
  <2> QED
    BY <1>3, <2>1 DEF Begin
<1> QED
  BY <1>1, <1>3, <1>4, <1>5, <1>6, <1>7

\* Out of its loops a user may do what it likes.
LEMMA NotInLoopKept ==
  ASSUME LoopsInv, PoolAssumption, NEW u \in Users,
         {pc[u], pc'[u]} \cap {"outer", "inner"} = {}, ~InLoop(u),
         loop' = loop, saved' = saved, calls' \in [Users -> Nat], calls'[u] <= MaxCalls[u]
  PROVE  LoopTypes' /\ LoopInv(u)' /\ SavedInv(u)'
<1>1. loop[u] = NoLoop /\ saved[u] = {} /\ loop'[u] = loop[u] /\ saved'[u] = saved[u]
  BY DEF LoopsInv, LoopInv
<1>2. ~InLoop(u)'
  BY <1>1 DEF InLoop, NoLoop
<1> QED
  BY <1>1, <1>2 DEF LoopsInv, LoopTypes, LoopInv, SavedInv, NoLoop

\* The inner loop: a piece covers what lies between the old position and the new
\* one, and is left out only when that is nothing.
LEMMA PieceKept ==
  ASSUME PCTypes, CountInv, LoopsInv, PoolAssumption, NEW u \in Users, Piece(u)
  PROVE  LoopTypes' /\ LoopInv(u)' /\ SavedInv(u)'
<1> DEFINE begin == Begin(u, loop[u].b)
           end   == Begin(u, loop[u].b + 1)
           piece == Task(u, calls[u], begin, end)
<1>1. /\ pc[u] = "inner" /\ loop[u].b < loop[u].cap
      /\ loop' = [loop EXCEPT ![u].b = loop[u].b + 1] /\ UNCHANGED calls
      /\ \/ end > begin /\ saved' = [saved EXCEPT ![u] = @ \cup {piece}] /\ pc'[u] = "pushed"
         \/ ~(end > begin) /\ UNCHANGED saved /\ pc'[u] = "inner"
  BY DEF Piece, Task, PCTypes, Goto, Threads
<1>2. /\ LoopTypes /\ LoopInv(u) /\ SavedInv(u) /\ InLoop(u) /\ loop[u].limit # 0
      /\ Position(u) = begin
  BY <1>1 DEF LoopsInv, LoopInv, InLoop, Position
<1>3. /\ N \in Nat \ {0, 1} /\ loop[u].cap \in 0..N /\ loop[u].b \in 0..loop[u].cap
      /\ MaxLimit \in Nat /\ loop[u].limit \in 1..MaxLimit
  BY <1>2, Begins DEF PoolAssumption
<1>4. begin \in 0..loop[u].limit /\ end \in 0..loop[u].limit /\ begin <= end
  <2>1. loop[u].b \in 0..N - 1 /\ loop[u].b \in 0..N /\ loop[u].b + 1 \in 0..N
    BY <1>1, <1>3
  <2> QED
    BY <1>2, <2>1, Begins
<1>5. loop'[u] = [loop[u] EXCEPT !.b = loop[u].b + 1]
  BY <1>1, <1>2 DEF LoopTypes
<1>6. InLoop(u)' /\ Position(u)' = end
  BY <1>1, <1>2, <1>5 DEF InLoop, Position, Begin, Remain, LoopTypes
<1>7. piece \in Tasks
  <2>1. calls[u] \in 0..MaxCalls[u]
    BY <1>2 DEF LoopTypes, LoopInv, PoolAssumption
  <2>2. begin \in 0..MaxLimit /\ end \in 0..MaxLimit
    BY <1>3, <1>4
  <2> HIDE DEF begin, end
  <2> QED
    BY <2>1, <2>2, TaskType
<1> HIDE DEF begin, end, piece
<1>8. LoopTypes'
  <2>1. loop' \in [Users -> [limit : 0..MaxLimit, ind : Nat, cap : 0..N, b : Nat]]
    BY <1>1, <1>2, <1>3 DEF LoopTypes
  <2>2. saved' \in [Users -> SUBSET Tasks]
    BY <1>1, <1>2, <1>7 DEF LoopTypes
  <2> QED
    BY <1>1, <1>2, <2>1, <2>2 DEF LoopTypes
<1>9. LoopInv(u)'
  BY <1>1, <1>2, <1>3, <1>5, <1>6 DEF LoopInv, LoopTypes
<1>10. SavedInv(u)'
  <2>1. CASE end > begin /\ saved'[u] = saved[u] \cup {piece}
    <3>1. piece.user = u /\ piece.call = calls[u] /\ piece.begin = begin /\ piece.end = end
      BY DEF piece, Task
    <3>2. \A s \in saved'[u] :
            s.user = u /\ s.call = calls[u] /\ s.begin < s.end /\ s.end <= end
      <4>1. \A s \in saved[u] : s.end \in Nat
        BY <1>2, TasksAreTasks DEF LoopTypes
      <4> QED
        BY <1>2, <1>4, <2>1, <3>1, <4>1 DEF SavedInv
    <3>3. ASSUME NEW k \in 0..end - 1
          PROVE  \E s \in saved'[u] :
                   Covers(s, k) /\ \A other \in saved'[u] : Covers(other, k) => other = s
      <4>1. \A s \in saved[u] : s.end \in Nat /\ s.end <= begin
        BY <1>2, TasksAreTasks DEF LoopTypes, SavedInv
      <4>2. CASE k < begin
        <5>1. PICK s \in saved[u] :
                Covers(s, k) /\ \A other \in saved[u] : Covers(other, k) => other = s
          BY <1>2, <1>4, <4>2 DEF SavedInv
        <5>2. ~Covers(piece, k)
          BY <1>4, <3>1, <4>2 DEF Covers
        <5> QED
          BY <2>1, <5>1, <5>2
      <4>3. CASE begin <= k
        <5>1. Covers(piece, k)
          BY <1>4, <3>1, <4>3 DEF Covers
        <5>2. \A s \in saved[u] : ~Covers(s, k)
          BY <1>4, <4>1, <4>3 DEF Covers
        <5> QED
          BY <2>1, <5>1, <5>2
      <4> QED
        BY <1>4, <4>2, <4>3
    <3> QED
      BY <1>1, <1>6, <3>2, <3>3 DEF SavedInv
  <2>2. CASE end = begin /\ saved'[u] = saved[u]
    BY <1>1, <1>2, <1>6, <2>2 DEF SavedInv
  <2>3. u \in DOMAIN saved
    BY <1>2 DEF LoopTypes
  <2>4. CASE end > begin
    BY <1>1, <2>1, <2>3, <2>4
  <2>5. CASE ~(end > begin)
    <3>1. end = begin
      BY <1>4, <2>5
    <3>2. saved' = saved
      BY <1>1, <2>5
    <3> QED
      BY <2>2, <3>1, <3>2
  <2> QED
    BY <2>4, <2>5
<1> QED
  BY <1>8, <1>9, <1>10

\* The steps of a user keep the invariants of its own loop.
LEMMA OwnLoopKept ==
  ASSUME PCTypes, CountInv, LoopsInv, PoolAssumption, NEW u \in Users, User(u)
  PROVE  LoopTypes' /\ LoopInv(u)' /\ SavedInv(u)'
<1>1. ASSUME NEW label, Goto(u, label)
      PROVE  pc'[u] = label
  BY <1>1 DEF PCTypes, Goto, Threads
<1>2. LoopTypes /\ LoopInv(u) /\ SavedInv(u)
  BY DEF LoopsInv
<1>3. MaxLimit \in Nat /\ MaxCalls[u] \in Nat /\ Limits \subseteq 1..MaxLimit /\ N \in Nat
  BY CountTypes DEF PoolAssumption
<1>4. CASE RunTask(u) \/ Wait(u)
  <2>1. /\ pc[u] = "idle" /\ pc'[u] \in {"pushed", "wait"} /\ UNCHANGED <<loop, saved>>
        /\ calls[u] < MaxCalls[u] /\ calls' = [calls EXCEPT ![u] = @ + 1]
    BY <1>1, <1>4 DEF RunTask, Wait, MayCall, Call
  <2>2. ~InLoop(u) /\ calls' \in [Users -> Nat] /\ calls'[u] <= MaxCalls[u]
    BY <1>2, <1>3, <2>1 DEF InLoop, LoopTypes
  <2> QED
    BY <2>1, <2>2, NotInLoopKept
<1>5. CASE StopWaiting(u) \/ WaitForChange(u) \/ PassOn(u) \/ PassedOn(u) \/ Leave(u)
  <2>1. PassedOn(u) => pc'[u] = "wait"
    BY NotifiedOne DEF PassedOn, Asleep, PCs, OwnerPC, CallPC, Threads
  <2>2. /\ {pc[u], pc'[u]} \cap {"outer", "inner", "pushed"} = {}
        /\ UNCHANGED <<loop, saved, calls>>
    BY <1>1, <1>5, <2>1 DEF StopWaiting, WaitForChange, PassOn, PassedOn, Leave, users
  <2>3. ~InLoop(u) /\ calls' \in [Users -> Nat] /\ calls'[u] <= MaxCalls[u]
    BY <1>2, <2>2 DEF InLoop, LoopTypes, LoopInv
  <2> QED
    BY <2>2, <2>3, NotInLoopKept
<1>6. CASE Pushed(u)
  <2>1. /\ pc[u] = "pushed" /\ UNCHANGED <<loop, saved, calls>>
        /\ pc'[u] = IF loop[u].limit = 0 THEN "idle" ELSE "inner"
    BY <1>6, NotifiedOne DEF Pushed, Asleep, PCs, OwnerPC, CallPC, Threads, users
  <2>2. CASE loop[u].limit = 0
    <3>1. /\ ~InLoop(u) /\ {pc[u], pc'[u]} \cap {"outer", "inner"} = {}
          /\ calls' \in [Users -> Nat] /\ calls'[u] <= MaxCalls[u]
      BY <1>2, <2>1, <2>2 DEF InLoop, LoopTypes, LoopInv
    <3> QED
      BY <2>1, <3>1, NotInLoopKept
  <2>3. CASE loop[u].limit # 0
    <3>1. InLoop(u) /\ InLoop(u)' /\ Position(u)' = Position(u)
      BY <2>1, <2>3 DEF InLoop, Position, Begin, Remain
    <3>2. LoopTypes' /\ LoopInv(u)'
      BY <1>2, <2>1, <2>3, <3>1 DEF LoopTypes, LoopInv
    <3>3. SavedInv(u)'
      BY <1>2, <2>1, <3>1 DEF SavedInv
    <3> QED
      BY <3>2, <3>3
  <2> QED
    BY <2>2, <2>3
<1>7. CASE \E limit \in Limits : ParallelizeFor(u, limit)
  <2>1. PICK limit \in Limits : ParallelizeFor(u, limit)
    BY <1>7
  <2>2. /\ pc[u] = "idle" /\ pc'[u] = "outer" /\ UNCHANGED saved
        /\ loop' = [loop EXCEPT ![u] = [NoLoop EXCEPT !.limit = limit]]
        /\ calls[u] < MaxCalls[u] /\ calls' = [calls EXCEPT ![u] = @ + 1]
    BY <1>1, <2>1 DEF ParallelizeFor, MayCall, Call
  <2>3. saved[u] = {} /\ limit \in 1..MaxLimit
    BY <1>2, <1>3, <2>2 DEF LoopInv, InLoop
  <2>4. loop'[u] = [limit |-> limit, ind |-> 0, cap |-> 0, b |-> 0]
    BY <1>2, <2>2 DEF LoopTypes, NoLoop
  <2>5. LoopTypes'
    <3>1. [NoLoop EXCEPT !.limit = limit] \in [limit : 0..MaxLimit, ind : Nat, cap : 0..N, b : Nat]
      BY <1>3, <2>3 DEF NoLoop
    <3> QED
      BY <1>2, <2>2, <3>1 DEF LoopTypes
  <2>6. InLoop(u)' /\ Position(u)' = 0
    BY <1>3, <2>2, <2>3, <2>4 DEF InLoop, Position
  <2>7. LoopInv(u)'
    BY <1>2, <1>3, <2>1, <2>2, <2>3, <2>4, <2>6 DEF LoopInv, LoopTypes
  <2>8. SavedInv(u)'
    BY <1>2, <2>2, <2>3, <2>6 DEF SavedInv, LoopTypes
  <2> QED
    BY <2>5, <2>7, <2>8
<1>8. CASE Share(u)
  <2>1. PICK cap \in {N, N - 1} :
          /\ pc[u] = "outer" /\ pc'[u] = "inner" /\ UNCHANGED <<saved, calls>>
          /\ loop' = [loop EXCEPT ![u].b = 0, ![u].cap = cap]
    BY <1>1, <1>8 DEF Share
  <2>2. loop[u].limit # 0 /\ InLoop(u)
    BY <1>2, <2>1 DEF LoopInv, InLoop
  <2>3. N \in Nat \ {0, 1} /\ cap \in 0..N
    BY <1>2, <2>1, <2>2, Begins
  <2>4. loop'[u] = [loop[u] EXCEPT !.b = 0, !.cap = cap]
    BY <1>2, <2>1 DEF LoopTypes
  <2>5. LoopTypes'
    <3>1. loop[u] \in [limit : 0..MaxLimit, ind : Nat, cap : 0..N, b : Nat]
      BY <1>2 DEF LoopTypes
    <3>2. [loop[u] EXCEPT !.b = 0, !.cap = cap] \in
            [limit : 0..MaxLimit, ind : Nat, cap : 0..N, b : Nat]
      BY <2>3, <3>1
    <3>3. loop' = [loop EXCEPT ![u] = [loop[u] EXCEPT !.b = 0, !.cap = cap]]
      BY <1>2, <2>1 DEF LoopTypes
    <3> QED
      BY <1>2, <2>1, <3>2, <3>3 DEF LoopTypes
  <2>6. InLoop(u)' /\ Position(u)' = Begin(u, 0)
    BY <1>2, <2>1, <2>2, <2>4 DEF InLoop, Position, Begin, Remain, LoopTypes
  <2>7. Position(u)' = Position(u)
    BY <1>2, <2>1, <2>2, <2>6, Begins DEF Position
  <2>8. LoopInv(u)'
    BY <1>2, <2>1, <2>2, <2>3, <2>4, <2>6 DEF LoopInv, LoopTypes
  <2>9. SavedInv(u)'
    BY <1>2, <2>1, <2>2, <2>6, <2>7 DEF SavedInv
  <2> QED
    BY <2>5, <2>8, <2>9
<1>9. CASE NextShare(u)
  <2>1. /\ pc[u] = "inner" /\ pc'[u] = "outer" /\ UNCHANGED <<saved, calls>>
        /\ loop[u].b = loop[u].cap
        /\ loop' = [loop EXCEPT ![u].ind = Begin(u, loop[u].cap)]
    BY <1>1, <1>9 DEF NextShare
  <2>2. loop[u].limit # 0 /\ InLoop(u) /\ Position(u) = Begin(u, loop[u].cap)
    BY <1>2, <2>1 DEF LoopInv, InLoop, Position
  <2>3. Begin(u, loop[u].cap) \in 0..loop[u].limit /\ loop[u].limit \in 1..MaxLimit
    BY <1>2, <2>2, Begins
  <2>4. loop'[u] = [loop[u] EXCEPT !.ind = Begin(u, loop[u].cap)]
    BY <1>2, <2>1 DEF LoopTypes
  <2>5. LoopTypes'
    BY <1>2, <1>3, <2>1, <2>3 DEF LoopTypes
  <2>6. InLoop(u)' /\ Position(u)' = Position(u)
    BY <1>2, <2>1, <2>2, <2>4 DEF InLoop, Position, LoopTypes
  <2>7. LoopInv(u)'
    BY <1>2, <2>1, <2>2, <2>3, <2>4, <2>6 DEF LoopInv, LoopTypes
  <2>8. SavedInv(u)'
    BY <1>2, <2>1, <2>2, <2>6 DEF SavedInv
  <2> QED
    BY <2>5, <2>7, <2>8
<1>10. CASE WaitSaved(u)
  <2>1. /\ pc'[u] = "idle" /\ UNCHANGED calls
        /\ loop' = [loop EXCEPT ![u] = NoLoop] /\ saved' = [saved EXCEPT ![u] = {}]
    BY <1>1, <1>10 DEF WaitSaved
  <2>2. loop'[u] = NoLoop /\ saved'[u] = {}
    BY <1>2, <2>1 DEF LoopTypes
  <2>3. NoLoop \in [limit : 0..MaxLimit, ind : Nat, cap : 0..N, b : Nat]
    BY <1>3 DEF NoLoop
  <2>4. LoopTypes'
    BY <1>2, <2>1, <2>3 DEF LoopTypes
  <2>5. LoopInv(u)' /\ SavedInv(u)'
    BY <1>2, <2>1, <2>2 DEF LoopInv, SavedInv, InLoop, NoLoop
  <2> QED
    BY <2>4, <2>5
<1>11. CASE Piece(u)
  BY <1>11, PieceKept
<1> QED
  BY <1>4, <1>5, <1>6, <1>7, <1>8, <1>9, <1>10, <1>11 DEF User

\* The loops of all users, whoever steps.
LEMMA LoopsKept ==
  ASSUME PCTypes, CountInv, LoopsInv, PoolAssumption, NEW t \in Threads, Step(t)
  PROVE  LoopsInv'
<1>1. Owner \in Users /\ Runners \cap Users = {} /\ Threads = Runners \cup Users
  BY DEF PoolAssumption, Threads
<1>2. \A u \in Users \ {t} : LoopInv(u)' /\ SavedInv(u)'
  BY OthersLoopsKept
<1>3. CASE t \in Users /\ User(t)
  BY <1>2, <1>3, OwnLoopKept DEF LoopsInv
<1>4. CASE t \in Runners /\ Runner(t)
  <2>1. UNCHANGED <<loop, saved, calls>>
    BY <1>4 DEF Runner, Register, EndRunner, TakeTask, Drowse, FallAsleep, Execute, CountDown,
                ReadWaiting, SignalOthers, users
  <2> QED
    BY <1>1, <1>2, <1>4, <2>1 DEF LoopsInv, LoopTypes
<1>5. CASE (t = Owner /\ Lifetime) \/ SpuriousWake(t)
  <2>1. UNCHANGED <<loop, saved, calls>>
    BY <1>5 DEF Lifetime, Destroy, AllRegistered, NotAllRegistered, AwaitRunner, Announce,
                NotifyEnding, Join, SpuriousWake, users
  <2>2. ASSUME NEW label, Goto(t, label)
        PROVE  pc'[t] = label
    BY <2>2 DEF PCTypes, Goto
  <2>3. {pc[t], pc'[t]} \cap {"outer", "inner", "pushed"} = {}
    <3>1. CASE SpuriousWake(t)
      BY <2>2, <3>1 DEF SpuriousWake, Asleep, Woken
    <3>2. CASE t = Owner /\ NotifyEnding
      BY <3>2, NotifiedAll DEF NotifyEnding, PCs, OwnerPC
    <3>3. CASE t = Owner /\ (Destroy \/ AllRegistered \/ NotAllRegistered \/ AwaitRunner
                             \/ Announce \/ Join)
      BY <2>2, <3>3 DEF Destroy, AllRegistered, NotAllRegistered, AwaitRunner, Announce, Join
    <3> QED
      BY <1>5, <3>1, <3>2, <3>3 DEF Lifetime
  <2>4. LoopTypes'
    BY <2>1 DEF LoopsInv, LoopTypes
  <2>5. t \in Users => LoopInv(t)' /\ SavedInv(t)'
    BY <2>1, <2>3, NotInLoopKept DEF LoopsInv, LoopTypes, LoopInv, InLoop
  <2> QED
    BY <1>2, <2>4, <2>5 DEF LoopsInv
<1> QED
  BY <1>3, <1>4, <1>5 DEF Step
-----------------------------------------------------------------------------
\* The tasks: each is in one place only, and the next one is a new one.
Queue == {tasks[n] : n \in 1..Len(tasks)}
Busy  == {task[r] : r \in Working}
Known == Queue \cup Busy \cup finished

TaskTypes == tasks \in Seq(Tasks) /\ task \in [Runners -> Tasks] /\ finished \subseteq Tasks

OldTask(s) ==
  /\ s.call <= calls[s.user]
  /\ InLoop(s.user) /\ s.call = calls[s.user] => s \in saved[s.user]

PlacesInv ==
  /\ \A i, j \in 1..Len(tasks) : tasks[i] = tasks[j] => i = j
  /\ \A q, r \in Working : task[q] = task[r] => q = r
  /\ \A r \in Working : task[r] \notin Queue \cup finished
  /\ Queue \cap finished = {}

TasksInv == TaskTypes /\ PlacesInv /\ \A s \in Known : OldTask(s)

\* The tasks that are somewhere are tasks.
LEMMA KnownTypes ==
  ASSUME TaskTypes
  PROVE  Queue \subseteq Tasks /\ Known \subseteq Tasks
<1>1. Queue \subseteq Tasks
  BY DEF TaskTypes, Queue
<1>2. Busy \subseteq Tasks
  BY DEF TaskTypes, Busy, Working
<1> QED
  BY <1>1, <1>2 DEF TaskTypes, Known

\* The steps that move a task.
TaskStep(t) ==
  \/ t \in Runners /\ (TakeTask(t) \/ Execute(t))
  \/ t \in Users /\ (RunTask(t) \/ Piece(t))

\* Nobody starts or ends the task of another thread.
LEMMA WorkingOthers ==
  ASSUME PCTypes, PoolAssumption, NEW t \in Threads, Step(t)
  PROVE  \A r \in Runners \ {t} : r \in Working' <=> r \in Working
<1>1. Owner \notin Runners /\ Runners \subseteq Threads
  BY DEF PoolAssumption, Threads
<1> QED
  BY <1>1, OthersAreRoused DEF Roused, Woken, Working

\* The other steps leave the tasks where they are.
LEMMA NoTaskStep ==
  ASSUME PCTypes, PoolAssumption, NEW t \in Threads, Step(t), ~TaskStep(t)
  PROVE  UNCHANGED <<tasks, task, finished>> /\ Working' = Working
<1>1. Owner \in Users /\ Runners \cap Users = {} /\ Runners \subseteq Threads
  BY DEF PoolAssumption, Threads
<1>2. UNCHANGED <<tasks, task, finished>>
  BY DEF Step, TaskStep, Runner, Register, EndRunner, Drowse, FallAsleep, CountDown, ReadWaiting,
         SignalOthers, User, Pushed, ParallelizeFor, Share, NextShare, WaitSaved, Wait,
         StopWaiting, WaitForChange, PassOn, PassedOn, Leave,
         Lifetime, Destroy, AllRegistered, NotAllRegistered, AwaitRunner, Announce, NotifyEnding,
         Join, SpuriousWake
<1>3. ASSUME t \in Runners
      PROVE  pc[t] # "task" /\ pc'[t] # "task"
  <2>1. ASSUME NEW label, Goto(t, label)
        PROVE  pc'[t] = label
    BY <2>1 DEF PCTypes, Goto
  <2>2. CASE SignalOthers(t)
    <3>1. pc'[t] = "look" /\ pc[t] \in {"signal one", "signal all"}
      BY <2>2, NotifiedOne, NotifiedAll DEF SignalOthers, Asleep, PCs, RunnerPC
    <3> QED
      BY <3>1
  <2>3. CASE Register(t) \/ EndRunner(t) \/ Drowse(t) \/ CountDown(t) \/ ReadWaiting(t)
    BY <2>1, <2>3 DEF Register, EndRunner, Drowse, CountDown, ReadWaiting
  <2>4. CASE FallAsleep(t)
    BY <1>1, <1>3, <2>4 DEF FallAsleep, PCTypes
  <2>5. CASE SpuriousWake(t)
    BY <1>3, <2>1, <2>5 DEF SpuriousWake, Asleep, Woken
  <2> QED
    BY <1>1, <1>3, <2>2, <2>3, <2>4, <2>5 DEF Step, Runner, TaskStep
<1>4. Working' = Working
  BY <1>3, WorkingOthers DEF Working
<1> QED
  BY <1>2, <1>4

\* A new task at the end of the queue: the queue has it, and still no other twice.
LEMMA Appended ==
  ASSUME tasks \in Seq(Tasks), NEW s \in Tasks, tasks' = Append(tasks, s)
  PROVE  /\ tasks' \in Seq(Tasks) /\ Queue' = Queue \cup {s}
         /\ (s \notin Queue /\ \A i, j \in 1..Len(tasks) : tasks[i] = tasks[j] => i = j) =>
              \A i, j \in 1..Len(tasks') : tasks'[i] = tasks'[j] => i = j
<1>1. /\ tasks' \in Seq(Tasks) /\ Len(tasks') = Len(tasks) + 1 /\ Len(tasks) \in Nat
      /\ \A i \in 1..Len(tasks) : tasks'[i] = tasks[i]
      /\ tasks'[Len(tasks) + 1] = s
  OBVIOUS
<1>2. Queue' = Queue \cup {s}
  <2>1. \A i \in 1..Len(tasks') : i \in 1..Len(tasks) \/ i = Len(tasks) + 1
    BY <1>1
  <2>2. 1..Len(tasks) \subseteq 1..Len(tasks') /\ Len(tasks) + 1 \in 1..Len(tasks')
    BY <1>1
  <2> QED
    BY <1>1, <2>1, <2>2 DEF Queue
<1> QED
  BY <1>1, <1>2 DEF Queue

\* The queue without its first task: it has all the others, and that one no more.
LEMMA Taken ==
  ASSUME tasks \in Seq(Tasks), tasks # << >>, tasks' = Tail(tasks),
         \A i, j \in 1..Len(tasks) : tasks[i] = tasks[j] => i = j
  PROVE  /\ tasks' \in Seq(Tasks) /\ Head(tasks) \in Queue /\ Head(tasks) \in Tasks
         /\ Queue' = Queue \ {Head(tasks)}
         /\ \A i, j \in 1..Len(tasks') : tasks'[i] = tasks'[j] => i = j
<1>1. /\ tasks' \in Seq(Tasks) /\ Len(tasks) \in Nat \ {0} /\ Len(tasks') = Len(tasks) - 1
      /\ Head(tasks) = tasks[1] /\ Head(tasks) \in Tasks
  OBVIOUS
<1>2. \A i \in 1..Len(tasks') : i + 1 \in 1..Len(tasks) /\ tasks'[i] = tasks[i + 1]
  BY <1>1
<1>3. \A i \in 1..Len(tasks) : i = 1 \/ (i - 1 \in 1..Len(tasks') /\ tasks[i] = tasks'[i - 1])
  BY <1>1, <1>2
<1>4. Head(tasks) \in Queue
  BY <1>1 DEF Queue
<1>5. Queue' = Queue \ {Head(tasks)}
  <2>1. \A s \in Queue' : s \in Queue /\ s # Head(tasks)
    BY <1>1, <1>2 DEF Queue
  <2>2. \A s \in Queue : s = Head(tasks) \/ s \in Queue'
    BY <1>1, <1>3 DEF Queue
  <2> QED
    BY <2>1, <2>2
<1>6. \A i, j \in 1..Len(tasks') : tasks'[i] = tasks'[j] => i = j
  BY <1>1, <1>2
<1> QED
  BY <1>1, <1>4, <1>5, <1>6

\* The calls of a user go up, and a call that goes on keeps its futures.
LEMMA OwnCalls ==
  ASSUME PCTypes, CountInv, LoopsInv, PoolAssumption, NEW u \in Users, Step(u)
  PROVE  \/ calls'[u] = calls[u] + 1
         \/ calls'[u] = calls[u] /\ (InLoop(u)' => InLoop(u) /\ saved[u] \subseteq saved'[u])
<1>1. u \in Threads /\ u \notin Runners /\ Owner \in Users
  BY DEF PoolAssumption, Threads
<1>2. ASSUME NEW label, Goto(u, label)
      PROVE  pc'[u] = label
  BY <1>1, <1>2 DEF PCTypes, Goto
<1>3. LoopTypes /\ LoopInv(u)
  BY DEF LoopsInv
<1>4. CASE RunTask(u) \/ Wait(u) \/ \E limit \in Limits : ParallelizeFor(u, limit)
  BY <1>3, <1>4 DEF RunTask, Wait, ParallelizeFor, Call, LoopTypes
<1>5. CASE Share(u) \/ NextShare(u) \/ Piece(u)
  <2>1. calls' = calls /\ saved[u] \subseteq saved'[u] /\ pc[u] \in {"outer", "inner"}
    BY <1>3, <1>5 DEF Share, NextShare, Piece, LoopTypes
  <2> QED
    BY <1>3, <2>1 DEF LoopInv, InLoop
<1>6. CASE Pushed(u)
  BY <1>6 DEF Pushed, InLoop, users
<1>7. CASE WaitSaved(u)
  BY <1>2, <1>7 DEF WaitSaved, InLoop
<1>8. CASE StopWaiting(u) \/ WaitForChange(u) \/ PassOn(u) \/ Leave(u)
  BY <1>2, <1>8 DEF StopWaiting, WaitForChange, PassOn, Leave, InLoop, users
<1>9. CASE PassedOn(u)
  <2>1. pc'[u] = "wait"
    BY <1>1, <1>9, NotifiedOne DEF PassedOn, Asleep, PCs, OwnerPC, CallPC
  <2> QED
    BY <1>9, <2>1 DEF PassedOn, InLoop, users
<1>10. CASE SpuriousWake(u)
  BY <1>2, <1>10 DEF SpuriousWake, Asleep, Woken, InLoop, users
<1>11. CASE u = Owner /\ NotifyEnding
  <2>1. pc'[u] = "join"
    BY <1>1, <1>11, NotifiedAll DEF NotifyEnding, PCs, OwnerPC
  <2> QED
    BY <1>11, <2>1 DEF NotifyEnding, InLoop, users
<1>12. CASE u = Owner /\ (Destroy \/ AllRegistered \/ NotAllRegistered \/ AwaitRunner
                          \/ Announce \/ Join)
  BY <1>2, <1>12 DEF Destroy, AllRegistered, NotAllRegistered, AwaitRunner, Announce, Join,
                     InLoop, users
<1> QED
  BY <1>1, <1>4, <1>5, <1>6, <1>7, <1>8, <1>9, <1>10, <1>11, <1>12 DEF Step, User, Lifetime

\* An old task stays old.
LEMMA OldTasksKept ==
  ASSUME PCTypes, CountInv, LoopsInv, PoolAssumption, NEW t \in Threads, Step(t),
         NEW s \in Tasks, OldTask(s)
  PROVE  OldTask(s)'
<1>1. s.user \in Users /\ s.call \in Nat
  BY TasksAreTasks DEF PoolAssumption
<1>2. calls[s.user] \in Nat
  BY <1>1 DEF LoopsInv, LoopTypes
<1>3. CASE s.user # t
  <2>1. /\ loop'[s.user] = loop[s.user] /\ saved'[s.user] = saved[s.user]
        /\ calls'[s.user] = calls[s.user]
        /\ \/ pc'[s.user] = pc[s.user]
           \/ {pc[s.user], pc'[s.user]} \cap {"outer", "inner", "pushed"} = {}
    BY <1>1, <1>3, OthersLoops DEF LoopsInv
  <2> QED
    BY <2>1 DEF OldTask, InLoop
<1>4. CASE s.user = t
  BY <1>1, <1>2, <1>4, OwnCalls DEF OldTask
<1> QED
  BY <1>3, <1>4

\* What run() and parallelize_for() push has not been there before.
LEMMA PushesNew ==
  ASSUME PCTypes, CountInv, LoopsInv, TasksInv, PoolAssumption, NEW u \in Users,
         RunTask(u) \/ Piece(u)
  PROVE  \/ UNCHANGED tasks
         \/ \E s \in Tasks : s \notin Known /\ tasks' = Append(tasks, s) /\ OldTask(s)'
<1>1. /\ LoopTypes /\ LoopInv(u) /\ SavedInv(u) /\ calls[u] \in Nat /\ MaxLimit \in Nat \ {0}
      /\ MaxCalls[u] \in Nat
  BY DEF LoopsInv, LoopTypes, PoolAssumption
<1>2. CASE RunTask(u)
  <2>0. PICK s : s = Task(u, calls[u] + 1, 0, 1)
    OBVIOUS
  <2>1. /\ tasks' = Append(tasks, s) /\ pc[u] = "idle" /\ UNCHANGED loop
        /\ calls' = [calls EXCEPT ![u] = @ + 1] /\ calls[u] < MaxCalls[u]
    BY <1>2, <2>0 DEF RunTask, Push, MayCall, Call
  <2>2. s \in Tasks /\ s.user = u /\ s.call = calls[u] + 1
    <3>1. calls[u] + 1 \in 0..MaxCalls[u] /\ 0 \in 0..MaxLimit /\ 1 \in 0..MaxLimit
      BY <1>1, <2>1
    <3> QED
      BY <2>0, <3>1, TaskType DEF Task
  <2>3. s \notin Known
    BY <1>1, <2>2 DEF TasksInv, OldTask
  <2>4. OldTask(s)'
    <3>1. loop'[u] = NoLoop /\ calls'[u] = calls[u] + 1
      BY <1>1, <2>1 DEF LoopInv, InLoop, LoopTypes
    <3> QED
      BY <1>1, <2>2, <3>1 DEF OldTask, InLoop, NoLoop
  <2> QED
    BY <2>1, <2>2, <2>3, <2>4
<1>3. CASE Piece(u)
  <2>0. PICK begin, end, s : /\ begin = Begin(u, loop[u].b) /\ end = Begin(u, loop[u].b + 1)
                             /\ s = Task(u, calls[u], begin, end)
    OBVIOUS
  <2>1. /\ pc[u] = "inner" /\ UNCHANGED calls /\ loop[u].b < loop[u].cap
        /\ \/ UNCHANGED tasks
           \/ end > begin /\ tasks' = Append(tasks, s) /\ saved' = [saved EXCEPT ![u] = @ \cup {s}]
    BY <1>3, <2>0 DEF Piece, Push, Task
  <2>2. loop[u].limit # 0 /\ InLoop(u) /\ Position(u) = begin
    BY <1>1, <2>0, <2>1 DEF LoopInv, InLoop, Position
  <2>3. begin \in 0..MaxLimit /\ end \in 0..MaxLimit
    <3>1. /\ N \in Nat \ {0, 1} /\ loop[u].cap \in 0..N /\ loop[u].b \in 0..loop[u].cap
          /\ loop[u].limit \in 1..MaxLimit
      BY <1>1, <2>2, Begins
    <3>2. loop[u].b \in 0..N /\ loop[u].b + 1 \in 0..N
      BY <2>1, <3>1
    <3>3. begin \in 0..loop[u].limit /\ end \in 0..loop[u].limit
      BY <1>1, <2>0, <2>2, <3>2, Begins
    <3> QED
      BY <1>1, <3>1, <3>3
  <2>4. s \in Tasks /\ s.user = u /\ s.call = calls[u] /\ s.begin = begin /\ s.end = end
    <3>1. calls[u] \in 0..MaxCalls[u]
      BY <1>1 DEF LoopInv
    <3> QED
      BY <2>0, <2>3, <3>1, TaskType DEF Task
  <2>5. CASE UNCHANGED tasks
    BY <2>5
  <2>6. CASE end > begin /\ tasks' = Append(tasks, s) /\ saved' = [saved EXCEPT ![u] = @ \cup {s}]
    <3>1. s \notin Known
      <4>1. SUFFICES ASSUME s \in Known
            PROVE  FALSE
        OBVIOUS
      <4>2. s \in saved[u]
        BY <2>2, <2>4, <4>1 DEF TasksInv, OldTask
      <4>3. s.end <= begin
        BY <1>1, <2>2, <4>2 DEF SavedInv
      <4> QED
        BY <2>3, <2>4, <2>6, <4>3
    <3>2. OldTask(s)'
      <4>1. s \in saved'[u] /\ calls'[u] = calls[u]
        BY <1>1, <2>1, <2>6 DEF LoopTypes
      <4> QED
        BY <1>1, <2>4, <4>1 DEF OldTask
    <3> QED
      BY <2>4, <2>6, <3>1, <3>2
  <2> QED
    BY <2>1, <2>5, <2>6
<1> QED
  BY <1>2, <1>3
-----------------------------------------------------------------------------
\* What the three kinds of task steps do to the places.

\* TakeTask moves the first task of the queue to those at work.
LEMMA Takes ==
  ASSUME PCTypes, PoolAssumption, TaskTypes, PlacesInv, NEW r \in Runners, TakeTask(r)
  PROVE  /\ r \notin Working /\ Working' = Working \cup {r}
         /\ tasks # << >> /\ tasks' = Tail(tasks) /\ UNCHANGED finished
         /\ Busy' = Busy \cup {Head(tasks)} /\ Head(tasks) \notin Busy
         /\ TaskTypes' /\ PlacesInv' /\ Known' = Known
<1>1. Runners \subseteq Threads
  BY DEF Threads
<1>2. /\ pc[r] = "look" /\ pc'[r] = "task" /\ \A q \in Runners \ {r} : pc'[q] = pc[q]
      /\ tasks # << >> /\ tasks' = Tail(tasks) /\ UNCHANGED finished
      /\ task' = [task EXCEPT ![r] = Head(tasks)]
  BY <1>1 DEF TakeTask, Goto, PCTypes
<1>3. r \notin Working /\ Working' = Working \cup {r} /\ Working \subseteq Runners
  BY <1>2 DEF Working
<1>4. /\ tasks' \in Seq(Tasks) /\ Head(tasks) \in Queue /\ Head(tasks) \in Tasks
      /\ Queue' = Queue \ {Head(tasks)}
      /\ \A i, j \in 1..Len(tasks') : tasks'[i] = tasks'[j] => i = j
  BY <1>2, Taken DEF TaskTypes, PlacesInv
<1>5. /\ task' \in [Runners -> Tasks]
      /\ task'[r] = Head(tasks) /\ \A q \in Working : task'[q] = task[q]
  BY <1>2, <1>3, <1>4 DEF TaskTypes
<1>6. Head(tasks) \notin Busy \cup finished
  BY <1>4 DEF PlacesInv, Busy
<1>7. Busy' = Busy \cup {Head(tasks)}
  BY <1>3, <1>5 DEF Busy
<1>8. TaskTypes'
  BY <1>2, <1>4, <1>5 DEF TaskTypes
<1>9. PlacesInv'
  <2>1. \A p, q \in Working' : task'[p] = task'[q] => p = q
    BY <1>3, <1>5, <1>6 DEF PlacesInv, Busy
  <2>2. \A q \in Working' : task'[q] \notin Queue' \cup finished'
    BY <1>2, <1>3, <1>4, <1>5, <1>6 DEF PlacesInv
  <2>3. Queue' \cap finished' = {}
    BY <1>2, <1>4 DEF PlacesInv
  <2> QED
    BY <1>4, <2>1, <2>2, <2>3 DEF PlacesInv
<1>10. Known' = Known
  BY <1>2, <1>4, <1>7 DEF Known
<1> QED
  BY <1>2, <1>3, <1>6, <1>7, <1>8, <1>9, <1>10

\* Execute moves a task from those at work to the finished ones.
LEMMA Executes ==
  ASSUME PCTypes, PoolAssumption, TaskTypes, PlacesInv, NEW r \in Runners, Execute(r)
  PROVE  /\ task[r] \in Busy /\ Busy' = Busy \ {task[r]}
         /\ finished' = finished \cup {task[r]} /\ UNCHANGED tasks
         /\ TaskTypes' /\ PlacesInv' /\ Known' = Known
<1>1. Runners \subseteq Threads
  BY DEF Threads
<1>2. /\ pc[r] = "task" /\ pc'[r] = "done" /\ \A q \in Runners \ {r} : pc'[q] = pc[q]
      /\ finished' = finished \cup {task[r]} /\ UNCHANGED <<tasks, task>>
  BY <1>1 DEF Execute, Goto, PCTypes
<1>3. r \in Working /\ Working' = Working \ {r} /\ Working \subseteq Runners /\ Queue' = Queue
  BY <1>2 DEF Working, Queue
<1>4. task[r] \in Busy /\ Busy' = Busy \ {task[r]}
  BY <1>2, <1>3 DEF Busy, PlacesInv
<1>5. TaskTypes'
  BY <1>2, <1>3 DEF TaskTypes
<1>6. PlacesInv'
  BY <1>2, <1>3 DEF PlacesInv
<1>7. Known' = Known
  BY <1>2, <1>3, <1>4 DEF Known
<1> QED
  BY <1>2, <1>4, <1>5, <1>6, <1>7

\* run() and parallelize_for() add one new task, or none.
LEMMA Pushes ==
  ASSUME PCTypes, PoolAssumption, CountInv, LoopsInv, TasksInv, NEW u \in Users, Step(u),
         RunTask(u) \/ Piece(u)
  PROVE  /\ UNCHANGED finished /\ Busy' = Busy /\ TaskTypes' /\ PlacesInv'
         /\ \/ UNCHANGED tasks /\ Known' = Known
            \/ \E s \in Tasks : /\ s \notin Known /\ tasks' = Append(tasks, s) /\ OldTask(s)'
                                /\ Known' = Known \cup {s}
<1>1. UNCHANGED <<task, finished>>
  BY DEF RunTask, Piece
<1>2. Working' = Working /\ Working \subseteq Runners
  BY WorkingOthers DEF Working, Threads, PoolAssumption
<1>3. Busy' = Busy
  BY <1>1, <1>2 DEF Busy
<1>4. CASE UNCHANGED tasks
  <2>1. Queue' = Queue
    BY <1>4 DEF Queue
  <2> QED
    BY <1>1, <1>2, <1>3, <1>4, <2>1 DEF TasksInv, TaskTypes, PlacesInv, Known
<1>5. ASSUME NEW s \in Tasks, s \notin Known, tasks' = Append(tasks, s), OldTask(s)'
      PROVE  TaskTypes' /\ PlacesInv' /\ Known' = Known \cup {s}
  <2>1. s \notin Queue /\ s \notin Busy /\ s \notin finished
    BY <1>5 DEF Known
  <2>2. /\ tasks' \in Seq(Tasks) /\ Queue' = Queue \cup {s}
        /\ \A i, j \in 1..Len(tasks') : tasks'[i] = tasks'[j] => i = j
    BY <1>5, <2>1, Appended DEF TasksInv, TaskTypes, PlacesInv
  <2>3. TaskTypes'
    BY <1>1, <2>2 DEF TasksInv, TaskTypes
  <2>4. PlacesInv'
    BY <1>1, <1>2, <2>1, <2>2 DEF TasksInv, PlacesInv, Busy
  <2> QED
    BY <1>1, <1>3, <2>2, <2>3, <2>4 DEF Known
<1> QED
  BY <1>1, <1>3, <1>4, <1>5, PushesNew

\* Every task stays in one place.
LEMMA TasksKept ==
  ASSUME PCTypes, PoolAssumption, CountInv, LoopsInv, TasksInv, NEW t \in Threads, Step(t)
  PROVE  TasksInv'
<1>1. \A s \in Known : OldTask(s)'
  BY OldTasksKept, KnownTypes DEF TasksInv
<1>2. TaskTypes /\ PlacesInv
  BY DEF TasksInv
<1>3. CASE ~TaskStep(t)
  <2>1. UNCHANGED <<tasks, task, finished>> /\ Working' = Working
    BY <1>3, NoTaskStep
  <2>2. Queue' = Queue /\ Busy' = Busy
    BY <2>1 DEF Queue, Busy
  <2>3. Known' = Known
    BY <2>1, <2>2 DEF Known
  <2>4. TaskTypes' /\ PlacesInv'
    BY <1>2, <2>1, <2>2 DEF TaskTypes, PlacesInv
  <2> QED
    BY <1>1, <2>3, <2>4 DEF TasksInv
<1>4. CASE t \in Runners /\ (TakeTask(t) \/ Execute(t))
  <2>1. Known' = Known /\ TaskTypes' /\ PlacesInv'
    BY <1>2, <1>4, Takes, Executes
  <2> QED
    BY <1>1, <2>1 DEF TasksInv
<1>5. CASE t \in Users /\ (RunTask(t) \/ Piece(t))
  <2>1. /\ TaskTypes' /\ PlacesInv'
        /\ \/ Known' = Known
           \/ \E s \in Tasks : OldTask(s)' /\ Known' = Known \cup {s}
    BY <1>5, Pushes
  <2> QED
    BY <1>1, <2>1 DEF TasksInv
<1> QED
  BY <1>3, <1>4, <1>5 DEF TaskStep
-----------------------------------------------------------------------------
\* The pool implements TaskPool.

\* The tasks at work are no more than the threads that have been counted.
LEMMA BusyBounded ==
  ASSUME PoolAssumption, CountInv
  PROVE  Cardinality(Busy) \in Nat /\ Cardinality(Busy) <= num_running
<1>1. Working \subseteq Counted /\ IsFiniteSet(Counted)
  BY CountTypes DEF Working, Counted
<1>2. IsFiniteSet(Working) /\ Cardinality(Working) <= Cardinality(Counted)
  BY <1>1, FS_Subset
<1>3. [r \in Working |-> task[r]] \in Surjection(Working, Busy)
  BY DEF Surjection, Busy
<1>4. IsFiniteSet(Busy) /\ Cardinality(Busy) <= Cardinality(Working)
  BY <1>2, <1>3, FS_Surjection
<1> QED
  BY <1>1, <1>2, <1>4, FS_CardinalityType DEF CountInv

\* The pool is destroyed by the owner's last step only.
LEMMA ClosedBy ==
  ASSUME PCTypes, PoolAssumption, LifeInv, NEW t \in Threads, Step(t)
  PROVE  \/ pc'[Owner] = "destroyed" <=> pc[Owner] = "destroyed"
         \/ t = Owner /\ Join
<1>1. /\ Owner \in Users /\ Runners \cap Users = {}
      /\ Runners \subseteq Threads /\ Users \subseteq Threads
  BY DEF PoolAssumption, Threads
<1>2. CASE t # Owner
  BY <1>1, <1>2, OthersAreRoused DEF Roused, Woken
<1>3. CASE t = Owner /\ User(t)
  BY <1>1, <1>3, UserSteps DEF CallPC
<1>4. ASSUME t = Owner, NEW label, Goto(t, label)
      PROVE  pc'[Owner] = label
  BY <1>4 DEF PCTypes, Goto
<1>5. CASE t = Owner /\ SpuriousWake(t)
  BY <1>1, <1>4, <1>5 DEF SpuriousWake, Asleep, Woken
<1>6. CASE t = Owner /\ NotifyEnding
  BY <1>1, <1>6, NotifiedAll DEF NotifyEnding, PCs, OwnerPC
<1>7. CASE t = Owner /\ (Destroy \/ AllRegistered \/ NotAllRegistered \/ AwaitRunner \/ Announce)
  BY <1>4, <1>7 DEF Destroy, AllRegistered, NotAllRegistered, AwaitRunner, Announce
<1> QED
  BY <1>1, <1>2, <1>3, <1>5, <1>6, <1>7 DEF Step, Lifetime

\* A step of the pool is a step of TaskPool, or none of its variables changes.
LEMMA PromiseStep ==
  ASSUME PCTypes, PoolAssumption, CountInv, LifeInv, LoopsInv, TasksInv, Runners # {},
         NEW t \in Threads, Step(t)
  PROVE  Promise!Next \/ UNCHANGED Promise!vars
<1>1. /\ Owner \in Users /\ Runners \cap Users = {}
      /\ Runners \subseteq Threads /\ Users \subseteq Threads
  BY DEF PoolAssumption, Threads
<1>2. TaskTypes /\ PlacesInv
  BY DEF TasksInv
<1>3. CASE ~TaskStep(t) /\ (pc'[Owner] = "destroyed" <=> pc[Owner] = "destroyed")
  <2>1. UNCHANGED <<tasks, task, finished>> /\ Working' = Working
    BY <1>3, NoTaskStep
  <2>2. Busy' = Busy
    BY <2>1 DEF Busy
  <2> QED
    BY <1>3, <2>1, <2>2 DEF Promise!vars, Busy
<1>4. CASE ~TaskStep(t) /\ t = Owner /\ Join
  <2>1. UNCHANGED <<tasks, task, finished>> /\ Working' = Working
    BY <1>4, NoTaskStep
  <2>2. /\ pc[Owner] = "join" /\ pc'[Owner] = "destroyed"
        /\ \A r \in Runners : pc[r] = "ended"
    BY <1>1, <1>4 DEF Join, Goto, PCTypes
  <2>3. tasks = << >> /\ Working = {}
    BY <2>2 DEF LifeInv, Working
  <2>4. Busy = {} /\ Busy' = {}
    BY <2>1, <2>3 DEF Busy
  <2> QED
    BY <2>1, <2>2, <2>3, <2>4 DEF Promise!Next, Promise!Close, Busy
<1>5. CASE TaskStep(t)
  <2>1. pc'[Owner] = "destroyed" <=> pc[Owner] = "destroyed"
    BY <1>1, <1>5, ClosedBy DEF TaskStep, Join, RunTask, Piece, MayCall
  <2>2. CASE t \in Runners /\ TakeTask(t)
    <3>1. /\ tasks # << >> /\ tasks' = Tail(tasks) /\ UNCHANGED finished
          /\ Busy' = Busy \cup {Head(tasks)}
      BY <1>2, <2>2, Takes
    <3>2. Cardinality(Busy) < N
      BY <2>2, BusyBounded, CountTypes DEF TakeTask
    <3>3. Promise!Cardinality(Busy) = Cardinality(Busy)
      BY DEF Promise!Cardinality, Cardinality
    <3>4. Promise!Start
      BY <2>1, <3>1, <3>2, <3>3 DEF Promise!Start, Busy
    <3> QED
      BY <3>4 DEF Promise!Next
  <2>3. CASE t \in Runners /\ Execute(t)
    <3>1. /\ task[t] \in Busy /\ Busy' = Busy \ {task[t]}
          /\ finished' = finished \cup {task[t]} /\ UNCHANGED tasks
      BY <1>2, <2>3, Executes
    <3>2. PICK s \in Tasks : s = task[t]
      BY <1>2, <2>3 DEF TaskTypes
    <3>3. Promise!Finish(s)
      BY <2>1, <3>1, <3>2 DEF Promise!Finish, Busy
    <3> QED
      BY <3>3 DEF Promise!Next
  <2>4. CASE t \in Users /\ (RunTask(t) \/ Piece(t))
    <3>1. /\ UNCHANGED finished /\ Busy' = Busy
          /\ \/ UNCHANGED tasks
             \/ \E s \in Tasks : s \notin Known /\ tasks' = Append(tasks, s)
      BY <2>4, Pushes
    <3>2. pc[Owner] # "destroyed"
      <4>1. CASE RunTask(t)
        BY <1>1, <2>4, <4>1 DEF RunTask, MayCall, LifeInv, Ending
      <4>2. CASE Piece(t)
        BY <1>1, <2>4, <4>2 DEF Piece, LifeInv, Ending
      <4> QED
        BY <2>4, <4>1, <4>2
    <3>3. CASE UNCHANGED tasks
      BY <2>1, <3>1, <3>3 DEF Promise!vars, Busy
    <3>4. ASSUME NEW s \in Tasks, s \notin Known, tasks' = Append(tasks, s)
          PROVE  Promise!Submit(s)
      BY <2>1, <3>1, <3>2, <3>4
      DEF Promise!Submit, Promise!Queued, Known, Queue, Busy
    <3> QED
      BY <3>1, <3>3, <3>4 DEF Promise!Next
  <2> QED
    BY <1>5, <2>2, <2>3, <2>4 DEF TaskStep
<1> QED
  BY <1>3, <1>4, <1>5, ClosedBy
-----------------------------------------------------------------------------
\* The remaining variables, and the inductive invariant.
FlagTypes == ending \in BOOLEAN /\ waiting \in BOOLEAN /\ spurious \in 0..MaxSpurious

\* The flags stay flags, and the bound on spurious wake-ups is kept.
LEMMA FlagsKept ==
  ASSUME PoolAssumption, FlagTypes, NEW t \in Threads, Step(t)
  PROVE  FlagTypes'
<1>1. MaxSpurious \in Nat
  BY DEF PoolAssumption
<1>2. CASE t \in Runners /\ Runner(t)
  BY <1>2 DEF FlagTypes, Runner, Register, EndRunner, TakeTask, Drowse, FallAsleep, Execute,
              CountDown, ReadWaiting, SignalOthers, pool
<1>3. CASE t \in Users /\ User(t)
  BY <1>3 DEF FlagTypes, User, RunTask, Pushed, ParallelizeFor, Share, Piece, NextShare, WaitSaved,
              Wait, StopWaiting, WaitForChange, PassOn, PassedOn, Leave, pool
<1>4. CASE t = Owner /\ Lifetime
  BY <1>4 DEF FlagTypes, Lifetime, Destroy, AllRegistered, NotAllRegistered, AwaitRunner, Announce,
              NotifyEnding, Join, pool
<1>5. CASE SpuriousWake(t)
  BY <1>1, <1>5 DEF FlagTypes, SpuriousWake, pool
<1> QED
  BY <1>2, <1>3, <1>4, <1>5 DEF Step

IInv ==
  /\ PCTypes /\ LockInv /\ CountInv /\ LifeInv
  /\ LoopsInv /\ TasksInv /\ FlagTypes

\* The invariant holds when the constructor begins.
LEMMA InitIInv ==
  ASSUME PoolAssumption, Init
  PROVE  IInv /\ NoLostWakeup
<1>1. /\ Owner \in Users /\ Runners \cap Users = {} /\ NoThread \notin Threads
      /\ Runners \subseteq Threads /\ Users \subseteq Threads
  BY DEF PoolAssumption, Threads
<1>2. PCTypes
  <2>1. {"ctor", "idle", "start"} \subseteq PCs
    BY DEF PCs, RunnerPC, OwnerPC, CallPC
  <2>2. pc \in [Threads -> PCs]
    BY <2>1 DEF Init, Threads
  <2> QED
    BY <1>1, <2>2 DEF Init, PCTypes, Threads, RunnerPC, OwnerPC, CallPC
<1>3. /\ \A r \in Runners : pc[r] = "start"
      /\ pc[Owner] = "ctor" /\ \A u \in Users \ {Owner} : pc[u] = "idle"
  BY <1>1 DEF Init
<1>4. LockInv /\ FlagTypes
  <2>1. lock = NoThread /\ pc[Owner] # "unaware" /\ \A r \in Runners : pc[r] # "drowsy"
    BY <1>3 DEF Init
  <2>2. ending = FALSE /\ waiting = FALSE /\ spurious = 0 /\ MaxSpurious \in Nat
    BY DEF Init, PoolAssumption
  <2>3. ending \in BOOLEAN /\ waiting \in BOOLEAN
    BY <2>2, Zenon
  <2>4. spurious \in 0..MaxSpurious
    BY <2>2
  <2> QED
    BY <2>1, <2>3, <2>4 DEF LockInv, FlagTypes
<1>5. CountInv
  <2>1. Counted = {} /\ Registered = {}
    BY <1>3 DEF Counted, Registered
  <2> QED
    BY <2>1, FS_EmptySet DEF Init, CountInv
<1>6. LifeInv
  BY <1>3 DEF Init, LifeInv, Ending
<1>7. LoopsInv
  <2>1. N \in Nat /\ MaxLimit \in Nat
    BY <1>5, CountTypes DEF PoolAssumption
  <2>2. NoLoop \in [limit : 0..MaxLimit, ind : Nat, cap : 0..N, b : Nat]
    BY <2>1 DEF NoLoop
  <2>3. LoopTypes
    BY <2>2 DEF Init, LoopTypes
  <2>4. ASSUME NEW u \in Users
        PROVE  LoopInv(u) /\ SavedInv(u)
    <3>1. loop[u] = NoLoop /\ saved[u] = {} /\ calls[u] = 0 /\ MaxCalls[u] \in Nat
      BY DEF Init, PoolAssumption
    <3>2. ~InLoop(u) /\ pc[u] \notin {"outer", "inner"}
      BY <1>3, <3>1 DEF InLoop, NoLoop
    <3> QED
      BY <3>1, <3>2 DEF LoopInv, SavedInv, NoLoop
  <2> QED
    BY <2>3, <2>4 DEF LoopsInv
<1>8. TasksInv
  <2>1. Task(Owner, 0, 0, 0) \in Tasks
    <3>1. 0 \in 0..MaxCalls[Owner] /\ 0 \in 0..MaxLimit
      BY <1>1 DEF PoolAssumption
    <3> QED
      BY <1>1, <3>1, TaskType
  <2>2. TaskTypes
    BY <2>1 DEF Init, TaskTypes
  <2>3. Queue = {} /\ Working = {} /\ finished = {} /\ Len(tasks) = 0
    BY <1>3 DEF Init, Queue, Working
  <2>4. Known = {}
    BY <2>3 DEF Known, Busy
  <2> QED
    BY <2>2, <2>3, <2>4 DEF TasksInv, PlacesInv
<1>9. NoLostWakeup
  BY DEF Init, NoLostWakeup
<1> QED
  BY <1>2, <1>4, <1>5, <1>6, <1>7, <1>8, <1>9 DEF IInv

\* Every step keeps the invariant.
LEMMA StepIInv ==
  ASSUME PoolAssumption, IInv, [Next]_vars
  PROVE  IInv'
<1>1. CASE UNCHANGED vars
  <2> USE <1>1 DEF vars, pool, users
  <2>1. PCTypes' /\ LockInv' /\ FlagTypes'
    BY DEF IInv, PCTypes, LockInv, FlagTypes
  <2>2. CountInv' /\ LifeInv'
    BY DEF IInv, CountInv, Counted, Registered, LifeInv
  <2>3. LoopsInv'
    BY DEF IInv, LoopsInv, LoopTypes, LoopInv, SavedInv, InLoop, Position, Begin, Remain
  <2>4. TasksInv'
    <3>1. Queue' = Queue /\ Working' = Working /\ Known' = Known
      BY DEF Queue, Working, Known, Busy
    <3>2. \A s : OldTask(s)' <=> OldTask(s)
      BY DEF OldTask, InLoop
    <3>3. TaskTypes' /\ PlacesInv'
      BY <3>1 DEF IInv, TasksInv, TaskTypes, PlacesInv
    <3> QED
      BY <3>1, <3>2, <3>3 DEF IInv, TasksInv
  <2> QED
    BY <2>1, <2>2, <2>3, <2>4 DEF IInv
<1>2. CASE Next /\ ~UNCHANGED vars
  <2>1. PICK t \in Threads : Step(t)
    BY <1>2, Steps
  <2>2. PCTypes'
    BY <1>2, PCTypesKept DEF IInv
  <2> QED
    BY <2>1, <2>2, LocksKept, CountsKept, LifeKept, LoopsKept, TasksKept, FlagsKept DEF IInv
<1> QED
  BY <1>1, <1>2

\* The inductive invariant holds in every behaviour.
LEMMA Invariant ==
  ASSUME PoolAssumption
  PROVE  SafeSpec => []IInv
<1>1. Init => IInv
  BY InitIInv
<1>2. IInv /\ [Next]_vars => IInv'
  BY StepIInv
<1> QED
  BY <1>1, <1>2, PTL DEF SafeSpec
-----------------------------------------------------------------------------
\* The invariant implies the properties.

\* It has the types of TypeOK, with narrower sets.
LEMMA InvariantTypes ==
  ASSUME PoolAssumption, IInv
  PROVE  TypeOK
<1>1. num_running = Cardinality(Counted) /\ num_runners \in 0..N /\ N \in Nat
  BY CountTypes DEF IInv, CountInv
<1>2. Tasks \subseteq AnyTask
  BY TasksAreTasks
<1>3. /\ tasks \in Seq(Tasks) /\ task \in [Runners -> Tasks] /\ finished \subseteq Tasks
      /\ LoopTypes /\ \A u \in Users : LoopInv(u)
  BY DEF IInv, TasksInv, TaskTypes, LoopsInv
<1>4. tasks \in Seq(AnyTask)
  BY <1>2, <1>3
<1>5. task \in [Runners -> AnyTask] /\ finished \subseteq AnyTask
  BY <1>2, <1>3
<1>6. loop \in [Users -> [limit : Nat, ind : Nat, cap : Nat, b : Nat]]
  <2>1. 0..MaxLimit \subseteq Nat /\ 0..N \subseteq Nat
    BY <1>1 DEF PoolAssumption
  <2>2. [limit : 0..MaxLimit, ind : Nat, cap : 0..N, b : Nat]
          \subseteq [limit : Nat, ind : Nat, cap : Nat, b : Nat]
    BY <2>1
  <2> QED
    BY <1>3, <2>2 DEF LoopTypes
<1>7. ASSUME NEW u \in Users
      PROVE  saved[u] \subseteq AnyTask /\ loop[u].b <= loop[u].cap /\ calls[u] \in 0..MaxCalls[u]
  BY <1>2, <1>3, <1>7 DEF LoopTypes, LoopInv, PoolAssumption
<1>8. PCTypes /\ LockInv /\ FlagTypes
  BY DEF IInv
<1> QED
  BY <1>1, <1>4, <1>5, <1>6, <1>7, <1>8 DEF TypeOK, PCTypes, LockInv, FlagTypes

\* It implies EachIndexOnce: a loop that is over stands at its limit.
LEMMA InvariantIndices ==
  ASSUME PoolAssumption, IInv
  PROVE  EachIndexOnce
<1>1. SUFFICES ASSUME NEW u \in Users, pc[u] = "outer", loop[u].ind >= loop[u].limit
      PROVE  /\ \A k \in 0..loop[u].limit - 1 :
                  Cardinality({s \in saved[u] : s.begin <= k /\ k < s.end}) = 1
             /\ \A s \in saved[u] : s.end <= loop[u].limit
  BY DEF EachIndexOnce
<1>2. CountInv /\ LoopTypes /\ LoopInv(u) /\ SavedInv(u)
  BY DEF IInv, LoopsInv
<1>3. InLoop(u) /\ loop[u].limit # 0
  BY <1>1, <1>2 DEF LoopInv, InLoop
<1>4. Position(u) = loop[u].limit /\ loop[u].limit \in Nat
  BY <1>1, <1>2, <1>3, Begins DEF Position
<1>5. ASSUME NEW k \in 0..loop[u].limit - 1
      PROVE  Cardinality({s \in saved[u] : s.begin <= k /\ k < s.end}) = 1
  <2>1. PICK s \in saved[u] : Covers(s, k) /\ \A other \in saved[u] : Covers(other, k) => other = s
    BY <1>2, <1>3, <1>4 DEF SavedInv
  <2>2. {other \in saved[u] : other.begin <= k /\ k < other.end} = {s}
    BY <2>1 DEF Covers
  <2> QED
    BY <2>2, FS_Singleton
<1>6. \A s \in saved[u] : s.end <= loop[u].limit
  BY <1>2, <1>3, <1>4 DEF SavedInv
<1> QED
  BY <1>5, <1>6
-----------------------------------------------------------------------------
\* Every variable has its type, and the counters of the pool count the threads
\* they are for, whatever the threads do.
THEOREM TypeCorrect ==
  ASSUME PoolAssumption
  PROVE  SafeSpec => []TypeOK
<1>1. IInv => TypeOK
  BY InvariantTypes
<1> QED
  BY <1>1, Invariant, PTL

\* parallelize_for() hands out every index below its limit once and no other,
\* for every number of threads and every limit.
THEOREM IndicesOnce ==
  ASSUME PoolAssumption
  PROVE  SafeSpec => []EachIndexOnce
<1>1. IInv => EachIndexOnce
  BY InvariantIndices
<1> QED
  BY <1>1, Invariant, PTL

\* With at least one thread in the pool, no wake-up of Runner() and wait() is
\* lost: a queue with a task in it has a thread that will look or notify.
THEOREM WakeupsKept ==
  ASSUME PoolAssumption, Runners # {}
  PROVE  SafeSpec => []NoLostWakeup
<1>1. Init => IInv /\ NoLostWakeup
  BY InitIInv
<1>2. IInv /\ NoLostWakeup /\ [Next]_vars => NoLostWakeup'
  <2>1. SUFFICES ASSUME IInv, NoLostWakeup, [Next]_vars
        PROVE  NoLostWakeup'
    OBVIOUS
  <2>2. CASE UNCHANGED vars
    BY <2>1, <2>2 DEF vars, NoLostWakeup
  <2>3. CASE Next /\ ~UNCHANGED vars
    <3>1. PICK t \in Threads : Step(t)
      BY <2>3, Steps
    <3> QED
      BY <2>1, <3>1, WakeKept DEF IInv
  <2> QED
    BY <2>1, <2>2, <2>3
<1> QED
  BY <1>1, <1>2, Invariant, PTL DEF SafeSpec

\* The pool keeps its promise: every behaviour of the threads, the condition
\* variables and the users is one of TaskPool's.
THEOREM PromiseKept ==
  ASSUME PoolAssumption, Runners # {}
  PROVE  SafeSpec => KeepsPromise
<1>1. Init => Promise!Init
  <2>1. SUFFICES ASSUME Init
        PROVE  Promise!Init
    OBVIOUS
  <2>2. Working = {} /\ pc[Owner] = "ctor"
    BY <2>1 DEF Init, Working, PoolAssumption
  <2> QED
    BY <2>1, <2>2 DEF Init, Promise!Init
<1>2. IInv /\ [Next]_vars => [Promise!Next]_(Promise!vars)
  <2>1. SUFFICES ASSUME IInv, [Next]_vars
        PROVE  Promise!Next \/ UNCHANGED Promise!vars
    OBVIOUS
  <2>2. CASE UNCHANGED vars
    BY <2>2 DEF vars, Working, Promise!vars
  <2>3. CASE Next /\ ~UNCHANGED vars
    <3>1. PICK t \in Threads : Step(t)
      BY <2>3, Steps
    <3> QED
      BY <2>1, <3>1, PromiseStep DEF IInv
  <2> QED
    BY <2>1, <2>2, <2>3
<1> QED
  BY <1>1, <1>2, Invariant, PTL DEF SafeSpec, KeepsPromise, Promise!Spec
=============================================================================
