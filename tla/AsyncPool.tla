------------------------------ MODULE AsyncPool ------------------------------
(***************************************************************************)
(* async_task_pool, unused/async_pool.hh: a queue of tasks, threads that   *)
(* run them, and two condition variables.                                  *)
(*                                                                         *)
(* A section under the lock is one step that needs lock = NoThread, unless *)
(* it reads a variable that others write without the lock and then goes to *)
(* sleep: such a section is two steps, with the lock held in between.      *)
(*                                                                         *)
(* Users call run(), parallelize_for() and wait(); the owner constructs    *)
(* the pool before and destroys it after all others have used it.          *)
(***************************************************************************)
EXTENDS Naturals, Sequences, FiniteSets

CONSTANTS
  Runners,      \* threads: the threads of the pool
  Users,        \* the threads that use it
  Owner,        \* the user who constructs and destroys it
  Submitters,   \* the users that call run() and parallelize_for()
  Waiters,      \* those that call wait()
  Limits,       \* the limits given to parallelize_for()
  MaxLimit,     \* bound: the largest of them
  NoThread,
  MaxCalls,     \* bound: MaxCalls[u] calls of user u
  MaxSpurious   \* bound: wake-ups of a condition variable without a notification

\* N: the number of threads.
N == Cardinality(Runners)

\* The loop of parallelize_for() divides by N - 1.
ASSUME PoolAssumption ==
  /\ IsFiniteSet(Runners)
  /\ Owner \in Users /\ Submitters \subseteq Users /\ Waiters \subseteq Users
  /\ Runners \cap Users = {} /\ NoThread \notin Runners \cup Users
  /\ MaxLimit \in Nat \ {0} /\ Limits \subseteq 1..MaxLimit
  /\ MaxCalls \in [Users -> Nat] /\ MaxSpurious \in Nat
  /\ Limits # {} => N > 1

\* A task is named after the call that made it and the indices it covers;
\* that of run() covers index 0.
Task(u, call, begin, end) == [user |-> u, call |-> call, begin |-> begin, end |-> end]
Tasks ==
  UNION {[user: {u}, call: 0..MaxCalls[u], begin: 0..MaxLimit, end: 0..MaxLimit] : u \in Users}

VARIABLES
  lock,         \* the holder of lock, or NoThread
  num_running, num_runners, ending, waiting,
  tasks,        \* the queue
  task,         \* task[r]: the task that runner r has taken
  loop,         \* loop[u]: the variables of parallelize_for(); limit 0 outside of it
  saved,        \* saved[u]: its futures, as the tasks they stand for
  calls,        \* calls[u]: the calls of u so far
  finished,     \* the tasks whose future is ready
  spurious,     \* the wake-ups without a notification
  pc

pool  == <<num_running, num_runners, ending, waiting>>
users == <<loop, saved, calls>>
vars  == <<lock, pool, tasks, task, users, finished, spurious, pc>>

NoLoop == [limit |-> 0, ind |-> 0, cap |-> 0, b |-> 0]

Init ==
  /\ lock = NoThread
  /\ num_running = 0 /\ num_runners = 0
  /\ ending = FALSE /\ waiting = FALSE
  /\ tasks = << >>
  /\ task = [r \in Runners |-> Task(Owner, 0, 0, 0)]
  /\ loop = [u \in Users |-> NoLoop]
  /\ saved = [u \in Users |-> {}]
  /\ calls = [u \in Users |-> 0]
  /\ finished = {}
  /\ spurious = 0
  /\ pc = [t \in Runners \cup Users |->
             IF t = Owner THEN "ctor" ELSE IF t \in Users THEN "idle" ELSE "start"]

Goto(t, label) == pc' = [pc EXCEPT ![t] = label]

\* state_changed: a runner that is woken looks again, a user has a question
\* of its own to ask.
Asleep == {t \in Runners \cup Users : pc[t] = "asleep"}
Woken(t) == IF t \in Runners THEN "look" ELSE "woke"

\* t goes on at label, having notified one thread, if there is one.
NotifyOne(t, label) ==
  \/ Asleep = {} /\ Goto(t, label)
  \/ \E s \in Asleep : pc' = [pc EXCEPT ![t] = label, ![s] = Woken(s)]
NotifyAll(t, label) ==
  pc' = [s \in Runners \cup Users |->
           IF s = t THEN label ELSE IF s \in Asleep THEN Woken(s) ELSE pc[s]]

\* A condition variable may wake a thread for no reason.
SpuriousWake(t) ==
  /\ spurious < MaxSpurious
  /\ spurious' = spurious + 1
  /\ \/ t \in Asleep /\ Goto(t, Woken(t))
     \/ pc[t] = "unregistered" /\ Goto(t, IF ending THEN "closing" ELSE "ctor")
  /\ UNCHANGED <<lock, pool, tasks, task, users, finished>>
-----------------------------------------------------------------------------
\* Runner().

Register(r) ==
  /\ pc[r] = "start"
  /\ num_runners' = num_runners + 1
  /\ Goto(r, "look")
  /\ UNCHANGED <<lock, num_running, ending, waiting, tasks, task, users, finished, spurious>>

\* The return leaves num_runners as it is.
EndRunner(r) ==
  /\ pc[r] = "look" /\ lock = NoThread
  /\ tasks = << >> /\ ending
  /\ Goto(r, "ended")
  /\ UNCHANGED <<lock, pool, tasks, task, users, finished, spurious>>

\* Mutant of TakeTask: the thread is not counted.
TakeTaskUncounted(r) ==
  /\ pc[r] = "look" /\ lock = NoThread
  /\ tasks # << >> /\ num_running < N
  /\ task' = [task EXCEPT ![r] = Head(tasks)]
  /\ tasks' = Tail(tasks)
  /\ Goto(r, "task")
  /\ UNCHANGED <<lock, pool, users, finished, spurious>>

\* Mutant of TakeTask: the task stays in the queue until it has been run.
TakeTaskLater(r) ==
  /\ pc[r] = "look" /\ lock = NoThread
  /\ tasks # << >> /\ num_running < N
  /\ num_running' = num_running + 1
  /\ task' = [task EXCEPT ![r] = Head(tasks)]
  /\ Goto(r, "task")
  /\ UNCHANGED <<lock, num_runners, ending, waiting, tasks, users, finished, spurious>>

TakeTask(r) ==
  /\ pc[r] = "look" /\ lock = NoThread
  /\ tasks # << >> /\ num_running < N
  /\ num_running' = num_running + 1
  /\ task' = [task EXCEPT ![r] = Head(tasks)]
  /\ tasks' = Tail(tasks)
  /\ Goto(r, "task")
  /\ UNCHANGED <<lock, num_runners, ending, waiting, users, finished, spurious>>

\* Nothing to do: ending has been read, and the thread is not yet asleep.
Drowse(r) ==
  /\ pc[r] = "look" /\ lock = NoThread
  /\ IF tasks = << >> THEN ~ending ELSE num_running >= N
  /\ lock' = r
  /\ Goto(r, "drowsy")
  /\ UNCHANGED <<pool, tasks, task, users, finished, spurious>>

\* runner_registered.notify_all(); state_changed.wait(lk): only the owner
\* waits for runner_registered.
FallAsleep(r) ==
  /\ pc[r] = "drowsy"
  /\ lock' = NoThread
  /\ pc' = [pc EXCEPT ![r] = "asleep",
                      ![Owner] = IF @ = "unregistered"
                                 THEN IF ending THEN "closing" ELSE "ctor" ELSE @]
  /\ UNCHANGED <<pool, tasks, task, users, finished, spurious>>

Execute(r) ==
  /\ pc[r] = "task"
  /\ finished' = finished \cup {task[r]}
  /\ Goto(r, "done")
  /\ UNCHANGED <<lock, pool, tasks, task, users, spurious>>

CountDown(r) ==
  /\ pc[r] = "done" /\ lock = NoThread
  /\ num_running' = num_running - 1
  /\ Goto(r, "signal")
  /\ UNCHANGED <<lock, num_runners, ending, waiting, tasks, task, users, finished, spurious>>

\* waiting is read without the lock, before the notification.
ReadWaiting(r) ==
  /\ pc[r] = "signal"
  /\ Goto(r, IF waiting THEN "signal all" ELSE "signal one")
  /\ UNCHANGED <<lock, pool, tasks, task, users, finished, spurious>>

SignalOthers(r) ==
  /\ \/ pc[r] = "signal one" /\ NotifyOne(r, "look")
     \/ pc[r] = "signal all" /\ NotifyAll(r, "look")
  /\ UNCHANGED <<lock, pool, tasks, task, users, finished, spurious>>

Runner(r) ==
  \/ Register(r) \/ EndRunner(r) \/ TakeTask(r) \/ Drowse(r) \/ FallAsleep(r)
  \/ Execute(r) \/ CountDown(r) \/ ReadWaiting(r) \/ SignalOthers(r)
-----------------------------------------------------------------------------
\* run().

\* A user may call if the pool is there; calls count.
MayCall(u) ==
  /\ pc[u] = "idle" /\ calls[u] < MaxCalls[u]
  /\ pc[Owner] \notin {"ctor", "unaware", "unregistered"}
Call(u) == calls' = [calls EXCEPT ![u] = @ + 1]

\* Adding a task, up to lk.unlock().
Push(t) == lock = NoThread /\ tasks' = Append(tasks, t)

RunTask(u) ==
  /\ u \in Submitters /\ MayCall(u) /\ Call(u)
  /\ Push(Task(u, calls[u] + 1, 0, 1))
  /\ Goto(u, "pushed")
  /\ UNCHANGED <<lock, pool, task, loop, saved, finished, spurious>>

Pushed(u) ==
  /\ pc[u] = "pushed"
  /\ NotifyOne(u, IF loop[u].limit = 0 THEN "idle" ELSE "inner")
  /\ UNCHANGED <<lock, pool, tasks, task, users, finished, spurious>>

\* parallelize_for(): the outer loop takes a share of what remains, the inner
\* one cuts it into pieces.

ParallelizeFor(u, limit) ==
  /\ u \in Submitters /\ MayCall(u) /\ Call(u)
  /\ loop' = [loop EXCEPT ![u] = [NoLoop EXCEPT !.limit = limit]]
  /\ Goto(u, "outer")
  /\ UNCHANGED <<lock, pool, tasks, task, saved, finished, spurious>>

Remain(u) == loop[u].limit - loop[u].ind

\* Mutant of Share: the last indices are shared like the others.
ShareNeverAll(u) ==
  /\ pc[u] = "outer" /\ loop[u].ind < loop[u].limit
  /\ loop' = [loop EXCEPT ![u].b = 0, ![u].cap = N - 1]
  /\ Goto(u, "inner")
  /\ UNCHANGED <<lock, pool, tasks, task, saved, calls, finished, spurious>>

Share(u) ==
  /\ pc[u] = "outer" /\ loop[u].ind < loop[u].limit
  /\ loop' = [loop EXCEPT ![u].b = 0,
                ![u].cap = IF Remain(u) \div (N - 1) <= 2 THEN N ELSE N - 1]
  /\ Goto(u, "inner")
  /\ UNCHANGED <<lock, pool, tasks, task, saved, calls, finished, spurious>>

\* The first index of piece b.
Begin(u, b) == loop[u].ind + (b * Remain(u)) \div N

\* Mutant of Piece: every piece also takes the first index of the next one.
PieceOverlaps(u) ==
  LET here  == loop[u].b
      piece == Task(u, calls[u], Begin(u, here), Begin(u, here + 1) + 1) IN
  /\ pc[u] = "inner" /\ here < loop[u].cap
  /\ loop' = [loop EXCEPT ![u].b = here + 1]
  /\ IF piece.end > piece.begin
     THEN /\ Push(piece)
          /\ saved' = [saved EXCEPT ![u] = @ \cup {piece}]
          /\ Goto(u, "pushed")
     ELSE UNCHANGED <<tasks, saved, pc>>
  /\ UNCHANGED <<lock, pool, task, calls, finished, spurious>>

Piece(u) ==
  LET here  == loop[u].b
      piece == Task(u, calls[u], Begin(u, here), Begin(u, here + 1)) IN
  /\ pc[u] = "inner" /\ here < loop[u].cap
  /\ loop' = [loop EXCEPT ![u].b = here + 1]
  /\ IF piece.end > piece.begin
     THEN /\ Push(piece)
          /\ saved' = [saved EXCEPT ![u] = @ \cup {piece}]
          /\ Goto(u, "pushed")
     ELSE UNCHANGED <<tasks, saved, pc>>
  /\ UNCHANGED <<lock, pool, task, calls, finished, spurious>>

NextShare(u) ==
  /\ pc[u] = "inner" /\ loop[u].b = loop[u].cap
  /\ loop' = [loop EXCEPT ![u].ind = Begin(u, loop[u].cap)]
  /\ Goto(u, "outer")
  /\ UNCHANGED <<lock, pool, tasks, task, saved, calls, finished, spurious>>

\* wait_saved(): the futures, one after the other, which takes until the last
\* of them is ready.
WaitSaved(u) ==
  /\ pc[u] = "outer" /\ loop[u].ind >= loop[u].limit
  /\ saved[u] \subseteq finished
  /\ loop' = [loop EXCEPT ![u] = NoLoop]
  /\ saved' = [saved EXCEPT ![u] = {}]
  /\ Goto(u, "idle")
  /\ UNCHANGED <<lock, pool, tasks, task, calls, finished, spurious>>
-----------------------------------------------------------------------------
\* wait().

Wait(u) ==
  /\ u \in Waiters /\ MayCall(u) /\ Call(u)
  /\ waiting' = TRUE
  /\ Goto(u, "wait")
  /\ UNCHANGED <<lock, num_running, num_runners, ending, tasks, task, loop, saved>>
  /\ UNCHANGED <<finished, spurious>>

\* The queue is empty: wait() returns.
StopWaiting(u) ==
  /\ pc[u] \in {"wait", "woke"} /\ lock = NoThread /\ tasks = << >>
  /\ waiting' = FALSE
  /\ Goto(u, "idle")
  /\ UNCHANGED <<lock, num_running, num_runners, ending, tasks, task, users, finished, spurious>>

WaitForChange(u) ==
  /\ pc[u] = "wait" /\ lock = NoThread /\ tasks # << >>
  /\ Goto(u, "asleep")
  /\ UNCHANGED <<lock, pool, tasks, task, users, finished, spurious>>

\* Mutant of PassOn: the notification stays with the user.
PassOnNothing(u) ==
  /\ pc[u] = "woke" /\ lock = NoThread /\ tasks # << >>
  /\ Goto(u, "wait")
  /\ UNCHANGED <<lock, pool, tasks, task, users, finished, spurious>>

\* The notification may have been meant for a runner: it is passed on.
PassOn(u) ==
  /\ pc[u] = "woke" /\ lock = NoThread /\ tasks # << >>
  /\ Goto(u, "pass on")
  /\ UNCHANGED <<lock, pool, tasks, task, users, finished, spurious>>

PassedOn(u) ==
  /\ pc[u] = "pass on"
  /\ NotifyOne(u, "wait")
  /\ UNCHANGED <<lock, pool, tasks, task, users, finished, spurious>>

\* A user other than the owner is done with the pool.
Leave(u) ==
  /\ u # Owner /\ pc[u] = "idle" /\ pc[Owner] \notin {"ctor", "unaware", "unregistered"}
  /\ Goto(u, "left")
  /\ UNCHANGED <<lock, pool, tasks, task, users, finished, spurious>>

User(u) ==
  \/ RunTask(u) \/ Pushed(u)
  \/ \E limit \in Limits : ParallelizeFor(u, limit)
  \/ Share(u) \/ Piece(u) \/ NextShare(u) \/ WaitSaved(u)
  \/ Wait(u) \/ StopWaiting(u) \/ WaitForChange(u) \/ PassOn(u) \/ PassedOn(u)
  \/ Leave(u)
-----------------------------------------------------------------------------
\* The constructor and the destructor.

Destroy ==
  /\ pc[Owner] = "idle"
  /\ \A u \in Users \ {Owner} : pc[u] = "left"
  /\ ending' = TRUE
  /\ Goto(Owner, "closing")
  /\ UNCHANGED <<lock, num_running, num_runners, waiting, tasks, task, users, finished, spurious>>

\* while(num_runners < threads.size()) in both.
AllRegistered ==
  /\ pc[Owner] \in {"ctor", "closing"} /\ lock = NoThread
  /\ num_runners >= N
  /\ Goto(Owner, IF pc[Owner] = "ctor" THEN "idle" ELSE "announce")
  /\ UNCHANGED <<lock, pool, tasks, task, users, finished, spurious>>

NotAllRegistered ==
  /\ pc[Owner] \in {"ctor", "closing"} /\ lock = NoThread
  /\ num_runners < N
  /\ lock' = Owner
  /\ Goto(Owner, "unaware")
  /\ UNCHANGED <<pool, tasks, task, users, finished, spurious>>

AwaitRunner ==
  /\ pc[Owner] = "unaware"
  /\ lock' = NoThread
  /\ Goto(Owner, "unregistered")
  /\ UNCHANGED <<pool, tasks, task, users, finished, spurious>>

\* The lock guard is a temporary: the lock is taken and released at once.
Announce ==
  /\ pc[Owner] = "announce" /\ lock = NoThread
  /\ Goto(Owner, "notify")
  /\ UNCHANGED <<lock, pool, tasks, task, users, finished, spurious>>

NotifyEnding ==
  /\ pc[Owner] = "notify"
  /\ NotifyAll(Owner, "join")
  /\ UNCHANGED <<lock, pool, tasks, task, users, finished, spurious>>

\* join() returns for every thread.
Join ==
  /\ pc[Owner] = "join"
  /\ \A r \in Runners : pc[r] = "ended"
  /\ Goto(Owner, "destroyed")
  /\ UNCHANGED <<lock, pool, tasks, task, users, finished, spurious>>

Lifetime ==
  \/ Destroy \/ AllRegistered \/ NotAllRegistered \/ AwaitRunner
  \/ Announce \/ NotifyEnding \/ Join

Finished == pc[Owner] = "destroyed" /\ UNCHANGED vars

Next ==
  \/ \E r \in Runners : Runner(r)
  \/ \E u \in Users : User(u)
  \/ Lifetime
  \/ \E t \in Runners \cup Users : SpuriousWake(t)
  \/ Finished

SafeSpec == Init /\ [][Next]_vars

\* Every thread is scheduled; a user goes on, and at last leaves.
Spec ==
  /\ SafeSpec
  /\ \A r \in Runners : WF_vars(Runner(r))
  /\ \A u \in Users : WF_vars(User(u))
  /\ WF_vars(Lifetime)
-----------------------------------------------------------------------------
\* Properties.

AnyTask  == [user: Users, call: Nat, begin: Nat, end: Nat]
Working  == {r \in Runners : pc[r] = "task"}
Counted  == {r \in Runners : pc[r] \in {"task", "done"}}
RunnerPC == {"start", "look", "drowsy", "asleep", "task", "done", "signal", "signal one",
             "signal all", "ended"}
CallPC   == {"idle", "pushed", "outer", "inner", "wait", "asleep", "woke", "pass on"}
OwnerPC  == CallPC \cup {"ctor", "unaware", "unregistered", "closing", "announce", "notify",
                        "join", "destroyed"}

\* Every variable has its type, and the counters count what they are for.
TypeOK ==
  /\ lock \in {NoThread, Owner} \cup Runners
  /\ num_running = Cardinality(Counted)
  /\ num_runners \in 0..N
  /\ ending \in BOOLEAN /\ waiting \in BOOLEAN
  /\ tasks \in Seq(AnyTask)
  /\ task \in [Runners -> AnyTask]
  /\ loop \in [Users -> [limit: Nat, ind: Nat, cap: Nat, b: Nat]]
  /\ \A u \in Users : saved[u] \subseteq AnyTask /\ loop[u].b <= loop[u].cap
  /\ \A u \in Users : calls[u] \in 0..MaxCalls[u]
  /\ finished \subseteq AnyTask
  /\ spurious \in 0..MaxSpurious
  /\ \A r \in Runners : pc[r] \in RunnerPC
  /\ \A u \in Users \ {Owner} : pc[u] \in CallPC \cup {"left"}
  /\ pc[Owner] \in OwnerPC

\* No wake-up is lost: as long as there is a task in the queue, some thread is
\* awake that will take it or will notify another one.
NoLostWakeup ==
  tasks # << >> =>
    \/ \E r \in Runners : pc[r] \notin {"asleep", "drowsy", "ended"}
    \/ \E u \in Users : pc[u] \in {"pushed", "woke", "pass on"}

\* When the loops of parallelize_for() are over, every index below the limit
\* belongs to exactly one of the tasks they have made, and no other does.
EachIndexOnce ==
  \A u \in Users : pc[u] = "outer" /\ loop[u].ind >= loop[u].limit =>
    /\ \A k \in 0..loop[u].limit - 1 :
         Cardinality({t \in saved[u] : t.begin <= k /\ k < t.end}) = 1
    /\ \A t \in saved[u] : t.end <= loop[u].limit

\* The queue, the tasks at work and the finished ones are those of a pool as
\* TaskPool describes it: tasks start in order, once, at most N at a time, all
\* of them end, and the destructor returns only then.
Promise == INSTANCE TaskPool WITH
  Tasks    <- Tasks,
  Width    <- N,
  queued   <- tasks,
  running  <- {task[r] : r \in Working},
  finished <- finished,
  closed   <- pc[Owner] = "destroyed"
KeepsPromise == Promise!Spec

\* Every call returns, and so does the destructor.
Terminates == <>(pc[Owner] = "destroyed")
=============================================================================
