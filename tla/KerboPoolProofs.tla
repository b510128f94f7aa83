--------------------------- MODULE KerboPoolProofs ---------------------------
(***************************************************************************)
(* The strings of KerboPool for any number of threads, pools, keys and any *)
(* size of a pool, if no two threads share a pool: no pool is overrun,     *)
(* what is stored outside of pool 0 stays intact, and the pools but pool 0 *)
(* do not leak.                                                            *)
(***************************************************************************)
EXTENDS KerboPool, SharedFacts

\* The code numbers its threads from 0 and a pool is shared only if there are
\* more threads than Stride.
PoolsApart == \A t, u \in ThreadIDs : t # u => PoolsOf(t) \cap PoolsOf(u) = {}
-----------------------------------------------------------------------------
\* The invariant.

Labels == {"idle", "search", "begin", "allocate", "fill", "find", "insert", "destroy", "free", "gone",
           "terminated"}

TypeInv ==
  /\ TypeOK
  /\ pc \in [ThreadIDs -> Labels]
  /\ key \in [ThreadIDs -> Keys]

EndOf(s) == s.offset + s.length

\* A thread's string is in one of its own pools, and the last one there: until
\* Allocate() has moved the end of the pool behind it, and after Free() has
\* moved it back, the pool ends where the string begins.
StringInv == \A t \in ThreadIDs :
  /\ string[t].pool # 0 => string[t].pool \in PoolsOf(t)
  /\ pc[t] \in {"idle", "search", "begin"} => string[t] = Empty
  /\ pc[t] \in {"allocate", "fill", "find", "insert"} => string[t].length = KeyLength[key[t]]
  /\ (pc[t] \in {"allocate", "gone"} /\ string[t].pool # 0) =>
       cap[string[t].pool] = string[t].offset
  /\ (pc[t] \in {"fill", "find", "insert", "destroy", "free"} /\ string[t].pool # 0) =>
       cap[string[t].pool] = EndOf(string[t])

\* A pool in which a thread has seen room is its own and still has the room:
\* only the thread itself moves the end of it, or in pool 0 the destructor of
\* an empty string, which sets it to 0.
RoomInv == \A t \in ThreadIDs :
  /\ string[t] # Empty => string[t].pool \in PoolsOf(t)
  /\ pc[t] \in {"search", "begin"} => pool[t] \in PoolsOf(t)
  /\ pc[t] = "begin" => cap[pool[t]] + KeyLength[key[t]] <= PoolSize

\* The bytes of a string that is to be stored.
FilledInv == \A t \in ThreadIDs :
  (pc[t] \in {"find", "insert"} /\ string[t].pool # 0) => Says(string[t], key[t])

\* Stored strings end before the pool does and before a string in the making.
BelowInv == \A e \in lore : e.string.pool # 0 =>
  /\ EndOf(e.string) <= cap[e.string.pool]
  /\ \A t \in ThreadIDs : string[t].pool = e.string.pool => EndOf(e.string) <= string[t].offset

\* Stored strings have bytes of their own.
ApartInv == \A e, f \in lore :
  (e # f /\ e.string.pool # 0 /\ e.string.pool = f.string.pool) =>
    \/ EndOf(e.string) <= f.string.offset
    \/ EndOf(f.string) <= e.string.offset

\* They fill their pool up to a string in the making.
FullInv == \A p \in Pools \ {0} : \A n \in 0..cap[p] - 1 :
  (\A t \in ThreadIDs : string[t].pool = p => n < string[t].offset) =>
    \E e \in lore : e.string.pool = p /\ n \in PlacesOf(e.string)

IInv ==
  /\ TypeInv
  /\ StringInv
  /\ RoomInv
  /\ FilledInv
  /\ BelowInv
  /\ ApartInv
  /\ FullInv
  /\ IntactElsewhere
-----------------------------------------------------------------------------
\* Types.

\* An offset within the pool is what it is modulo the size of the pool.
LEMMA OffsetWithin ==
  ASSUME NEW m \in Nat \ {0}, NEW n \in 0..m - 1
  PROVE  n % m = n
<1> QED
  OBVIOUS

\* Initially every variable has its type.
LEMMA InitTypes == Init => TypeInv
<1> SUFFICES ASSUME Init
             PROVE  TypeInv
  OBVIOUS
<1>1. cap \in [Pools -> 0..PoolSize] /\ bytes \in [Pools -> [0..PoolSize - 1 -> Keys \cup {NoBytes}]]
  BY PoolAssumption DEF Init
<1>2. string \in [ThreadIDs -> Strings] /\ \A t \in ThreadIDs : EndOf(string[t]) <= PoolSize
  BY PoolAssumption DEF Init, Empty, Strings, EndOf, Pools
<1>6. pool \in [ThreadIDs -> Pools]
  BY PoolAssumption DEF Init
<1>3. key \in [ThreadIDs -> Keys]
  BY PoolAssumption DEF Init
<1>4. pc \in [ThreadIDs -> Labels]
  BY DEF Init, Labels
<1>5. lore \subseteq [string : Strings, key : Keys]
  BY DEF Init
<1> QED
  BY <1>1, <1>2, <1>3, <1>4, <1>5, <1>6 DEF TypeInv, TypeOK, EndOf

\* A string within its pool keeps its offset when it is packed into m_data.
LEMMA FillLeavesStrings ==
  ASSUME TypeInv, StringInv, NEW t \in ThreadIDs, Fill(t)
  PROVE  string' = string
<1>1. string \in [ThreadIDs -> Strings]
  BY DEF TypeInv, TypeOK
<1>2. string[t].length \in 1..PoolSize /\ PoolSize \in Nat \ {0}
  BY PoolAssumption DEF Fill, StringInv, TypeInv
<1>3. string[t].offset \in 0..PoolSize - 1
  BY <1>1, <1>2 DEF TypeInv, TypeOK, Strings
<1>4. string[t].offset % PoolSize = string[t].offset
  BY <1>2, <1>3, OffsetWithin
<1> QED
  BY <1>1, <1>4 DEF Fill, Strings

\* Every step keeps the types; a string begins where there is room for it.
LEMMA TypesKept ==
  ASSUME TypeInv, StringInv, RoomInv, [Next]_vars
  PROVE  TypeInv'
<1> USE DEF TypeInv, TypeOK, Labels, GoTo
<1> SUFFICES ASSUME NEW t \in ThreadIDs, Thread(t)
             PROVE  TypeInv'
  BY DEF Next, vars
<1>1. CASE Construct(t)
  <2>1. t \in Pools
    BY PoolAssumption
  <2> QED
    BY <1>1, <2>1 DEF Construct
<1>2. CASE FindRoom(t)
  BY <1>2 DEF FindRoom
<1>3. CASE NextPool(t)
  BY <1>3 DEF NextPool
<1>4. CASE OutOfMemory(t)
  BY <1>4 DEF OutOfMemory
<1>5. CASE Begin(t)
  <2> DEFINE p == pool[t]
             len == KeyLength[key[t]]
  <2>1. p \in Pools /\ cap[p] + len <= PoolSize
    BY <1>5 DEF Begin, RoomInv
  <2>2. len \in 1..PoolSize /\ PoolSize \in Nat
    BY PoolAssumption
  <2>3. string' = [string EXCEPT ![t] = [pool |-> p, offset |-> cap[p], length |-> len]]
    BY <1>5 DEF Begin
  <2> HIDE DEF p, len
  <2>4. [pool |-> p, offset |-> cap[p], length |-> len] \in Strings
    BY <2>1, <2>2 DEF Strings
  <2>5. string' \in [ThreadIDs -> Strings]
    BY <2>3, <2>4
  <2>6. \A u \in ThreadIDs : string'[u].offset + string'[u].length <= PoolSize
    BY <2>1, <2>3
  <2> QED
    BY <1>5, <2>5, <2>6 DEF Begin
<1>6. CASE Allocate(t)
  <2>1. string[t].offset + string[t].length \in 0..PoolSize
    BY PoolAssumption DEF Strings
  <2> QED
    BY <1>6, <2>1 DEF Allocate
<1>7. CASE Fill(t)
  <2>1. string[t].pool \in Pools
    BY DEF Strings
  <2>2. string' = string
    BY <1>7, FillLeavesStrings
  <2> QED
    BY <1>7, <2>1, <2>2 DEF Fill
<1>8. CASE Find(t)
  BY <1>8 DEF Find
<1>9. CASE Insert(t)
  <2>1. Empty \in Strings /\ Empty.offset + Empty.length <= PoolSize
    BY PoolAssumption DEF Empty, Strings, Pools
  <2>2. [string |-> string[t], key |-> key[t]] \in [string : Strings, key : Keys]
    OBVIOUS
  <2>3. lore' \subseteq [string : Strings, key : Keys]
    BY <1>9, <2>2 DEF Insert
  <2>4. string' \in [ThreadIDs -> Strings]
    BY <1>9, <2>1 DEF Insert
  <2>5. \A u \in ThreadIDs : string'[u].offset + string'[u].length <= PoolSize
    BY <1>9, <2>1 DEF Insert
  <2> QED
    BY <1>9, <2>3, <2>4, <2>5 DEF Insert
<1>10. CASE Destroy(t)
  BY <1>10 DEF Destroy
<1>11. CASE Free(t)
  <2>1. string[t].offset \in 0..PoolSize
    BY PoolAssumption DEF Strings
  <2> QED
    BY <1>11, <2>1 DEF Free
<1>12. CASE Gone(t)
  <2>1. Empty \in Strings /\ Empty.offset + Empty.length <= PoolSize
    BY PoolAssumption DEF Empty, Strings, Pools
  <2> QED
    BY <1>12, <2>1 DEF Gone
<1> QED
  BY <1>1, <1>2, <1>3, <1>4, <1>5, <1>6, <1>7, <1>8, <1>9, <1>10, <1>11, <1>12 DEF Thread
-----------------------------------------------------------------------------
\* The invariant holds.

\* Numbers below Stride give the threads pools of their own.
LEMMA FewThreadsArePoolsApart ==
  ASSUME ThreadIDs \subseteq 0..Stride - 1
  PROVE  PoolsApart
<1> SUFFICES ASSUME NEW t \in ThreadIDs, NEW u \in ThreadIDs, NEW p \in PoolsOf(t),
                    p \in PoolsOf(u)
             PROVE  t = u
  BY DEF PoolsApart
<1> DEFINE a == (p - t) \div Stride
           b == (p - u) \div Stride
<1>1. Stride \in Nat \ {0} /\ t \in 0..Stride - 1 /\ u \in 0..Stride - 1 /\ p \in Nat
  BY PoolAssumption DEF PoolsOf, Pools
<1>2. (p - t) % Stride = 0 /\ (p - u) % Stride = 0 /\ p - t \in Nat /\ p - u \in Nat
  BY <1>1 DEF PoolsOf
<1>3. a \in Int /\ b \in Int /\ p - t = Stride * a /\ p - u = Stride * b
  BY <1>1, <1>2
<1> HIDE DEF a, b
<1>4. Stride * (a - b) = u - t
  BY <1>1, <1>3
<1>5. a - b >= 1 => Stride * (a - b) >= Stride
  BY <1>1, <1>3
<1>6. a - b <= -1 => Stride * (a - b) <= - Stride
  BY <1>1, <1>3
<1>7. a - b = 0
  BY <1>1, <1>3, <1>4, <1>5, <1>6
<1> QED
  BY <1>1, <1>3, <1>7

LEMMA InitIInv == Init => IInv
<1> SUFFICES ASSUME Init
             PROVE  IInv
  OBVIOUS
<1>1. TypeInv
  BY InitTypes
<1>2. \A t \in ThreadIDs : string[t] = Empty /\ pc[t] = "idle"
  BY DEF Init
<1>3. lore = {} /\ \A p \in Pools : cap[p] = 0
  BY DEF Init
<1>4. StringInv /\ FilledInv /\ RoomInv
  BY <1>2 DEF StringInv, FilledInv, RoomInv, Empty
<1>5. BelowInv /\ ApartInv /\ IntactElsewhere
  BY <1>3 DEF BelowInv, ApartInv, IntactElsewhere
<1>6. FullInv
  BY <1>3 DEF FullInv
<1> QED
  BY <1>1, <1>4, <1>5, <1>6 DEF IInv

\* Outside of pool 0 no two threads have a string in the same pool.
LEMMA AloneInPool ==
  ASSUME PoolsApart, StringInv, NEW t \in ThreadIDs, NEW u \in ThreadIDs, t # u,
         string[t].pool # 0
  PROVE  string[u].pool # string[t].pool
<1> QED
  BY DEF PoolsApart, StringInv

\* What is known of a string from its type.
LEMMA StringType ==
  ASSUME TypeInv, NEW s \in Strings
  PROVE  /\ s.pool \in Pools /\ s.pool \in Nat
         /\ s.offset \in Nat /\ s.length \in Nat
         /\ cap[s.pool] \in Nat /\ PoolSize \in Nat
<1> QED
  BY PoolAssumption DEF TypeInv, TypeOK, Strings, Pools

\* The parts of the invariant that tell of stored strings survive a step that
\* leaves the stored strings, the bytes, the ends of the pools and the strings
\* of the threads alone.
LEMMA StoresKept ==
  ASSUME IInv, UNCHANGED <<cap, bytes, string, lore>>
  PROVE  BelowInv' /\ ApartInv' /\ FullInv' /\ IntactElsewhere'
<1>1. BelowInv'
  BY DEF IInv, BelowInv, EndOf
<1>2. ApartInv'
  BY DEF IInv, ApartInv, EndOf
<1>3. FullInv'
  BY DEF IInv, FullInv, PlacesOf
<1>4. IntactElsewhere'
  BY DEF IInv, IntactElsewhere, Says, PlacesOf
<1> QED
  BY <1>1, <1>2, <1>3, <1>4

\* The pool after the next Stride - 1 ones is the thread's own again.
LEMMA NextPoolOwn ==
  ASSUME NEW t \in ThreadIDs, NEW p \in PoolsOf(t), p + Stride \in Pools
  PROVE  p + Stride \in PoolsOf(t)
<1> DEFINE a == (p - t) \div Stride
           b == (p + Stride - t) \div Stride
           r == (p + Stride - t) % Stride
<1>1. Stride \in Nat \ {0} /\ t \in Nat /\ p \in Nat /\ p - t \in Nat /\ (p - t) % Stride = 0
  BY PoolAssumption DEF PoolsOf, Pools
<1>2. a \in Int /\ p - t = Stride * a
  BY <1>1
<1>3. b \in Int /\ r \in 0..Stride - 1 /\ p + Stride - t = Stride * b + r
  BY <1>1
<1> HIDE DEF a, b, r
<1>4. r = Stride * (a + 1 - b)
  BY <1>1, <1>2, <1>3
<1>5. a + 1 - b >= 1 => Stride * (a + 1 - b) >= Stride
  BY <1>1, <1>2, <1>3
<1>6. a + 1 - b <= -1 => Stride * (a + 1 - b) <= - Stride
  BY <1>1, <1>2, <1>3
<1>7. a + 1 - b = 0
  BY <1>1, <1>2, <1>3, <1>4, <1>5, <1>6
<1>8. r = 0
  BY <1>1, <1>4, <1>7
<1> QED
  BY <1>1, <1>8 DEF PoolsOf, r

\* Every thread's first pool is one of its own.
LEMMA FirstPoolOwn ==
  ASSUME NEW t \in ThreadIDs
  PROVE  t \in PoolsOf(t)
<1>1. t \in Pools /\ t - t = 0 /\ 0 % Stride = 0 /\ t >= t
  BY PoolAssumption, OffsetWithin DEF Pools
<1> QED
  BY <1>1 DEF PoolsOf

\* The room that a thread has seen is still there when it begins its string.
LEMMA RoomKept ==
  ASSUME PoolsApart, IInv, [Next]_vars
  PROVE  RoomInv'
<1> USE DEF GoTo
<1>1. /\ string \in [ThreadIDs -> Strings] /\ pc \in [ThreadIDs -> Labels]
      /\ key \in [ThreadIDs -> Keys] /\ pool \in [ThreadIDs -> Pools]
      /\ cap \in [Pools -> 0..PoolSize]
      /\ PoolSize \in Nat /\ \A k \in Keys : KeyLength[k] \in 1..PoolSize
  BY PoolAssumption DEF IInv, TypeInv, TypeOK
<1> SUFFICES ASSUME NEW t \in ThreadIDs, Thread(t), NEW u \in ThreadIDs
             PROVE  RoomInv!(u)'
  <2>1. UNCHANGED vars => RoomInv'
    BY DEF IInv, RoomInv, vars
  <2> QED
    BY <2>1 DEF Next, RoomInv
<1>2. CASE u # t
  <2>1. /\ string'[u] = string[u] /\ key'[u] = key[u] /\ pool'[u] = pool[u]
        /\ pc'[u] = pc[u] \/ pc'[u] = "terminated"
    BY <1>1, <1>2 DEF Thread, Construct, FindRoom, NextPool, OutOfMemory, Begin, Allocate, Fill,
         Find, Insert, Destroy, Free, Gone
  <2>2. ASSUME pc[u] = "begin"
        PROVE  cap'[pool[u]] <= cap[pool[u]]
    <3>1. pool[u] \in PoolsOf(u) /\ pool[u] \in Pools /\ cap[pool[u]] \in Nat
      BY <1>1, <2>2 DEF IInv, RoomInv
    <3>2. CASE Allocate(t)
      <4>1. string[t].pool \in PoolsOf(t)
        <5>1. string[t].length # 0
          BY <1>1, <3>2 DEF Allocate, IInv, StringInv
        <5> QED
          BY <5>1 DEF IInv, RoomInv, Empty
      <4>2. string[t].pool # pool[u]
        BY <1>2, <3>1, <4>1 DEF PoolsApart
      <4> QED
        BY <1>1, <3>1, <3>2, <4>2 DEF Allocate
    <3>3. CASE Free(t)
      <4>1. CASE string[t] = Empty
        <5>1. cap' = [cap EXCEPT ![0] = 0]
          BY <3>3, <4>1 DEF Free, Empty
        <5> QED
          BY <1>1, <3>1, <5>1
      <4>2. CASE string[t] # Empty
        <5>1. string[t].pool # pool[u]
          BY <1>2, <3>1, <4>2 DEF IInv, RoomInv, PoolsApart
        <5> QED
          BY <1>1, <3>1, <3>3, <5>1 DEF Free
      <4> QED
        BY <4>1, <4>2
    <3>4. CASE ~Allocate(t) /\ ~Free(t)
      <4>1. cap' = cap
        BY <3>4 DEF Thread, Construct, FindRoom, NextPool, OutOfMemory, Begin, Fill,
             Find, Insert, Destroy, Gone
      <4> QED
        BY <3>1, <4>1
    <3> QED
      BY <3>2, <3>3, <3>4
  <2>3. ASSUME pc[u] = "begin"
        PROVE  cap'[pool[u]] + KeyLength[key[u]] <= PoolSize
    <3>1. /\ cap[pool[u]] + KeyLength[key[u]] <= PoolSize
          /\ cap[pool[u]] \in Nat /\ KeyLength[key[u]] \in Nat
      BY <1>1, <2>3 DEF IInv, RoomInv
    <3>2. cap'[pool[u]] <= cap[pool[u]]
      BY <2>2, <2>3
    <3>3. cap'[pool[u]] \in Int
      BY <1>1, TypesKept DEF Next, IInv, TypeInv, TypeOK
    <3> QED
      BY <1>1, <3>1, <3>2, <3>3
  <2> QED
    BY <2>1, <2>3 DEF IInv, RoomInv
<1>3. CASE u = t
  <2>1. CASE Construct(t)
    <3>1. string'[t] = string[t] /\ pool'[t] = t /\ pc'[t] = "search"
      BY <1>1, <2>1 DEF Construct
    <3> QED
      BY <1>3, <3>1, FirstPoolOwn DEF IInv, RoomInv
  <2>2. CASE FindRoom(t)
    <3>1. /\ UNCHANGED <<string, cap, key, pool>> /\ pc[t] = "search" /\ pc'[t] = "begin"
          /\ HasRoom(pool[t], KeyLength[key[t]])
      BY <1>1, <2>2 DEF FindRoom
    <3>2. cap[pool[t]] + KeyLength[key[t]] <= PoolSize
      BY <1>1, <3>1 DEF HasRoom
    <3> QED
      BY <1>3, <3>1, <3>2 DEF IInv, RoomInv
  <2>3. CASE NextPool(t)
    <3>1. /\ UNCHANGED <<string, cap, key, pc>> /\ pc[t] = "search"
          /\ pool'[t] = pool[t] + Stride /\ pool[t] + Stride \in Pools
      BY <1>1, <2>3 DEF NextPool
    <3>2. pool[t] \in PoolsOf(t)
      BY <3>1 DEF IInv, RoomInv
    <3>3. pool'[t] \in PoolsOf(t)
      BY <3>1, <3>2, NextPoolOwn
    <3> QED
      BY <1>3, <3>1, <3>3 DEF IInv, RoomInv
  <2>4. CASE Begin(t)
    <3>1. string'[t].pool = pool[t] /\ pc'[t] = "allocate" /\ pc[t] = "begin"
      BY <1>1, <2>4 DEF Begin
    <3> QED
      BY <1>3, <3>1 DEF IInv, RoomInv
  <2>5. CASE Insert(t) \/ Gone(t)
    <3>1. string'[t] \in {Empty, string[t]} /\ pc'[t] \in {"destroy", "idle"}
      BY <1>1, <2>5 DEF Insert, Gone
    <3> QED
      BY <1>3, <3>1 DEF IInv, RoomInv
  <2>6. CASE \/ OutOfMemory(t) \/ Allocate(t) \/ Fill(t) \/ Find(t)
             \/ Destroy(t) \/ Free(t)
    <3>1. pc'[t] \notin {"search", "begin"}
      BY <1>1, <2>6 DEF OutOfMemory, Allocate, Fill, Find, Destroy, Free
    <3>2. string'[t] = string[t]
      BY <2>6, FillLeavesStrings DEF OutOfMemory, Allocate, Find, Destroy, Free, IInv
    <3> QED
      BY <1>3, <3>1, <3>2 DEF IInv, RoomInv
  <2> QED
    BY <2>1, <2>2, <2>3, <2>4, <2>5, <2>6 DEF Thread
<1> QED
  BY <1>2, <1>3

\* The search for room, and its end without any, touch no string.
LEMMA SearchKeeps ==
  ASSUME IInv, TypeInv', RoomInv', NEW t \in ThreadIDs,
         Construct(t) \/ FindRoom(t) \/ NextPool(t) \/ OutOfMemory(t)
  PROVE  IInv'
<1> USE DEF GoTo
<1>1. UNCHANGED <<cap, bytes, string, lore>> /\ string[t] = Empty
  BY DEF Construct, FindRoom, NextPool, OutOfMemory, IInv, StringInv
<1>2. pc'[t] \in {"search", "begin", "terminated"}
  BY DEF Construct, FindRoom, NextPool, OutOfMemory, IInv, TypeInv
<1>3. \A u \in ThreadIDs : u # t =>
        key'[u] = key[u] /\ (pc'[u] = pc[u] \/ pc'[u] = "terminated")
  BY DEF Construct, FindRoom, NextPool, OutOfMemory, IInv, TypeInv
<1>4. string[t].pool = 0
  BY <1>1 DEF Empty
<1>5. StringInv'
  <2> SUFFICES ASSUME NEW u \in ThreadIDs
               PROVE  StringInv!(u)'
    BY DEF StringInv
  <2>1. CASE u = t
    BY <1>1, <1>2, <1>4, <2>1
  <2>2. CASE u # t
    BY <1>1, <1>3, <2>2 DEF IInv, StringInv, EndOf
  <2> QED
    BY <2>1, <2>2
<1>6. FilledInv'
  <2> SUFFICES ASSUME NEW u \in ThreadIDs
               PROVE  FilledInv!(u)'
    BY DEF FilledInv
  <2>1. CASE u = t
    BY <1>2, <2>1
  <2>2. CASE u # t
    BY <1>1, <1>3, <2>2 DEF IInv, FilledInv, Says, PlacesOf
  <2> QED
    BY <2>1, <2>2
<1> QED
  BY <1>1, <1>5, <1>6, StoresKept DEF IInv

\* Begin: the new string begins where its pool ends.
LEMMA BeginKeeps ==
  ASSUME PoolsApart, IInv, TypeInv', RoomInv', NEW t \in ThreadIDs, Begin(t)
  PROVE  IInv'
<1> USE DEF GoTo
<1> DEFINE p == pool[t]
           k == key[t]
<1>1. p \in PoolsOf(t)
  BY DEF Begin, IInv, RoomInv
<1>2. string' = [string EXCEPT ![t] =
                  [pool |-> p, offset |-> cap[p], length |-> KeyLength[k]]]
  BY DEF Begin
<1> HIDE DEF p, k
<1>3. /\ string \in [ThreadIDs -> Strings] /\ pc \in [ThreadIDs -> Labels]
      /\ lore \subseteq [string : Strings, key : Keys]
  BY DEF IInv, TypeInv, TypeOK
<1>4. UNCHANGED <<cap, bytes, key, lore>>
  BY DEF Begin
<1>5. /\ string'[t].pool = p /\ string'[t].offset = cap[p] /\ string'[t].length = KeyLength[k]
      /\ key'[t] = k /\ pc'[t] = "allocate"
  BY <1>2, <1>3, <1>4 DEF Begin, k
<1>6. \A u \in ThreadIDs : u # t => string'[u] = string[u] /\ pc'[u] = pc[u]
  BY <1>2, <1>3 DEF Begin
<1>8. string[t].pool = 0
  BY DEF Begin, IInv, StringInv, Empty
<1>9. StringInv'
  <2> SUFFICES ASSUME NEW u \in ThreadIDs
               PROVE  StringInv!(u)'
    BY DEF StringInv
  <2>1. CASE u = t
    BY <1>1, <1>4, <1>5, <2>1
  <2>2. CASE u # t
    BY <1>4, <1>6, <2>2 DEF IInv, StringInv, EndOf
  <2> QED
    BY <2>1, <2>2
<1>10. FilledInv'
  <2> SUFFICES ASSUME NEW u \in ThreadIDs
               PROVE  FilledInv!(u)'
    BY DEF FilledInv
  <2>1. CASE u = t
    BY <1>5, <2>1
  <2>2. CASE u # t
    BY <1>4, <1>6, <2>2 DEF IInv, FilledInv, Says, PlacesOf
  <2> QED
    BY <2>1, <2>2
<1>11. BelowInv'
  <2> SUFFICES ASSUME NEW e \in lore, e.string.pool # 0, NEW u \in ThreadIDs
               PROVE  /\ EndOf(e.string) <= cap[e.string.pool]
                      /\ string'[u].pool = e.string.pool =>
                           EndOf(e.string) <= string'[u].offset
    BY <1>4 DEF BelowInv, EndOf
  <2>1. CASE u = t
    BY <1>5, <2>1 DEF IInv, BelowInv
  <2>2. CASE u # t
    BY <1>6, <2>2 DEF IInv, BelowInv
  <2> QED
    BY <2>1, <2>2
<1>12. ApartInv' /\ IntactElsewhere'
  BY <1>4 DEF IInv, ApartInv, IntactElsewhere, Says, PlacesOf, EndOf
<1>13. FullInv'
  <2> SUFFICES ASSUME NEW q \in Pools \ {0}, NEW n \in 0..cap[q] - 1,
                      \A u \in ThreadIDs : string'[u].pool = q => n < string'[u].offset
               PROVE  \E e \in lore : e.string.pool = q /\ n \in PlacesOf(e.string)
    BY <1>4 DEF FullInv, PlacesOf
  <2>1. \A u \in ThreadIDs : string[u].pool = q => n < string[u].offset
    BY <1>6, <1>8
  <2> QED
    BY <2>1 DEF IInv, FullInv
<1> QED
  BY <1>9, <1>10, <1>11, <1>12, <1>13 DEF IInv

\* Allocate: the pool ends behind the string.
LEMMA AllocateKeeps ==
  ASSUME PoolsApart, IInv, NEW t \in ThreadIDs, Allocate(t), TypeInv', RoomInv'
  PROVE  IInv'
<1> USE DEF GoTo
<1> DEFINE s == string[t]
           p == s.pool
<1>1. /\ string \in [ThreadIDs -> Strings] /\ pc \in [ThreadIDs -> Labels]
      /\ lore \subseteq [string : Strings, key : Keys] /\ cap \in [Pools -> 0..PoolSize]
  BY DEF IInv, TypeInv, TypeOK
<1>2. /\ s \in Strings /\ p \in Pools /\ s.offset \in Nat /\ s.length \in Nat
      /\ cap[p] \in Nat
  BY <1>1, StringType DEF IInv
<1>3. UNCHANGED <<bytes, key, string, lore>> /\ pc[t] = "allocate" /\ pc'[t] = "fill"
  BY <1>1 DEF Allocate
<1>4. cap'[p] = EndOf(s) /\ \A q \in Pools : q # p => cap'[q] = cap[q]
  BY <1>1, <1>2 DEF Allocate, EndOf
<1>5. \A u \in ThreadIDs : u # t => pc'[u] = pc[u]
  BY <1>1 DEF Allocate
<1>6. p # 0 => p \in PoolsOf(t) /\ cap[p] = s.offset
  BY <1>3 DEF IInv, StringInv
<1>7. s.length = KeyLength[key[t]]
  BY <1>3 DEF IInv, StringInv
<1> HIDE DEF s, p
<1>8. p = string[t].pool /\ s = string[t]
  BY DEF s, p
<1>9. StringInv'
  <2> SUFFICES ASSUME NEW u \in ThreadIDs
               PROVE  StringInv!(u)'
    BY DEF StringInv
  <2>1. CASE u = t
    BY <1>3, <1>4, <1>6, <1>7, <1>8, <2>1 DEF EndOf
  <2>2. CASE u # t
    <3>1. string[u].pool # 0 => cap'[string[u].pool] = cap[string[u].pool]
      BY <1>1, <1>4, <1>8, <2>2, AloneInPool DEF IInv, Strings
    <3> QED
      BY <1>3, <1>5, <2>2, <3>1 DEF IInv, StringInv, EndOf
  <2> QED
    BY <2>1, <2>2
<1>10. FilledInv'
  <2> SUFFICES ASSUME NEW u \in ThreadIDs
               PROVE  FilledInv!(u)'
    BY DEF FilledInv
  <2> QED
    BY <1>3, <1>5 DEF IInv, FilledInv, Says, PlacesOf
<1>11. BelowInv'
  <2> SUFFICES ASSUME NEW e \in lore, e.string.pool # 0
               PROVE  EndOf(e.string) <= cap'[e.string.pool]
    BY <1>3 DEF IInv, BelowInv, EndOf
  <2>1. e.string \in Strings /\ e.string.pool \in Pools /\ EndOf(e.string) \in Nat
    BY <1>1, StringType DEF IInv, Strings, EndOf
  <2>2. EndOf(e.string) <= cap[e.string.pool]
    BY DEF IInv, BelowInv
  <2>3. CASE e.string.pool = p
    BY <1>2, <1>4, <1>6, <2>1, <2>2, <2>3 DEF EndOf
  <2>4. CASE e.string.pool # p
    BY <1>4, <2>1, <2>2, <2>4
  <2> QED
    BY <2>3, <2>4
<1>12. ApartInv' /\ IntactElsewhere'
  BY <1>3 DEF IInv, ApartInv, IntactElsewhere, Says, PlacesOf, EndOf
<1>13. FullInv'
  <2> SUFFICES ASSUME NEW q \in Pools \ {0}, NEW n \in 0..cap'[q] - 1,
                      \A u \in ThreadIDs : string[u].pool = q => n < string[u].offset
               PROVE  \E e \in lore : e.string.pool = q /\ n \in PlacesOf(e.string)
    BY <1>3 DEF FullInv, PlacesOf
  <2>1. n \in 0..cap[q] - 1
    <3>1. CASE q = p
      BY <1>2, <1>6, <1>8, <3>1
    <3>2. CASE q # p
      BY <1>4, <3>2
    <3> QED
      BY <3>1, <3>2
  <2> QED
    BY <2>1 DEF IInv, FullInv
<1> QED
  BY <1>9, <1>10, <1>11, <1>12, <1>13 DEF IInv

\* Fill: the bytes that are written are those of no stored string.
LEMMA FillKeeps ==
  ASSUME PoolsApart, IInv, NEW t \in ThreadIDs, Fill(t), TypeInv', RoomInv'
  PROVE  IInv'
<1> USE DEF GoTo
<1> DEFINE s == string[t]
           p == s.pool
<1>1. /\ string \in [ThreadIDs -> Strings] /\ pc \in [ThreadIDs -> Labels]
      /\ lore \subseteq [string : Strings, key : Keys]
      /\ bytes \in [Pools -> [0..PoolSize - 1 -> Keys \cup {NoBytes}]]
      /\ \A u \in ThreadIDs : string[u].offset + string[u].length <= PoolSize
  BY DEF IInv, TypeInv, TypeOK
<1>2. /\ s \in Strings /\ p \in Pools /\ s.offset \in Nat /\ s.length \in Nat
      /\ PoolSize \in Nat
  BY <1>1, StringType DEF IInv
<1>3. UNCHANGED <<cap, key, string, lore>> /\ pc[t] = "fill" /\ pc'[t] = "find"
  BY <1>1, FillLeavesStrings DEF Fill, IInv
<1>4. \A u \in ThreadIDs : u # t => pc'[u] = pc[u]
  BY <1>1 DEF Fill
<1>5. \A q \in Pools : q # p => bytes'[q] = bytes[q]
  BY <1>1 DEF Fill
<1>6. \A n \in 0..PoolSize - 1 :
        bytes'[p][n] = IF n \in PlacesOf(s) THEN key[t] ELSE bytes[p][n]
  BY <1>1, <1>2 DEF Fill
<1>7. s.length = KeyLength[key[t]]
  BY <1>3 DEF IInv, StringInv
<1> HIDE DEF s, p
<1>8. p = string[t].pool /\ s = string[t]
  BY DEF s, p
<1>9. StringInv'
  BY <1>3, <1>4 DEF IInv, StringInv, EndOf
<1>10. FilledInv'
  <2> SUFFICES ASSUME NEW u \in ThreadIDs
               PROVE  FilledInv!(u)'
    BY DEF FilledInv
  <2>1. CASE u = t
    <3>1. \A n \in PlacesOf(s) : n \in 0..PoolSize - 1
      BY <1>1, <1>2, <1>8 DEF PlacesOf
    <3>2. \A n \in PlacesOf(s) : bytes'[p][n] = key[t]
      BY <1>6, <3>1
    <3>3. string'[t] = s /\ key'[t] = key[t] /\ s.offset + s.length <= PoolSize
      BY <1>1, <1>3, <1>8
    <3>4. /\ string'[t].length = KeyLength[key'[t]]
          /\ string'[t].offset + string'[t].length <= PoolSize
          /\ \A n \in PlacesOf(string'[t]) : bytes'[string'[t].pool][n] = key'[t]
      BY <1>7, <1>8, <3>2, <3>3
    <3>5. Says(string[t], key[t])'
      BY <3>4 DEF Says, PlacesOf
    <3> QED
      BY <2>1, <3>5
  <2>2. CASE u # t
    <3> SUFFICES ASSUME pc'[u] \in {"find", "insert"}, string'[u].pool # 0
                 PROVE  Says(string[u], key[u])'
      BY <1>3
    <3>1. string[u].pool # p /\ string[u].pool \in Pools
      BY <1>1, <1>3, <1>8, <2>2, AloneInPool DEF IInv, Strings
    <3>2. Says(string[u], key[u])
      BY <1>3, <1>4, <2>2 DEF IInv, FilledInv
    <3>3. bytes'[string[u].pool] = bytes[string[u].pool]
      BY <1>5, <3>1
    <3> QED
      BY <1>3, <3>2, <3>3 DEF Says, PlacesOf
  <2> QED
    BY <2>1, <2>2
<1>11. BelowInv' /\ ApartInv' /\ FullInv'
  BY <1>3 DEF IInv, BelowInv, ApartInv, FullInv, PlacesOf, EndOf
<1>12. IntactElsewhere'
  <2> SUFFICES ASSUME NEW e \in lore, e.string.pool # 0
               PROVE  Says(e.string, e.key)'
    BY <1>3 DEF IntactElsewhere
  <2>1. Says(e.string, e.key)
    BY DEF IInv, IntactElsewhere
  <2>2. /\ e.string \in Strings /\ e.string.pool \in Pools
        /\ e.string.offset \in Nat /\ e.string.length \in Nat
    BY <1>1, StringType DEF IInv
  <2>3. CASE e.string.pool = p
    <3>1. EndOf(e.string) <= s.offset
      BY <1>8, <2>3 DEF IInv, BelowInv
    <3>2. \A n \in PlacesOf(e.string) : n \notin PlacesOf(s) /\ n \in 0..PoolSize - 1
      BY <1>1, <1>2, <1>8, <2>2, <3>1 DEF PlacesOf, EndOf
    <3>3. \A n \in PlacesOf(e.string) : bytes'[p][n] = bytes[p][n]
      BY <1>6, <3>2
    <3> QED
      BY <2>1, <2>3, <3>3 DEF Says, PlacesOf
  <2>4. CASE e.string.pool # p
    <3>1. bytes'[e.string.pool] = bytes[e.string.pool]
      BY <1>5, <2>2, <2>4
    <3> QED
      BY <2>1, <3>1 DEF Says, PlacesOf
  <2> QED
    BY <2>3, <2>4
<1> QED
  BY <1>9, <1>10, <1>11, <1>12 DEF IInv

\* Find only reads.
LEMMA FindKeeps ==
  ASSUME IInv, NEW t \in ThreadIDs, Find(t), TypeInv', RoomInv'
  PROVE  IInv'
<1> USE DEF GoTo
<1>1. UNCHANGED <<cap, bytes, key, string, lore>>
  BY DEF Find
<1>2. pc[t] = "find" /\ pc'[t] \in {"destroy", "insert"}
  BY DEF Find, IInv, TypeInv
<1>3. \A u \in ThreadIDs : u # t => pc'[u] = pc[u]
  BY DEF Find, IInv, TypeInv
<1>4. StringInv'
  BY <1>1, <1>2, <1>3 DEF IInv, StringInv, EndOf
<1>5. FilledInv'
  BY <1>1, <1>2, <1>3 DEF IInv, FilledInv, Says, PlacesOf
<1> QED
  BY <1>1, <1>4, <1>5, StoresKept DEF IInv

\* Insert: the string moves into the store, which leaves the thread with an
\* empty one, or the store has one like it.
LEMMA InsertKeeps ==
  ASSUME PoolsApart, IInv, NEW t \in ThreadIDs, Insert(t), TypeInv', RoomInv'
  PROVE  IInv'
<1> USE DEF GoTo
<1>1. /\ string \in [ThreadIDs -> Strings] /\ pc \in [ThreadIDs -> Labels]
      /\ lore \subseteq [string : Strings, key : Keys] /\ key \in [ThreadIDs -> Keys]
  BY DEF IInv, TypeInv, TypeOK
<1>2. UNCHANGED <<cap, bytes, key>> /\ pc[t] = "insert" /\ pc'[t] = "destroy"
  BY <1>1 DEF Insert
<1>3. \A u \in ThreadIDs : u # t => pc'[u] = pc[u]
  BY <1>1 DEF Insert
<1>4. CASE UNCHANGED <<string, lore>>
  <2>1. StringInv'
    BY <1>2, <1>3, <1>4 DEF IInv, StringInv, EndOf
  <2>2. FilledInv'
    BY <1>2, <1>3, <1>4 DEF IInv, FilledInv, Says, PlacesOf
  <2> QED
    BY <1>2, <1>4, <2>1, <2>2, StoresKept DEF IInv
<1>5. CASE ~ UNCHANGED <<string, lore>>
  <2> DEFINE s == string[t]
             p == s.pool
             f == [string |-> s, key |-> key[t]]
  <2>1. lore' = lore \cup {f} /\ string' = [string EXCEPT ![t] = Empty]
    BY <1>5 DEF Insert
  <2>2. /\ s \in Strings /\ p \in Pools /\ s.offset \in Nat /\ s.length \in Nat
        /\ cap[p] \in Nat
    BY <1>1, StringType DEF IInv
  <2>3. f.string = s /\ f.key = key[t]
    OBVIOUS
  <2> HIDE DEF f
  <2>4. p # 0 => p \in PoolsOf(t) /\ cap[p] = EndOf(s) /\ Says(s, key[t])
    BY <1>2 DEF IInv, StringInv, FilledInv
  <2>5. string'[t] = Empty /\ \A u \in ThreadIDs : u # t => string'[u] = string[u]
    BY <1>1, <2>1
  <2>6. string'[t].pool = 0
    BY <2>5 DEF Empty
  <2>7. StringInv'
    <3> SUFFICES ASSUME NEW u \in ThreadIDs
                 PROVE  StringInv!(u)'
      BY DEF StringInv
    <3>1. CASE u = t
      BY <1>2, <2>6, <3>1
    <3>2. CASE u # t
      BY <1>2, <1>3, <2>5, <3>2 DEF IInv, StringInv, EndOf
    <3> QED
      BY <3>1, <3>2
  <2>8. FilledInv'
    <3> SUFFICES ASSUME NEW u \in ThreadIDs
                 PROVE  FilledInv!(u)'
      BY DEF FilledInv
    <3>1. CASE u = t
      BY <1>2, <3>1
    <3>2. CASE u # t
      BY <1>2, <1>3, <2>5, <3>2 DEF IInv, FilledInv, Says, PlacesOf
    <3> QED
      BY <3>1, <3>2
  <2>9. BelowInv'
    <3> SUFFICES ASSUME NEW e \in lore \cup {f}, e.string.pool # 0
                 PROVE  /\ EndOf(e.string) <= cap[e.string.pool]
                        /\ \A u \in ThreadIDs : string'[u].pool = e.string.pool =>
                             EndOf(e.string) <= string'[u].offset
      BY <1>2, <2>1 DEF BelowInv, EndOf
    <3>1. CASE e \in lore
      BY <2>5, <2>6, <3>1 DEF IInv, BelowInv
    <3>2. CASE e = f
      <4>1. EndOf(s) <= cap[p]
        BY <2>2, <2>3, <2>4, <3>2
      <4>2. \A u \in ThreadIDs : string'[u].pool # p
        BY <2>3, <2>5, <2>6, <3>2, AloneInPool DEF IInv
      <4> QED
        BY <2>3, <3>2, <4>1, <4>2
    <3> QED
      BY <3>1, <3>2
  <2>10. ApartInv'
    <3> SUFFICES ASSUME NEW e \in lore \cup {f}, NEW g \in lore \cup {f}, e # g,
                        e.string.pool # 0, e.string.pool = g.string.pool
                 PROVE  \/ EndOf(e.string) <= g.string.offset
                        \/ EndOf(g.string) <= e.string.offset
      BY <2>1 DEF ApartInv, EndOf
    <3>1. CASE e \in lore /\ g \in lore
      BY <3>1 DEF IInv, ApartInv
    <3>2. CASE e \in lore /\ g = f
      BY <2>3, <3>2 DEF IInv, BelowInv
    <3>3. CASE e = f /\ g \in lore
      BY <2>3, <3>3 DEF IInv, BelowInv
    <3> QED
      BY <3>1, <3>2, <3>3
  <2>11. FullInv'
    <3> SUFFICES ASSUME NEW q \in Pools \ {0}, NEW n \in 0..cap[q] - 1,
                        \A u \in ThreadIDs : string'[u].pool = q => n < string'[u].offset
                 PROVE  \E e \in lore \cup {f} : e.string.pool = q /\ n \in PlacesOf(e.string)
      BY <1>2, <2>1 DEF FullInv, PlacesOf
    <3>1. CASE \A u \in ThreadIDs : string[u].pool = q => n < string[u].offset
      BY <3>1 DEF IInv, FullInv
    <3>2. CASE ~ \A u \in ThreadIDs : string[u].pool = q => n < string[u].offset
      <4>1. PICK u \in ThreadIDs : string[u].pool = q /\ ~ (n < string[u].offset)
        BY <3>2
      <4>2. u = t
        BY <2>5, <4>1
      <4>3. q = p /\ n >= s.offset /\ n < EndOf(s)
        BY <2>2, <2>4, <4>1, <4>2
      <4>4. n \in PlacesOf(s)
        BY <2>2, <4>3 DEF PlacesOf, EndOf
      <4> QED
        BY <2>3, <4>3, <4>4
    <3> QED
      BY <3>1, <3>2
  <2>12. IntactElsewhere'
    <3> SUFFICES ASSUME NEW e \in lore \cup {f}, e.string.pool # 0
                 PROVE  Says(e.string, e.key)
      BY <1>2, <2>1 DEF IntactElsewhere, Says, PlacesOf
    <3>1. CASE e \in lore
      BY <3>1 DEF IInv, IntactElsewhere
    <3>2. CASE e = f
      BY <2>3, <2>4, <3>2
    <3> QED
      BY <3>1, <3>2
  <2> QED
    BY <2>7, <2>8, <2>9, <2>10, <2>11, <2>12 DEF IInv
<1> QED
  BY <1>4, <1>5

\* Destroy only compares: outside of pool 0 the string is the last of its pool.
LEMMA DestroyKeeps ==
  ASSUME IInv, NEW t \in ThreadIDs, Destroy(t), TypeInv', RoomInv'
  PROVE  IInv'
<1> USE DEF GoTo
<1>1. UNCHANGED <<cap, bytes, key, string, lore>>
  BY DEF Destroy
<1>2. pc[t] = "destroy" /\ pc'[t] = IF IsLast(string[t]) THEN "free" ELSE "gone"
  BY DEF Destroy, IInv, TypeInv
<1>3. \A u \in ThreadIDs : u # t => pc'[u] = pc[u]
  BY DEF Destroy, IInv, TypeInv
<1>4. string[t].pool # 0 => cap[string[t].pool] = EndOf(string[t]) /\ pc'[t] = "free"
  BY <1>2 DEF IInv, StringInv, IsLast, EndOf
<1>5. StringInv'
  <2> SUFFICES ASSUME NEW u \in ThreadIDs
               PROVE  StringInv!(u)'
    BY DEF StringInv
  <2>1. CASE u = t
    BY <1>1, <1>2, <1>4, <2>1 DEF IInv, StringInv, EndOf
  <2>2. CASE u # t
    BY <1>1, <1>3, <2>2 DEF IInv, StringInv, EndOf
  <2> QED
    BY <2>1, <2>2
<1>6. FilledInv'
  BY <1>1, <1>2, <1>3 DEF IInv, FilledInv, Says, PlacesOf
<1> QED
  BY <1>1, <1>5, <1>6, StoresKept DEF IInv

\* Free: the pool ends again where the string begins, behind what is stored.
LEMMA FreeKeeps ==
  ASSUME PoolsApart, IInv, NEW t \in ThreadIDs, Free(t), TypeInv', RoomInv'
  PROVE  IInv'
<1> USE DEF GoTo
<1> DEFINE s == string[t]
           p == s.pool
<1>1. /\ string \in [ThreadIDs -> Strings] /\ pc \in [ThreadIDs -> Labels]
      /\ lore \subseteq [string : Strings, key : Keys] /\ cap \in [Pools -> 0..PoolSize]
  BY DEF IInv, TypeInv, TypeOK
<1>2. /\ s \in Strings /\ p \in Pools /\ s.offset \in Nat /\ s.length \in Nat
      /\ cap[p] \in Nat
  BY <1>1, StringType DEF IInv
<1>3. UNCHANGED <<bytes, key, string, lore>> /\ pc[t] = "free" /\ pc'[t] = "gone"
  BY <1>1 DEF Free
<1>4. cap'[p] = s.offset /\ \A q \in Pools : q # p => cap'[q] = cap[q]
  BY <1>1, <1>2 DEF Free
<1>5. \A u \in ThreadIDs : u # t => pc'[u] = pc[u]
  BY <1>1 DEF Free
<1>6. p # 0 => p \in PoolsOf(t) /\ cap[p] = EndOf(s)
  BY <1>3 DEF IInv, StringInv
<1> HIDE DEF s, p
<1>7. p = string[t].pool /\ s = string[t]
  BY DEF s, p
<1>8. StringInv'
  <2> SUFFICES ASSUME NEW u \in ThreadIDs
               PROVE  StringInv!(u)'
    BY DEF StringInv
  <2>1. CASE u = t
    BY <1>3, <1>4, <1>6, <1>7, <2>1
  <2>2. CASE u # t
    <3>1. string[u].pool # 0 => cap'[string[u].pool] = cap[string[u].pool]
      BY <1>1, <1>4, <1>7, <2>2, AloneInPool DEF IInv, Strings
    <3> QED
      BY <1>3, <1>5, <2>2, <3>1 DEF IInv, StringInv, EndOf
  <2> QED
    BY <2>1, <2>2
<1>9. FilledInv'
  BY <1>3, <1>5 DEF IInv, FilledInv, Says, PlacesOf
<1>10. BelowInv'
  <2> SUFFICES ASSUME NEW e \in lore, e.string.pool # 0
               PROVE  EndOf(e.string) <= cap'[e.string.pool]
    BY <1>3 DEF IInv, BelowInv, EndOf
  <2>1. e.string.pool \in Pools
    BY <1>1, StringType DEF IInv
  <2>2. EndOf(e.string) <= cap[e.string.pool]
    BY DEF IInv, BelowInv
  <2>3. CASE e.string.pool = p
    BY <1>4, <1>7, <2>3 DEF IInv, BelowInv
  <2>4. CASE e.string.pool # p
    BY <1>4, <2>1, <2>2, <2>4
  <2> QED
    BY <2>3, <2>4
<1>11. ApartInv' /\ IntactElsewhere'
  BY <1>3 DEF IInv, ApartInv, IntactElsewhere, Says, PlacesOf, EndOf
<1>12. FullInv'
  <2> SUFFICES ASSUME NEW q \in Pools \ {0}, NEW n \in 0..cap'[q] - 1,
                      \A u \in ThreadIDs : string[u].pool = q => n < string[u].offset
               PROVE  \E e \in lore : e.string.pool = q /\ n \in PlacesOf(e.string)
    BY <1>3 DEF FullInv, PlacesOf
  <2>1. n \in 0..cap[q] - 1
    <3>1. CASE q = p
      BY <1>2, <1>4, <1>6, <3>1 DEF EndOf
    <3>2. CASE q # p
      BY <1>4, <3>2
    <3> QED
      BY <3>1, <3>2
  <2> QED
    BY <2>1 DEF IInv, FullInv
<1> QED
  BY <1>8, <1>9, <1>10, <1>11, <1>12 DEF IInv

\* Gone: the string is empty, its pool ends where it began.
LEMMA GoneKeeps ==
  ASSUME IInv, NEW t \in ThreadIDs, Gone(t), TypeInv', RoomInv'
  PROVE  IInv'
<1> USE DEF GoTo
<1>1. /\ string \in [ThreadIDs -> Strings] /\ pc \in [ThreadIDs -> Labels]
      /\ cap \in [Pools -> 0..PoolSize]
  BY DEF IInv, TypeInv, TypeOK
<1>2. UNCHANGED <<cap, bytes, key, lore>> /\ pc[t] = "gone" /\ pc'[t] = "idle"
  BY <1>1 DEF Gone
<1>3. \A u \in ThreadIDs : u # t => pc'[u] = pc[u] /\ string'[u] = string[u]
  BY <1>1 DEF Gone
<1>4. string'[t] = Empty
  BY <1>1 DEF Gone
<1>5. string'[t].pool = 0
  BY <1>4 DEF Empty
<1>6. StringInv'
  <2> SUFFICES ASSUME NEW u \in ThreadIDs
               PROVE  StringInv!(u)'
    BY DEF StringInv
  <2>1. CASE u = t
    BY <1>2, <1>4, <1>5, <2>1
  <2>2. CASE u # t
    BY <1>2, <1>3, <2>2 DEF IInv, StringInv, EndOf
  <2> QED
    BY <2>1, <2>2
<1>7. FilledInv'
  <2> SUFFICES ASSUME NEW u \in ThreadIDs
               PROVE  FilledInv!(u)'
    BY DEF FilledInv
  <2>1. CASE u = t
    BY <1>2, <2>1
  <2>2. CASE u # t
    BY <1>2, <1>3, <2>2 DEF IInv, FilledInv, Says, PlacesOf
  <2> QED
    BY <2>1, <2>2
<1>8. BelowInv'
  BY <1>2, <1>3, <1>5 DEF IInv, BelowInv, EndOf
<1>9. ApartInv' /\ IntactElsewhere'
  BY <1>2 DEF IInv, ApartInv, IntactElsewhere, Says, PlacesOf, EndOf
<1>10. FullInv'
  <2> SUFFICES ASSUME NEW q \in Pools \ {0}, NEW n \in 0..cap[q] - 1,
                      \A u \in ThreadIDs : string'[u].pool = q => n < string'[u].offset
               PROVE  \E e \in lore : e.string.pool = q /\ n \in PlacesOf(e.string)
    BY <1>2 DEF FullInv, PlacesOf
  <2>1. string[t].pool = q => n < string[t].offset
    BY <1>1, <1>2 DEF IInv, StringInv
  <2>2. \A u \in ThreadIDs : string[u].pool = q => n < string[u].offset
    BY <1>3, <2>1
  <2> QED
    BY <2>2 DEF IInv, FullInv
<1> QED
  BY <1>6, <1>7, <1>8, <1>9, <1>10 DEF IInv

LEMMA IInvKept ==
  ASSUME PoolsApart, IInv, [Next]_vars
  PROVE  IInv'
<1>1. TypeInv' /\ RoomInv'
  BY TypesKept, RoomKept DEF IInv
<1>2. ASSUME NEW t \in ThreadIDs, Thread(t)
      PROVE  IInv'
  BY <1>1, <1>2, SearchKeeps, BeginKeeps, AllocateKeeps, FillKeeps, FindKeeps, InsertKeeps,
     DestroyKeeps, FreeKeeps, GoneKeeps DEF Thread
<1>3. ASSUME UNCHANGED vars
      PROVE  IInv'
  <2>1. UNCHANGED <<cap, bytes, string, lore>> /\ UNCHANGED <<pc, key>>
    BY <1>3 DEF vars
  <2>2. StringInv'
    BY <2>1 DEF IInv, StringInv, EndOf
  <2>3. FilledInv'
    BY <2>1 DEF IInv, FilledInv, Says, PlacesOf
  <2> QED
    BY <1>1, <2>1, <2>2, <2>3, StoresKept DEF IInv
<1> QED
  BY <1>2, <1>3 DEF Next

LEMMA Invariance ==
  ASSUME PoolsApart
  PROVE  Spec => []IInv
<1>1. IInv /\ [Next]_vars => IInv'
  BY IInvKept
<1> QED
  BY InitIInv, <1>1, PTL DEF Spec
-----------------------------------------------------------------------------
\* What follows from it.

\* The variables have their types, no pool is overrun and no string reaches
\* beyond its pool, if no two threads share a pool: though the room is seen in
\* one step and taken in two others, nobody takes it in between (TypeOK).
THEOREM TypeCorrect ==
  ASSUME PoolsApart
  PROVE  Spec => []TypeOK
<1>1. IInv => TypeOK
  BY DEF IInv, TypeInv
<1> QED
  BY <1>1, Invariance, PTL

\* No thread harms a stored string outside of pool 0, if no two threads share a
\* pool: the race of the destructors stays in pool 0 (IntactElsewhere).
THEOREM StoredElsewhereIntact ==
  ASSUME PoolsApart
  PROVE  Spec => []IntactElsewhere
<1>1. IInv => IntactElsewhere
  BY DEF IInv
<1> QED
  BY <1>1, Invariance, PTL

\* At most one stored string has a given byte outside of pool 0.
LEMMA OneAtMost ==
  ASSUME IInv, NEW p \in Pools \ {0}, NEW n \in Nat,
         NEW e \in StoredAt(p, n), NEW f \in StoredAt(p, n)
  PROVE  e = f
<1>1. /\ e.string.offset \in Nat /\ e.string.length \in Nat
      /\ f.string.offset \in Nat /\ f.string.length \in Nat
  BY StringType DEF IInv, TypeInv, TypeOK, StoredAt
<1>2. ~ (EndOf(e.string) <= f.string.offset \/ EndOf(f.string) <= e.string.offset)
  BY <1>1 DEF StoredAt, PlacesOf, EndOf
<1> QED
  BY <1>2 DEF IInv, ApartInv, StoredAt

\* Pools do not leak: what is in use between strings in the making is stored
\* once, if no two threads share a pool (NoLeak).
THEOREM PoolsDoNotLeak ==
  ASSUME PoolsApart
  PROVE  Spec => []NoLeak
<1>1. ASSUME IInv
      PROVE  NoLeak
  <2> SUFFICES ASSUME NEW t \in ThreadIDs, pc[t] = "idle", NEW p \in PoolsOf(t) \ {0}
               PROVE  /\ \A n \in 0..cap[p] - 1 : \E e \in lore : StoredAt(p, n) = {e}
                      /\ \A n \in cap[p]..PoolSize - 1 : StoredAt(p, n) = {}
    BY DEF NoLeak
  <2>1. p \in Pools \ {0} /\ cap[p] \in Nat /\ PoolSize \in Nat
    BY <1>1, PoolAssumption DEF PoolsOf, IInv, TypeInv, TypeOK
  <2>2. \A u \in ThreadIDs : string[u].pool # p
    <3>1. string[t].pool = 0
      BY <1>1 DEF IInv, StringInv, Empty
    <3>2. ASSUME NEW u \in ThreadIDs, string[u].pool = p
          PROVE  FALSE
      BY <1>1, <2>1, <3>1, <3>2 DEF IInv, StringInv, PoolsApart
    <3> QED
      BY <3>2
  <2>3. ASSUME NEW n \in 0..cap[p] - 1
        PROVE  \E e \in lore : StoredAt(p, n) = {e}
    <3>1. PICK e \in lore : e.string.pool = p /\ n \in PlacesOf(e.string)
      BY <1>1, <2>1, <2>2 DEF IInv, FullInv
    <3>2. e \in StoredAt(p, n)
      BY <3>1 DEF StoredAt
    <3>3. \A f \in StoredAt(p, n) : f = e
      BY <1>1, <2>1, <3>2, OneAtMost
    <3> QED
      BY <3>2, <3>3
  <2>4. ASSUME NEW n \in cap[p]..PoolSize - 1, NEW e \in StoredAt(p, n)
        PROVE  FALSE
    <3>1. e \in lore /\ e.string.pool = p /\ n \in PlacesOf(e.string)
      BY DEF StoredAt
    <3>2. e.string.offset \in Nat /\ e.string.length \in Nat
      BY <1>1, <3>1, StringType DEF IInv, TypeInv, TypeOK
    <3>3. EndOf(e.string) <= cap[p]
      BY <1>1, <2>1, <3>1 DEF IInv, BelowInv
    <3> QED
      BY <2>1, <3>1, <3>2, <3>3 DEF PlacesOf, EndOf
  <2> QED
    BY <2>3, <2>4
<1> QED
  BY <1>1, Invariance, PTL
=============================================================================
