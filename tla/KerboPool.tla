------------------------------ MODULE KerboPool ------------------------------
(***************************************************************************)
(* kerbostring.hh: the search keys are strings whose bytes live in pools.  *)
(* A thread allocates in the pool of its own number and, when that one is  *)
(* full, in every Stride-th pool after it; nothing is locked.  A string    *)
(* gives its bytes back only if they are the last ones of the pool.        *)
(*                                                                         *)
(* A "copy" of a string is a move: it leaves the string it copies empty,   *)
(* with all its bits 0.  An empty string is therefore pool 0, offset 0 and *)
(* length 0, and its destructor "frees" these no bytes in pool 0.          *)
(*                                                                         *)
(* The strings are used as SaveOrIgnoreResult() does, nandcombinator.cc:   *)
(* made, looked up twice, moved into the hash set of the lore if new, and  *)
(* destroyed.  The hash set is external: it finds a string with the same   *)
(* bytes if there is one.  cap is read and written in separate steps, as   *)
(* no lock or atomic keeps another thread from getting in between: once to *)
(* see whether there is room, once to learn where the string begins, and   *)
(* once to move the end of the pool.  (A compiler that reads it only once  *)
(* for the first two makes one of the executions there are here.)          *)
(***************************************************************************)
EXTENDS Integers, FiniteSets, FiniteSetsExt

CONSTANTS
  ThreadIDs,  \* KerboStringThreadID of the threads
  NumPools,   \* 2^PoolIndexBits
  Stride,     \* the distance to the next pool of a thread (8)
  PoolSize,   \* MaxLength
  Keys,       \* what the strings say
  KeyLength   \* KeyLength[k]: how long it is

Pools  == 0..NumPools - 1
Strings == [pool : Pools, offset : Nat, length : 0..PoolSize]
Empty  == [pool |-> 0, offset |-> 0, length |-> 0]

ASSUME PoolAssumption ==
  /\ NumPools \in Nat \ {0}
  /\ Stride \in Nat \ {0}
  /\ PoolSize \in Nat \ {0}
  /\ ThreadIDs \subseteq Pools
  /\ Keys # {}
  /\ KeyLength \in [Keys -> 1..PoolSize]

VARIABLES
  cap,     \* cap[p]: the bytes of pool p in use
  bytes,   \* bytes[p][n]: the key whose bytes are at offset n of pool p
  pc,      \* pc[t]: where thread t is
  key,     \* key[t]: what its string is to say
  pool,    \* pool[t]: the pool it looks at for room (pool_index)
  string,  \* string[t]: m_data of its string
  lore     \* the strings in the hash set, each with what it should say

vars == <<cap, bytes, pc, key, pool, string, lore>>

NoBytes == "none"

Init ==
  /\ cap = [p \in Pools |-> 0]
  /\ bytes = [p \in Pools |-> [n \in 0..PoolSize - 1 |-> NoBytes]]
  /\ pc = [t \in ThreadIDs |-> "idle"]
  /\ key \in [ThreadIDs -> {CHOOSE k \in Keys : TRUE}]
  /\ pool = [t \in ThreadIDs |-> t]
  /\ string = [t \in ThreadIDs |-> Empty]
  /\ lore = {}

GoTo(t, label) == pc' = [pc EXCEPT ![t] = label]

PlacesOf(s)  == s.offset..s.offset + s.length - 1
\* There are no bytes beyond the end of a pool: what is written there is lost.
Says(s, k)   == /\ s.length = KeyLength[k]
                /\ s.offset + s.length <= PoolSize
                /\ \A n \in PlacesOf(s) : bytes[s.pool][n] = k
Found(k)     == \E e \in lore : Says(e.string, k)

\* Off by one.
HasRoomForOneMore(p, len) == PoolSize - cap[p] < 0 \/ PoolSize - cap[p] + 1 >= len

\* SpaceFree() is unsigned: a pool that was overrun seems to have all the room.
HasRoom(p, len) == PoolSize - cap[p] < 0 \/ PoolSize - cap[p] >= len
-----------------------------------------------------------------------------
\* The constructor.

Construct(t) ==
  /\ pc[t] = "idle"
  /\ \E k \in Keys : key' = [key EXCEPT ![t] = k]
  /\ pool' = [pool EXCEPT ![t] = t]
  /\ GoTo(t, "search")
  /\ UNCHANGED <<cap, bytes, string, lore>>

FindRoom(t) ==
  /\ pc[t] = "search"
  /\ HasRoom(pool[t], KeyLength[key[t]])
  /\ GoTo(t, "begin")
  /\ UNCHANGED <<cap, bytes, key, pool, string, lore>>

NextPool(t) ==
  /\ pc[t] = "search"
  /\ ~HasRoom(pool[t], KeyLength[key[t]])
  /\ pool[t] + Stride \in Pools
  /\ pool' = [pool EXCEPT ![t] = @ + Stride]
  /\ UNCHANGED <<cap, bytes, pc, key, string, lore>>

\* "Out of memory": the string fits nowhere.  Nobody catches the exception,
\* which ends the program.
OutOfMemory(t) ==
  /\ pc[t] = "search"
  /\ ~HasRoom(pool[t], KeyLength[key[t]])
  /\ pool[t] + Stride \notin Pools
  /\ pc' = [u \in ThreadIDs |-> "terminated"]
  /\ UNCHANGED <<cap, bytes, key, pool, string, lore>>

\* Allocate() reads where the pool ends now ...
Begin(t) ==
  /\ pc[t] = "begin"
  /\ string' = [string EXCEPT ![t] =
       [pool |-> pool[t], offset |-> cap[pool[t]], length |-> KeyLength[key[t]]]]
  /\ GoTo(t, "allocate")
  /\ UNCHANGED <<cap, bytes, key, pool, lore>>

\* ... and moves the end.
Allocate(t) ==
  /\ pc[t] = "allocate"
  /\ cap' = [cap EXCEPT ![string[t].pool] = string[t].offset + string[t].length]
  /\ GoTo(t, "fill")
  /\ UNCHANGED <<bytes, key, pool, string, lore>>

\* m_data has room for an offset within the pool; the bytes go where they go.
Fill(t) ==
  /\ pc[t] = "fill"
  /\ bytes' = [bytes EXCEPT ![string[t].pool] =
                 [n \in DOMAIN @ |-> IF n \in PlacesOf(string[t]) THEN key[t] ELSE @[n]]]
  /\ string' = [string EXCEPT ![t].offset = @ % PoolSize]
  /\ GoTo(t, "find")
  /\ UNCHANGED <<cap, key, pool, lore>>
-----------------------------------------------------------------------------
\* The use of the string; the second look-up and the insertion are one step
\* under the exclusive lock.

Find(t) ==
  /\ pc[t] = "find"
  /\ GoTo(t, IF Found(key[t]) THEN "destroy" ELSE "insert")
  /\ UNCHANGED <<cap, bytes, key, pool, string, lore>>

\* A copy that is a copy: the string that was copied still owns the bytes.
InsertCopy(t) ==
  /\ pc[t] = "insert"
  /\ lore' = IF Found(key[t]) THEN lore
             ELSE lore \cup {[string |-> string[t], key |-> key[t]]}
  /\ GoTo(t, "destroy")
  /\ UNCHANGED <<cap, bytes, key, pool, string>>

Insert(t) ==
  /\ pc[t] = "insert"
  /\ IF Found(key[t])
     THEN UNCHANGED <<string, lore>>
     ELSE /\ lore' = lore \cup {[string |-> string[t], key |-> key[t]]}
          /\ string' = [string EXCEPT ![t] = Empty]
  /\ GoTo(t, "destroy")
  /\ UNCHANGED <<cap, bytes, key, pool>>
-----------------------------------------------------------------------------
\* The destructor: Free() compares and assigns.

\* Off by one.
IsLastByte(s) == s.offset + s.length = cap[s.pool] - 1

IsLast(s) == s.offset + s.length = cap[s.pool]

Destroy(t) ==
  /\ pc[t] = "destroy"
  /\ GoTo(t, IF IsLast(string[t]) THEN "free" ELSE "gone")
  /\ UNCHANGED <<cap, bytes, key, pool, string, lore>>

Free(t) ==
  /\ pc[t] = "free"
  /\ cap' = [cap EXCEPT ![string[t].pool] = string[t].offset]
  /\ GoTo(t, "gone")
  /\ UNCHANGED <<bytes, key, pool, string, lore>>

Gone(t) ==
  /\ pc[t] = "gone"
  /\ string' = [string EXCEPT ![t] = Empty]
  /\ GoTo(t, "idle")
  /\ UNCHANGED <<cap, bytes, key, pool, lore>>

Thread(t) ==
  \/ Construct(t) \/ FindRoom(t) \/ NextPool(t) \/ OutOfMemory(t) \/ Begin(t)
  \/ Allocate(t) \/ Fill(t) \/ Find(t) \/ Insert(t) \/ Destroy(t) \/ Free(t) \/ Gone(t)

Next == \E t \in ThreadIDs : Thread(t)

Spec == Init /\ [][Next]_vars
-----------------------------------------------------------------------------
\* Properties.

\* Every variable has its type; no pool is overrun and no string reaches beyond
\* its pool, though the room is seen and taken in separate steps.
TypeOK ==
  /\ cap \in [Pools -> 0..PoolSize]
  /\ bytes \in [Pools -> [0..PoolSize - 1 -> Keys \cup {NoBytes}]]
  /\ pool \in [ThreadIDs -> Pools]
  /\ string \in [ThreadIDs -> Strings]
  /\ \A t \in ThreadIDs : string[t].offset + string[t].length <= PoolSize
  /\ lore \subseteq [string : Strings, key : Keys]

\* A stored string keeps saying what it said, as one of std::string would:
\* nobody else gets its bytes.
StoredIntact == \A e \in lore : Says(e.string, e.key)

\* The race on pool 0, where the destructors of all threads meet, does no harm
\* to the strings in the other pools.
IntactElsewhere == \A e \in lore : e.string.pool # 0 => Says(e.string, e.key)

\* Pools do not leak: as every string that is not stored is the last one of its
\* pool when it is destroyed, an idle thread's pools hold its stored strings
\* and nothing else, and no byte twice.
PoolsOf(t)     == {p \in Pools : p >= t /\ (p - t) % Stride = 0}
StoredAt(p, n) == {e \in lore : e.string.pool = p /\ n \in PlacesOf(e.string)}

NoLeak == \A t \in ThreadIDs : pc[t] = "idle" =>
  \A p \in PoolsOf(t) \ {0} :
    /\ \A n \in 0..cap[p] - 1 : \E e \in lore : StoredAt(p, n) = {e}
    /\ \A n \in cap[p]..PoolSize - 1 : StoredAt(p, n) = {}
=============================================================================
