------------------------------ MODULE RadixTree ------------------------------
(***************************************************************************)
(* The lore as a byte trie (USE_RADIX_TREE): radixtree/RadixTree-Vector.hh *)
(* over radixtree/vectorstorage.* and radixtree/storage.hh, as it is used  *)
(* by SaveOrIgnoreResult() of nandcombinator.cc.                           *)
(*                                                                         *)
(* All trees keep their nodes in one VectorStorage, in which a node has a  *)
(* number, its ID.  The node read last is in the buffer Buf and is written *)
(* back when another one is read.  A link to a child is the distance from  *)
(* the ID of the parent; a node has as many bytes per link as its widest   *)
(* link needs.                                                             *)
(*                                                                         *)
(* A node is the sequence of its entries, with the width of their links; a *)
(* leaf has width 0 and numbers of gates for links.  A byte of a link has  *)
(* Base values instead of 256.                                             *)
(***************************************************************************)
EXTENDS Integers, Sequences, FiniteSets, SequencesExt

CONSTANTS
  Threads, NoThread,
  NumTrees,   \* the most trees there are, one for each number of outputs
  RealSize,   \* the number of tokens of a key
  Keys,       \* the keys: sequences of tokens
  Gates,      \* numbers of gates
  Base,       \* the number of values of a byte of a link
  MaxID,      \* bound: the number of nodes ever made
  MaxClears   \* bound: the calls of RadixTree::clear()

ASSUME RadixAssumption ==
  /\ IsFiniteSet(Threads) /\ NoThread \notin Threads
  /\ NumTrees \in Nat \ {0} /\ RealSize \in Nat \ {0}
  /\ Keys \subseteq [1..RealSize -> Nat] /\ Gates \subseteq Nat \ {0}
  /\ Base \in Nat \ {0, 1} /\ MaxID \in Nat /\ NumTrees <= MaxID
  /\ MaxClears \in Nat

Trees == 1..NumTrees
None  == 0  \* no number of gates

VARIABLES
  ID, used,              \* the next ID, the number of nodes that are not freed
  ptrs,                  \* ptrs[id]: where the node is
  storage, storage_size, \* storage[p]: the node that was written at position p
  holes,                 \* <<size, position>> of the places given up
  Buf, BufOwner,         \* the buffer: a node, and whether it has changed
  RootID, Size,          \* of each tree
  readers, writer,       \* io_lock: the shared holders, the exclusive one
  overlapped,            \* two look-ups have gone on at the same time
  clears,                \* the calls of clear() so far
  pc, at                 \* at[t]: what t is doing, and where in the tree

vectors == <<ID, used, ptrs, storage, storage_size, holes, Buf, BufOwner>>
trees   == <<RootID, Size>>
locks   == <<readers, writer, overlapped>>
vars    == <<vectors, trees, locks, clears, pc, at>>

Entry(token, link) == [token |-> token, link |-> link]
Empty == [width |-> 0, entries |-> << >>]

\* TokenSize and PayloadSize are 1.
Bytes(node) == IF node.width = 0 THEN 2 * Len(node.entries)
                                 ELSE 1 + (1 + node.width) * Len(node.entries)

\* Read by another thread's link, an ID may be out of range.
NoPtr == [Ptr |-> 0, Length |-> 0, AllocLength |-> 0]
PtrOf(id)  == IF id \in DOMAIN ptrs THEN ptrs[id] ELSE NoPtr
Stored(id) == IF PtrOf(id).Length = 0 THEN Empty ELSE storage[PtrOf(id).Ptr]

Nowhere == [op |-> "peek", tree |-> 1, key |-> [n \in 1..RealSize |-> 0], gates |-> None,
            cur |-> 0, level |-> 1, found |-> None]

\* The trees are constructed one after the other.
Init == \E n \in Trees :
  /\ ID = n /\ used = n
  /\ ptrs = [id \in 0..n - 1 |-> NoPtr]
  /\ storage = << >> /\ storage_size = 0 /\ holes = {}
  /\ Buf = [node |-> Empty, changed |-> FALSE] /\ BufOwner = 0
  /\ RootID = [tree \in 1..n |-> tree - 1] /\ Size = [tree \in 1..n |-> 0]
  /\ readers = {} /\ writer = NoThread /\ overlapped = FALSE
  /\ clears = 0
  /\ pc = [t \in Threads |-> "idle"]
  /\ at = [t \in Threads |-> Nowhere]
-----------------------------------------------------------------------------
\* VectorStorage.

\* Mutant of Reassign: the place given up is not filled before it is reused.
ReassignKeepsHole(id, node) ==
  LET v       == PtrOf(id)
      desired == 4 * ((Bytes(node) + 3) \div 4)
      free    == (IF storage_size = 0 THEN {} ELSE holes) \cup
                   (IF v.AllocLength > 0 THEN {<<v.AllocLength, v.Ptr>>} ELSE {})
      Place(ptr, alloc) ==
        /\ ptrs' = [ptrs EXCEPT ![id] =
                      [Ptr |-> ptr, Length |-> Bytes(node), AllocLength |-> alloc]]
        /\ storage' = IF node = Empty THEN storage
                      ELSE [p \in DOMAIN storage \cup {ptr} |->
                              IF p = ptr THEN node ELSE storage[p]]
        /\ storage_size' = IF node = Empty \/ storage_size >= ptr + alloc
                           THEN storage_size ELSE ptr + alloc
  IN  IF Bytes(node) <= v.AllocLength
      THEN Place(v.Ptr, v.AllocLength) /\ UNCHANGED holes
      ELSE \/ \E h \in free : /\ h[1] = desired
                              /\ Place(h[2], desired)
                              /\ holes' = free
           \/ /\ \A h \in free : h[1] # desired
              /\ Place(storage_size, desired)
              /\ holes' = free

\* StupidVec::Reassign(): a node that has outgrown its place gets another one,
\* of a multiple of 4 bytes: one that was given up, or one at the end.
Reassign(id, node) ==
  LET v       == PtrOf(id)
      desired == 4 * ((Bytes(node) + 3) \div 4)
      free    == (IF storage_size = 0 THEN {} ELSE holes) \cup
                   (IF v.AllocLength > 0 THEN {<<v.AllocLength, v.Ptr>>} ELSE {})
      Place(ptr, alloc) ==
        /\ ptrs' = [ptrs EXCEPT ![id] =
                      [Ptr |-> ptr, Length |-> Bytes(node), AllocLength |-> alloc]]
        /\ storage' = IF node = Empty THEN storage
                      ELSE [p \in DOMAIN storage \cup {ptr} |->
                              IF p = ptr THEN node ELSE storage[p]]
        /\ storage_size' = IF node = Empty \/ storage_size >= ptr + alloc
                           THEN storage_size ELSE ptr + alloc
  IN  IF Bytes(node) <= v.AllocLength
      THEN Place(v.Ptr, v.AllocLength) /\ UNCHANGED holes
      ELSE \/ \E h \in free : /\ h[1] = desired
                              /\ Place(h[2], desired)
                              /\ holes' = free \ {h}
           \/ /\ \A h \in free : h[1] # desired
              /\ Place(storage_size, desired)
              /\ holes' = free

\* Read(): the buffer changes hands.  What other look-ups can see of it is in
\* steps of its own: that somebody else's node is in the buffer, that it has
\* been written back, whose the buffer is, and what is in it.
Seek(t) ==
  /\ pc[t] = "read"
  /\ pc' = [pc EXCEPT ![t] = IF at[t].cur = BufOwner THEN "search"
                            ELSE IF Buf.changed THEN "write" ELSE "own"]
  /\ UNCHANGED <<vectors, trees, locks, clears, at>>

\* Two of these at once would also be in the middle of the holes at once.
WriteBack(t) ==
  /\ pc[t] = "write"
  /\ Reassign(BufOwner, Buf.node)
  /\ pc' = [pc EXCEPT ![t] = "own"]
  /\ UNCHANGED <<ID, used, Buf, BufOwner, trees, locks, clears, at>>

TakeOver(t) ==
  /\ pc[t] = "own"
  /\ BufOwner' = at[t].cur
  /\ pc' = [pc EXCEPT ![t] = "load"]
  /\ UNCHANGED <<ID, used, ptrs, storage, storage_size, holes, Buf>>
  /\ UNCHANGED <<trees, locks, clears, at>>

\* initial_assign_readonly()
Load(t) ==
  /\ pc[t] = "load"
  /\ Buf' = [node |-> Stored(at[t].cur), changed |-> FALSE]
  /\ pc' = [pc EXCEPT ![t] = "search"]
  /\ UNCHANGED <<ID, used, ptrs, storage, storage_size, holes, BufOwner>>
  /\ UNCHANGED <<trees, locks, clears, at>>
-----------------------------------------------------------------------------
\* Process(): one token after the other.

\* t starts at the root, on behalf of op.
Walk(t, op) ==
  /\ at' = [at EXCEPT ![t].op = op, ![t].cur = RootID[at[t].tree], ![t].level = 1]
  /\ pc' = [pc EXCEPT ![t] = "read"]

Want(t)  == at[t].key[at[t].level]

\* Mutant of Focus: the first entry that is above the token.
FocusUpper(t) ==
  Cardinality({n \in DOMAIN Buf.node.entries : Buf.node.entries[n].token <= Want(t)}) + 1

\* The first entry that is not below the token that t looks for.
Focus(t) ==
  Cardinality({n \in DOMAIN Buf.node.entries : Buf.node.entries[n].token < Want(t)}) + 1
Hit(t)   == /\ Focus(t) <= Len(Buf.node.entries)
            /\ Buf.node.entries[Focus(t)].token = Want(t)
AtLeaf(t)   == at[t].level = RealSize
IsFind(t)   == at[t].op \in {"peek", "check"}

\* Mutant of Descend: the distance is taken from the node itself.
DescendShort(t) ==
  /\ pc[t] = "search" /\ ~AtLeaf(t) /\ Hit(t)
  /\ at' = [at EXCEPT ![t].cur = @ + Buf.node.entries[Focus(t)].link, ![t].level = @ + 1]
  /\ pc' = [pc EXCEPT ![t] = "read"]
  /\ UNCHANGED <<vectors, trees, locks, clears>>

Descend(t) ==
  /\ pc[t] = "search" /\ ~AtLeaf(t) /\ Hit(t)
  /\ at' = [at EXCEPT ![t].cur = @ + 1 + Buf.node.entries[Focus(t)].link, ![t].level = @ + 1]
  /\ pc' = [pc EXCEPT ![t] = "read"]
  /\ UNCHANGED <<vectors, trees, locks, clears>>

\* find() has its answer.
Found(t) ==
  /\ pc[t] = "search" /\ IsFind(t)
  /\ \/ AtLeaf(t) /\ Hit(t) /\ at' = [at EXCEPT ![t].found = Buf.node.entries[Focus(t)].link]
     \/ ~Hit(t) /\ at' = [at EXCEPT ![t].found = None]
  /\ pc' = [pc EXCEPT ![t] = "answer"]
  /\ UNCHANGED <<vectors, trees, locks, clears>>

\* The lock is released, and t is done.
Leave(t) ==
  /\ writer' = NoThread
  /\ pc' = [pc EXCEPT ![t] = "idle"]
  /\ at' = [at EXCEPT ![t] = Nowhere]
  /\ UNCHANGED <<readers, overlapped, clears>>

\* ensure(): the number of gates is overwritten, in the buffer or, if that has
\* not changed, in the storage it points into.
Update(t) ==
  LET node == [Buf.node EXCEPT !.entries[Focus(t)].link = at[t].gates] IN
  /\ pc[t] = "search" /\ AtLeaf(t) /\ Hit(t) /\ ~IsFind(t)
  /\ IF at[t].op = "ensure"
     THEN /\ Buf' = [Buf EXCEPT !.node = node]
          /\ storage' = IF Buf.changed THEN storage
                        ELSE [storage EXCEPT ![PtrOf(BufOwner).Ptr] = node]
     ELSE UNCHANGED <<Buf, storage>>
  /\ Leave(t)
  /\ UNCHANGED <<ID, used, ptrs, storage_size, holes, BufOwner, trees>>

\* AddBack() at a leaf.
AddLeaf(t) ==
  /\ pc[t] = "search" /\ AtLeaf(t) /\ ~Hit(t) /\ ~IsFind(t)
  /\ Buf' = [node |-> [Buf.node EXCEPT !.entries =
                         InsertAt(@, Focus(t), Entry(Want(t), at[t].gates))],
             changed |-> TRUE]
  /\ Size' = [Size EXCEPT ![at[t].tree] = @ + 1]
  /\ Leave(t)
  /\ UNCHANGED <<ID, used, ptrs, storage, storage_size, holes, BufOwner, RootID>>

\* The number of values of n bytes.
Power[n \in 0..MaxID + 1] == IF n = 0 THEN 1 ELSE Base * Power[n - 1]

\* CalcBytesNeededByInt(): a byte, and one more for each that the link overflows.
LinkBytes(link) == 1 + Cardinality({n \in 1..MaxID : link >= Power[n]})

\* Mutant of AddInner: the links keep their width.
AddInnerNarrow(t) ==
  LET link  == ID - at[t].cur - 1
      width == IF Buf.node = Empty THEN LinkBytes(link) ELSE Buf.node.width
  IN
  /\ pc[t] = "search" /\ ~AtLeaf(t) /\ ~Hit(t) /\ ~IsFind(t)
  /\ Buf' = [node |-> [width   |-> width,
                       entries |-> InsertAt(Buf.node.entries, Focus(t),
                                            Entry(Want(t), link % Power[width]))],
             changed |-> TRUE]
  /\ ID' = ID + 1 /\ used' = used + 1
  /\ ptrs' = [id \in 0..ID |-> PtrOf(id)]
  /\ at' = [at EXCEPT ![t].cur = ID, ![t].level = @ + 1]
  /\ pc' = [pc EXCEPT ![t] = "read"]
  /\ UNCHANGED <<storage, storage_size, holes, BufOwner, trees, locks, clears>>

\* AddBack() above: a link to a new node, in a node whose links are made wider
\* if they need to be; AddBack() goes on in the new node, which is empty.
AddInner(t) ==
  LET link  == ID - at[t].cur - 1
      width == IF LinkBytes(link) > Buf.node.width THEN LinkBytes(link) ELSE Buf.node.width
  IN
  /\ pc[t] = "search" /\ ~AtLeaf(t) /\ ~Hit(t) /\ ~IsFind(t)
  /\ Buf' = [node |-> [width   |-> width,
                       entries |-> InsertAt(Buf.node.entries, Focus(t),
                                            Entry(Want(t), link % Power[width]))],
             changed |-> TRUE]
  /\ ID' = ID + 1 /\ used' = used + 1
  /\ ptrs' = [id \in 0..ID |-> PtrOf(id)]
  /\ at' = [at EXCEPT ![t].cur = ID, ![t].level = @ + 1]
  /\ pc' = [pc EXCEPT ![t] = "read"]
  /\ UNCHANGED <<storage, storage_size, holes, BufOwner, trees, locks, clears>>
-----------------------------------------------------------------------------
\* SaveOrIgnoreResult() with a key and a number of gates.

\* Every thread may add the nodes of a key.
Room(n) == ID + n + (RealSize - 1) * Cardinality({t \in Threads : pc[t] # "idle"}) <= MaxID

\* The look-up under the shared lock, which others may hold as well.
Offer(t, tree, key, gates) ==
  /\ pc[t] = "idle" /\ writer = NoThread
  /\ Room(RealSize - 1)
  /\ readers' = readers \cup {t}
  /\ overlapped' = (overlapped \/ readers # {})
  /\ at' = [at EXCEPT ![t] = [Nowhere EXCEPT !.tree = tree, !.key = key, !.gates = gates,
                                             !.cur = RootID[tree]]]
  /\ pc' = [pc EXCEPT ![t] = "read"]
  /\ UNCHANGED <<vectors, trees, writer, clears>>

GoodEnough(t) == at[t].found # None /\ at[t].found <= at[t].gates

Peeked(t) ==
  /\ pc[t] = "answer" /\ at[t].op = "peek"
  /\ readers' = readers \ {t}
  /\ IF GoodEnough(t) THEN pc' = [pc EXCEPT ![t] = "idle"] /\ at' = [at EXCEPT ![t] = Nowhere]
                      ELSE pc' = [pc EXCEPT ![t] = "lock"] /\ UNCHANGED at
  /\ UNCHANGED <<vectors, trees, writer, overlapped, clears>>

\* The look-up under the exclusive lock.
Lock(t) ==
  /\ pc[t] = "lock" /\ writer = NoThread /\ readers = {}
  /\ writer' = t
  /\ Walk(t, "check")
  /\ UNCHANGED <<vectors, trees, readers, overlapped, clears>>

RaceEvaded(t) ==
  /\ pc[t] = "answer" /\ at[t].op = "check" /\ GoodEnough(t)
  /\ Leave(t)
  /\ UNCHANGED <<vectors, trees>>

Store(t) ==
  /\ pc[t] = "answer" /\ at[t].op = "check" /\ ~GoodEnough(t)
  /\ Walk(t, IF at[t].found = None THEN "add" ELSE "ensure")
  /\ UNCHANGED <<vectors, trees, locks, clears>>
-----------------------------------------------------------------------------
\* RadixTree::clear(), which nobody may interrupt.

NodeNow(id) == IF id = BufOwner /\ \A t \in Threads : pc[t] # "load"
               THEN Buf.node ELSE Stored(id)

Children(id) == {id + 1 + entry.link : entry \in Range(NodeNow(id).entries)}

\* The nodes of each level of a tree.
Levels(tree) ==
  LET level[n \in 1..RealSize] ==
        IF n = 1 THEN {RootID[tree]} ELSE UNION {Children(id) : id \in level[n - 1]}
  IN  level

Nodes(tree) == UNION Range(Levels(tree))
Inner(tree) == UNION {Levels(tree)[n] : n \in 1..RealSize - 1}

\* The last inner node that DeleteArray() reads: the end of the rightmost path.
LastRead(tree) ==
  LET path[n \in 1..RealSize - 1] ==
        IF n = 1 THEN RootID[tree]
        ELSE LET entries == NodeNow(path[n - 1]).entries
             IN  IF entries = << >> THEN path[n - 1]
                                    ELSE path[n - 1] + 1 + Last(entries).link
  IN  path[RealSize - 1]

\* What Free() makes of the storage when the last node goes: VectorStorage::clear().
\* (The holes go when the storage, now empty, is next written to.)
Wipe ==
  /\ ID' = 0 /\ ptrs' = << >>
  /\ storage' = << >> /\ storage_size' = 0 /\ holes' = {}
  /\ Buf' = [node |-> Empty, changed |-> TRUE] /\ BufOwner' = 0

\* Writing back what is in the buffer.
Flush == IF Buf.changed THEN Reassign(BufOwner, Buf.node)
                        ELSE UNCHANGED <<ptrs, storage, storage_size, holes>>

\* DeleteArray() of an inner node reads it, and so flushes another one.
ReadInner(tree) ==
  /\ UNCHANGED ID
  /\ IF Inner(tree) \subseteq {BufOwner}
     THEN UNCHANGED <<ptrs, storage, storage_size, holes, Buf, BufOwner>>
     ELSE /\ Flush
          /\ Buf' = [node |-> NodeNow(LastRead(tree)), changed |-> FALSE]
          /\ BufOwner' = LastRead(tree)

\* Mutant of DeleteRoot: the leaves are not freed.
DeleteRootInner(t, tree) ==
  /\ pc[t] = "idle" /\ writer = NoThread /\ readers = {}
  /\ clears < MaxClears /\ Room(1)
  /\ writer' = t /\ clears' = clears + 1
  /\ used' = used - Cardinality(Inner(tree))
  /\ IF used' = 0 THEN Wipe ELSE ReadInner(tree)
  /\ at' = [at EXCEPT ![t].tree = tree]
  /\ pc' = [pc EXCEPT ![t] = "deleted"]
  /\ UNCHANGED <<trees, readers, overlapped>>

DeleteRoot(t, tree) ==
  /\ pc[t] = "idle" /\ writer = NoThread /\ readers = {}
  /\ clears < MaxClears /\ Room(1)
  /\ writer' = t /\ clears' = clears + 1
  /\ used' = used - Cardinality(Nodes(tree))
  /\ IF used' = 0 THEN Wipe ELSE ReadInner(tree)
  /\ at' = [at EXCEPT ![t].tree = tree]
  /\ pc' = [pc EXCEPT ![t] = "deleted"]
  /\ UNCHANGED <<trees, readers, overlapped>>

\* A new, empty root.
Recreate(t) ==
  /\ pc[t] = "deleted"
  /\ Size' = [Size EXCEPT ![at[t].tree] = 0]
  /\ RootID' = [RootID EXCEPT ![at[t].tree] = ID]
  /\ ID' = ID + 1 /\ used' = used + 1
  /\ ptrs' = [id \in 0..ID |-> IF id = ID THEN NoPtr ELSE ptrs[id]]
  /\ Leave(t)
  /\ UNCHANGED <<storage, storage_size, holes, Buf, BufOwner>>
-----------------------------------------------------------------------------
Next == \E t \in Threads :
  \/ \E tree \in DOMAIN RootID : DeleteRoot(t, tree)
  \/ \E tree \in DOMAIN RootID, key \in Keys, gates \in Gates : Offer(t, tree, key, gates)
  \/ Seek(t) \/ WriteBack(t) \/ TakeOver(t) \/ Load(t) \/ Descend(t) \/ Found(t)
  \/ Peeked(t) \/ Lock(t) \/ RaceEvaded(t) \/ Store(t)
  \/ Update(t) \/ AddLeaf(t) \/ AddInner(t)
  \/ Recreate(t)

Spec == Init /\ [][Next]_vars
-----------------------------------------------------------------------------
\* Properties.  Two look-ups at the same time work on one buffer without a lock
\* of their own, which is undefined in C++: what the steps above do then is some
\* of what can happen (LookUpsLoseNothing), and nothing is promised from then on.

\* Every variable has its type, the entries of a node are in order, and a link
\* fits in the bytes its node has for it.
WellFormed(node) ==
  /\ \A a, b \in DOMAIN node.entries : a < b => node.entries[a].token < node.entries[b].token
  /\ node.width > 0 => \A entry \in Range(node.entries) : entry.link < Power[node.width]

TypeOK == ~overlapped =>
  /\ ID \in 0..MaxID /\ used \in 0..ID /\ DOMAIN ptrs = 0..ID - 1
  /\ BufOwner \in 0..MaxID /\ Buf.changed \in BOOLEAN
  /\ WellFormed(Buf.node) /\ \A p \in DOMAIN storage : WellFormed(storage[p])
  /\ \A tree \in DOMAIN RootID : RootID[tree] \in Nat /\ Size[tree] \in Nat
  /\ readers \subseteq Threads /\ writer \in Threads \cup {NoThread}
  /\ writer = NoThread \/ readers = {}
  /\ \A t \in Threads :
       pc[t] \in {"idle", "read", "write", "own", "load", "search", "answer", "lock", "deleted"}

\* No two nodes of the storage share a byte, and no byte of a node is up for
\* reuse: a node that moves to a larger place leaves its old one to the holes,
\* and the next node of that size takes it (StupidVec::Reassign).
SlotsDisjoint == ~overlapped =>
  LET Live  == {id \in DOMAIN ptrs : ptrs[id].AllocLength > 0}
      Slots == {<<ptrs[id].AllocLength, ptrs[id].Ptr>> : id \in Live}
  IN  /\ Cardinality(Slots) = Cardinality(Live) /\ Slots \cap holes = {}
      /\ \A a, b \in Slots \cup holes :
           a # b => a[2] + a[1] <= b[2] \/ b[2] + b[1] <= a[2]

\* The nodes that are not freed are those of the trees, each of one tree only:
\* the storage is wiped when the last tree is emptied, neither while another
\* tree has nodes in it nor never (VectorStorage::Free).
UsedCountsNodes == (~overlapped /\ \A t \in Threads : pc[t] # "deleted") =>
  /\ used = Cardinality(UNION {Nodes(tree) : tree \in DOMAIN RootID})
  /\ \A a, b \in DOMAIN RootID : a # b => Nodes(a) \cap Nodes(b) = {}

\* The number of gates the nodes hold for a key.
Content(tree, key) ==
  LET With(ids, n) ==
        UNION {{<<id, e>> : e \in {f \in Range(NodeNow(id).entries) : f.token = key[n]}} :
                 id \in ids}
      along[n \in 1..RealSize] ==
        IF n = 1 THEN {RootID[tree]} ELSE {p[1] + 1 + p[2].link : p \in With(along[n - 1], n - 1)}
      hits == {p[2].link : p \in With(along[RealSize], RealSize)}
  IN  IF hits = {} THEN None ELSE CHOOSE gates \in hits : TRUE

\* A tree that has not been used yet, or is being cleared, is an empty map.
Exists(tree) ==
  tree \in DOMAIN RootID /\ \A t \in Threads : pc[t] = "deleted" => at[t].tree # tree
contents == [tree \in Trees |-> [key \in Keys |-> IF Exists(tree) THEN Content(tree, key) ELSE None]]
sizes == [tree \in Trees |-> IF Exists(tree) THEN Size[tree] ELSE 0]

\* find() answers with what the tree holds for the key, wherever the last
\* change is: in the buffer, in the storage or on its way between them.
FindTellsTheTruth == ~overlapped => \A t \in Threads :
  pc[t] = "answer" => at[t].found = contents[at[t].tree][at[t].key]

\* All trees in their one storage are, to SaveOrIgnoreResult(), separate maps in
\* which nothing changes but by a store of a smaller number of gates, or by
\* clear(), and whose size() is the number of keys: no link is cut short, no
\* write-back lost or put in a wrong place.
Knowledge == INSTANCE KnowledgeMap WITH
  Trees <- Trees, Keys <- Keys, Gates <- Gates, None <- None, best <- contents, size <- sizes
ImplementsMap ==
  Knowledge!Init /\ [][overlapped' \/ [Knowledge!Next]_(Knowledge!vars)]_vars

\* What the shared lock of the look-ups relies on: that find() only looks.  When
\* nobody is at it any more a tree has as many keys as were added.
LookUpsLoseNothing == readers = {} /\ writer = NoThread =>
  \A tree \in DOMAIN RootID :
    Size[tree] = Cardinality({key \in Keys : contents[tree][key] # None})
=============================================================================
