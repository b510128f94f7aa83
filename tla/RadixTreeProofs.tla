--------------------------- MODULE RadixTreeProofs ---------------------------
(***************************************************************************)
(* What is proved about RadixTree for every instance.                      *)
(*                                                                         *)
(* All of it is about the time before two look-ups have overlapped: the    *)
(* shared lock lets them, and nothing of it holds then (LookUpsLoseNothing *)
(* is violated).  Until then the thread that takes a step is the only one  *)
(* at work, whatever others wait for the exclusive lock.                   *)
(*                                                                         *)
(* From IInv, which does not depend on what the links are: the places of   *)
(* the nodes in the one storage do not overlap (SlotsDisjoint), and a step *)
(* writes no node but the one in the buffer (WritesKeepOthers).            *)
(*                                                                         *)
(* From RInv: the nodes, as they are in the buffer and in the storage      *)
(* together, are a forest, a tree for each map and no node in two of them. *)
(* From it the types (TypeOK), the count of the nodes (UsedCountsNodes),   *)
(* the answers of find() (FindTellsTheTruth), and the maps that the trees  *)
(* are (ImplementsMap).                                                    *)
(***************************************************************************)
EXTENDS RadixTree, SharedFacts

\* Nodes.

\* A width and a sequence of entries.
IsNode(node) ==
  /\ node = [width |-> node.width, entries |-> node.entries]
  /\ node.width \in Nat
  /\ node.entries \in Seq(Range(node.entries))

\* A record of a number and a sequence is a node.
LEMMA MakesNode ==
  ASSUME NEW w \in Nat, NEW S, NEW s \in Seq(S)
  PROVE  IsNode([width |-> w, entries |-> s])
<1>1. Len(s) \in Nat /\ s \in [1..Len(s) -> S]
  OBVIOUS
<1>2. s \in [1..Len(s) -> Range(s)]
  BY <1>1 DEF Range
<1>3. s \in Seq(Range(s))
  BY <1>1, <1>2
<1> QED
  BY <1>3 DEF IsNode

\* The node without entries, as the program starts with.
LEMMA EmptyIsNode == IsNode(Empty) /\ Bytes(Empty) = 0
<1>1. << >> \in Seq({}) /\ Len(<< >>) = 0
  OBVIOUS
<1>2. IsNode([width |-> 0, entries |-> << >>])
  BY <1>1, MakesNode
<1> QED
  BY <1>1, <1>2 DEF Empty, Bytes

\* A node has a number of bytes.
LEMMA NodeBytes ==
  ASSUME NEW node, IsNode(node)
  PROVE  Bytes(node) \in Nat
<1>1. Len(node.entries) \in Nat /\ node.width \in Nat
  BY DEF IsNode
<1>2. (1 + node.width) * Len(node.entries) \in Nat
  BY <1>1
<1> QED
  BY <1>1, <1>2 DEF Bytes

\* A node with another entry is a node.
LEMMA InsertionMakesNode ==
  ASSUME NEW node, IsNode(node), NEW w \in Nat, NEW n \in 1..Len(node.entries) + 1, NEW e
  PROVE  IsNode([width |-> w, entries |-> InsertAt(node.entries, n, e)])
<1> DEFINE s == node.entries
           S == Range(s) \cup {e}
<1>1. s \in Seq(S) /\ Len(s) \in Nat
  <2>1. s \in Seq(Range(s))
    BY DEF IsNode
  <2> QED
    BY <2>1
<1>2. SubSeq(s, 1, n - 1) \in Seq(S) /\ SubSeq(s, n, Len(s)) \in Seq(S)
  BY <1>1
<1>3. <<e>> \in Seq(S)
  OBVIOUS
<1>4. InsertAt(s, n, e) \in Seq(S)
  <2> HIDE DEF s, S
  <2> QED
    BY <1>2, <1>3 DEF InsertAt
<1> QED
  BY <1>4, MakesNode

\* A node with another link in one entry is a node.
LEMMA UpdateMakesNode ==
  ASSUME NEW node, IsNode(node), NEW n \in 1..Len(node.entries), NEW link
  PROVE  IsNode([node EXCEPT !.entries[n].link = link])
<1> DEFINE s == node.entries
           e == [s[n] EXCEPT !.link = link]
           S == Range(s) \cup {e}
           u == [s EXCEPT ![n] = e]
<1>1. s \in Seq(S) /\ Len(s) \in Nat
  <2>1. s \in Seq(Range(s))
    BY DEF IsNode
  <2> QED
    BY <2>1
<1>2. u \in Seq(S)
  <2> HIDE DEF s
  <2>1. e \in S
    OBVIOUS
  <2> HIDE DEF e, S
  <2>2. s \in [1..Len(s) -> S]
    BY <1>1
  <2>3. u \in [1..Len(s) -> S]
    BY <2>1, <2>2
  <2> HIDE DEF u
  <2> QED
    BY <1>1, <2>3
<1>3. [node EXCEPT !.entries[n].link = link] = [width |-> node.width, entries |-> u]
  <2>1. node = [width |-> node.width, entries |-> node.entries]
    BY DEF IsNode
  <2>2. [node EXCEPT !.entries[n].link = link] = [node EXCEPT !.entries = u]
    OBVIOUS
  <2> HIDE DEF u
  <2> QED
    BY <2>1, <2>2
<1>4. node.width \in Nat
  BY DEF IsNode
<1> HIDE DEF u
<1> QED
  BY <1>2, <1>3, <1>4, MakesNode

\* The place for a token is among the entries, or behind them.
LEMMA FocusType ==
  ASSUME NEW t, IsNode(Buf.node)
  PROVE  Focus(t) \in 1..Len(Buf.node.entries) + 1
<1> DEFINE s == Buf.node.entries
           below == {n \in DOMAIN s : s[n].token < Want(t)}
<1>1. Len(s) \in Nat /\ DOMAIN s = 1..Len(s)
  BY DEF IsNode
<1>2. IsFiniteSet(1..Len(s)) /\ Cardinality(1..Len(s)) = Len(s)
  BY <1>1, FS_Interval
<1>3. below \subseteq 1..Len(s)
  BY <1>1
<1> HIDE DEF below
<1>4. Cardinality(below) \in Nat /\ Cardinality(below) <= Len(s)
  <2> HIDE DEF s
  <2>1. IsFiniteSet(below) /\ Cardinality(below) <= Cardinality(1..Len(s))
    BY <1>2, <1>3, FS_Subset
  <2>2. Cardinality(below) \in Nat
    BY <2>1, FS_CardinalityType
  <2> QED
    BY <1>2, <2>1, <2>2
<1> QED
  BY <1>1, <1>4 DEF Focus, below

\* A link has a number of bytes.
LEMMA LinkBytesType ==
  ASSUME NEW link
  PROVE  LinkBytes(link) \in Nat
<1> DEFINE over == {n \in 1..MaxID : link >= Power[n]}
<1>1. IsFiniteSet(1..MaxID)
  BY RadixAssumption, FS_Interval
<1>2. over \subseteq 1..MaxID
  OBVIOUS
<1> HIDE DEF over
<1>3. Cardinality(over) \in Nat
  BY <1>1, <1>2, FS_Subset, FS_CardinalityType
<1> QED
  BY <1>3 DEF LinkBytes, over
-----------------------------------------------------------------------------
\* The layout of a storage: where nodes are, in p, and what can be reused, in hs.

Apart(a, b) == a[2] + a[1] <= b[2] \/ b[2] + b[1] <= a[2]

\* The place of a node, as holes has it.
Slot(v) == <<v.AllocLength, v.Ptr>>

Pointers == [Ptr : Nat, Length : Nat, AllocLength : Nat]

\* Everything is below the end of the storage.
Inside(p, hs, end) ==
  /\ \A h \in hs : h[2] + h[1] <= end
  /\ \A a \in DOMAIN p : p[a].AllocLength > 0 => p[a].Ptr + p[a].AllocLength <= end

\* No two nodes, no two holes, no node and no hole have a byte in common.
NoOverlap(p, hs) ==
  /\ \A g, h \in hs : g # h => Apart(g, h)
  /\ \A a \in DOMAIN p, h \in hs : p[a].AllocLength > 0 => Apart(Slot(p[a]), h)
  /\ \A a, b \in DOMAIN p : a # b /\ p[a].AllocLength > 0 /\ p[b].AllocLength > 0
                              => Apart(Slot(p[a]), Slot(p[b]))

Layout(p, hs, end) ==
  /\ p \in [DOMAIN p -> Pointers] /\ hs \subseteq (Nat \ {0}) \X Nat /\ end \in Nat
  /\ Inside(p, hs, end) /\ NoOverlap(p, hs)

\* Fewer holes in a larger storage.
LEMMA Weaken ==
  ASSUME NEW p, NEW hs, NEW end, Layout(p, hs, end),
         NEW gs, gs \subseteq hs, NEW top \in Nat, top >= end
  PROVE  Layout(p, gs, top)
<1>1. p \in [DOMAIN p -> Pointers] /\ gs \subseteq (Nat \ {0}) \X Nat
  BY DEF Layout
<1>2. Inside(p, gs, top)
  <2>1. \A h \in gs : h[2] + h[1] <= top
    <3> SUFFICES ASSUME NEW h \in gs
                 PROVE  h[2] + h[1] <= top
      OBVIOUS
    <3>1. h[1] \in Nat /\ h[2] \in Nat /\ end \in Nat /\ h[2] + h[1] <= end
      BY DEF Layout, Inside
    <3> QED
      BY <3>1
  <2>2. \A a \in DOMAIN p : p[a].AllocLength > 0 => p[a].Ptr + p[a].AllocLength <= top
    <3> SUFFICES ASSUME NEW a \in DOMAIN p, p[a].AllocLength > 0
                 PROVE  p[a].Ptr + p[a].AllocLength <= top
      OBVIOUS
    <3>1. /\ p[a].Ptr \in Nat /\ p[a].AllocLength \in Nat /\ end \in Nat
          /\ p[a].Ptr + p[a].AllocLength <= end
      BY DEF Layout, Inside, Pointers
    <3> QED
      BY <3>1
  <2> QED
    BY <2>1, <2>2 DEF Inside
<1>3. NoOverlap(p, gs)
  BY DEF Layout, NoOverlap
<1> QED
  BY <1>1, <1>2, <1>3 DEF Layout

\* Another place for a node, which nothing else has a byte of.
LEMMA Put ==
  ASSUME NEW p, NEW hs, NEW end, Layout(p, hs, end), NEW id \in DOMAIN p, NEW v \in Pointers,
         v.AllocLength > 0 =>
           /\ v.Ptr + v.AllocLength <= end
           /\ \A h \in hs : Apart(Slot(v), h)
           /\ \A a \in DOMAIN p : a # id /\ p[a].AllocLength > 0 => Apart(Slot(p[a]), Slot(v))
  PROVE  Layout([p EXCEPT ![id] = v], hs, end)
<1> PICK q : q = [p EXCEPT ![id] = v]
  OBVIOUS
<1>1. /\ q \in [DOMAIN q -> Pointers] /\ DOMAIN q = DOMAIN p /\ q[id] = v
      /\ \A a \in DOMAIN p : a # id => q[a] = p[a]
  BY DEF Layout
<1>2. Inside(q, hs, end)
  BY <1>1 DEF Layout, Inside
<1>3. \A a \in DOMAIN q, h \in hs : q[a].AllocLength > 0 => Apart(Slot(q[a]), h)
  BY <1>1 DEF Layout, NoOverlap
<1>4. \A a, b \in DOMAIN q : a # b /\ q[a].AllocLength > 0 /\ q[b].AllocLength > 0
                              => Apart(Slot(q[a]), Slot(q[b]))
  <2> SUFFICES ASSUME NEW a \in DOMAIN q, NEW b \in DOMAIN q, a # b,
                      q[a].AllocLength > 0, q[b].AllocLength > 0
               PROVE  Apart(Slot(q[a]), Slot(q[b]))
    OBVIOUS
  <2>1. CASE a # id /\ b # id
    BY <1>1, <2>1 DEF Layout, NoOverlap
  <2>2. CASE b = id
    BY <1>1, <2>2
  <2>3. CASE a = id
    <3>1. Apart(Slot(q[b]), Slot(q[a]))
      BY <1>1, <2>3
    <3> QED
      BY <3>1 DEF Apart
  <2> QED
    BY <2>1, <2>2, <2>3
<1>5. \A g, h \in hs : g # h => Apart(g, h)
  BY DEF Layout, NoOverlap
<1> QED
  BY <1>1, <1>2, <1>3, <1>4, <1>5 DEF Layout, NoOverlap

\* Another hole, which nothing has a byte of.
LEMMA AddHole ==
  ASSUME NEW p, NEW hs, NEW end, Layout(p, hs, end), NEW h \in (Nat \ {0}) \X Nat,
         h[2] + h[1] <= end,
         \A g \in hs : Apart(h, g),
         \A a \in DOMAIN p : p[a].AllocLength > 0 => Apart(Slot(p[a]), h)
  PROVE  Layout(p, hs \cup {h}, end)
<1>1. Inside(p, hs \cup {h}, end)
  BY DEF Layout, Inside
<1>2. \A g, k \in hs \cup {h} : g # k => Apart(g, k)
  <2>1. \A g \in hs : Apart(g, h)
    BY DEF Apart
  <2>2. \A g, k \in hs : g # k => Apart(g, k)
    BY DEF Layout, NoOverlap
  <2> QED
    BY <2>1, <2>2
<1>3. NoOverlap(p, hs \cup {h})
  BY <1>2 DEF Layout, NoOverlap
<1> QED
  BY <1>1, <1>3 DEF Layout

\* A node gives its place, if it has one, to the holes.
LEMMA GiveUp ==
  ASSUME NEW p, NEW hs, NEW end, Layout(p, hs, end), NEW id \in DOMAIN p
  PROVE  Layout([p EXCEPT ![id] = NoPtr],
                hs \cup (IF p[id].AllocLength > 0 THEN {Slot(p[id])} ELSE {}), end)
<1> PICK q : q = [p EXCEPT ![id] = NoPtr]
  OBVIOUS
<1>1. Layout(q, hs, end)
  <2>1. NoPtr \in Pointers /\ ~ (NoPtr.AllocLength > 0)
    BY DEF NoPtr, Pointers
  <2> QED
    BY <2>1, Put
<1>2. CASE p[id].AllocLength > 0
  <2> PICK h : h = Slot(p[id])
    OBVIOUS
  <2>1. p[id] \in Pointers /\ h[1] = p[id].AllocLength /\ h[2] = p[id].Ptr
    BY DEF Layout, Slot
  <2>2. h \in (Nat \ {0}) \X Nat
    BY <1>2, <2>1 DEF Slot, Pointers
  <2>3. h[2] + h[1] <= end
    BY <1>2, <2>1 DEF Layout, Inside
  <2>4. \A g \in hs : Apart(h, g)
    BY <1>2 DEF Layout, NoOverlap
  <2>5. \A a \in DOMAIN q : q[a].AllocLength > 0 => Apart(Slot(q[a]), h)
    <3> SUFFICES ASSUME NEW a \in DOMAIN q, q[a].AllocLength > 0
                 PROVE  Apart(Slot(q[a]), h)
      OBVIOUS
    <3>1. a \in DOMAIN p /\ a # id /\ q[a] = p[a]
      BY DEF NoPtr
    <3> QED
      BY <1>2, <3>1 DEF Layout, NoOverlap
  <2>6. Layout(q, hs \cup {h}, end)
    BY <1>1, <2>2, <2>3, <2>4, <2>5, AddHole
  <2> QED
    BY <1>2, <2>6
<1>3. CASE ~ (p[id].AllocLength > 0)
  BY <1>1, <1>3
<1> QED
  BY <1>2, <1>3

\* A node without a place takes a hole.
LEMMA TakeHole ==
  ASSUME NEW p, NEW hs, NEW end, Layout(p, hs, end), NEW id \in DOMAIN p,
         NEW h \in hs, NEW n \in Nat
  PROVE  Layout([p EXCEPT ![id] = [Ptr |-> h[2], Length |-> n, AllocLength |-> h[1]]],
                hs \ {h}, end)
<1> PICK v : v = [Ptr |-> h[2], Length |-> n, AllocLength |-> h[1]]
  OBVIOUS
<1>1. h \in (Nat \ {0}) \X Nat /\ end \in Nat
  BY DEF Layout
<1>2. v \in Pointers /\ Slot(v) = h
  BY <1>1 DEF Pointers, Slot
<1>3. Layout(p, hs \ {h}, end)
  <2>1. hs \ {h} \subseteq hs /\ end >= end
    BY <1>1
  <2> QED
    BY <1>1, <2>1, Weaken
<1>4. h[2] + h[1] <= end
  BY DEF Layout, Inside
<1>5. \A g \in hs \ {h} : Apart(h, g)
  BY DEF Layout, NoOverlap
<1>6. \A a \in DOMAIN p : p[a].AllocLength > 0 => Apart(Slot(p[a]), h)
  BY DEF Layout, NoOverlap
<1> HIDE DEF Layout
<1>7. Layout([p EXCEPT ![id] = v], hs \ {h}, end)
  BY <1>2, <1>3, <1>4, <1>5, <1>6, Put
<1> QED
  BY <1>7

\* A node is put behind everything else.
LEMMA PutLast ==
  ASSUME NEW p, NEW hs, NEW end, Layout(p, hs, end), NEW id \in DOMAIN p,
         NEW n \in Nat, NEW size \in Nat
  PROVE  Layout([p EXCEPT ![id] = [Ptr |-> end, Length |-> n, AllocLength |-> size]],
                hs, end + size)
<1> PICK v : v = [Ptr |-> end, Length |-> n, AllocLength |-> size]
  OBVIOUS
<1>1. end \in Nat /\ end + size \in Nat /\ end + size >= end
  BY DEF Layout
<1>2. v \in Pointers /\ v.Ptr + v.AllocLength <= end + size /\ v.Ptr = end /\ v.AllocLength = size
  BY <1>1 DEF Pointers
<1>3. Layout(p, hs, end + size)
  BY <1>1, Weaken
<1>4. \A h \in hs : Apart(Slot(v), h)
  BY <1>2 DEF Layout, Inside, Apart, Slot
<1>5. \A a \in DOMAIN p : p[a].AllocLength > 0 => Apart(Slot(p[a]), Slot(v))
  BY <1>2 DEF Layout, Inside, Apart, Slot
<1>6. Layout([p EXCEPT ![id] = v], hs, end + size)
  BY <1>2, <1>3, <1>4, <1>5, Put
<1> QED
  BY <1>6
-----------------------------------------------------------------------------
\* What the steps keep.

\* What has been written of a node is in the storage, and has a place as long
\* as itself.
Readable(p, written) ==
  \A id \in DOMAIN p : p[id].Length > 0 => /\ p[id].Ptr \in DOMAIN written
                                           /\ p[id].Length <= p[id].AllocLength

\* The storage holds nodes, at places that do not overlap.
StorageInv ==
  /\ Layout(ptrs, holes, storage_size)
  /\ Readable(ptrs, storage)
  /\ \A p \in DOMAIN storage : IsNode(storage[p])

\* So it stays, whatever becomes of the buffer, which holds a node.
IInv ==
  /\ ID \in Nat /\ DOMAIN ptrs = 0..ID - 1
  /\ StorageInv
  /\ Buf = [node |-> Buf.node, changed |-> Buf.changed] /\ IsNode(Buf.node)

\* A step that writes back the buffer, or writes where the node in it is, is
\* not seen in any other node (until all nodes are given up).
OthersStay ==
  ID' # 0 /\ (storage' # storage => Buf.changed \/ PtrOf(BufOwner).AllocLength > 0) =>
    \A id \in 0..ID - 1 : id # BufOwner => Stored(id)' = Stored(id)

WritesKeepOthers == [][overlapped' \/ OthersStay]_vars

\* What Reassign() may take a place from.
Free(id) ==
  (IF storage_size = 0 THEN {} ELSE holes) \cup
    (IF PtrOf(id).AllocLength > 0 THEN {<<PtrOf(id).AllocLength, PtrOf(id).Ptr>>} ELSE {})

\* The node is written at ptr.
PlacedAt(id, node, ptr, alloc) ==
  /\ ptrs' = [ptrs EXCEPT ![id] = [Ptr |-> ptr, Length |-> Bytes(node), AllocLength |-> alloc]]
  /\ storage' = IF node = Empty THEN storage
                ELSE [p \in DOMAIN storage \cup {ptr} |-> IF p = ptr THEN node ELSE storage[p]]
  /\ storage_size' = IF node = Empty \/ storage_size >= ptr + alloc
                     THEN storage_size ELSE ptr + alloc

Rounded(n) == 4 * ((n + 3) \div 4)

\* The three ways a node can go, as Reassign() has them.
LEMMA ReassignWays ==
  ASSUME NEW id, NEW node, Reassign(id, node)
  PROVE  \/ /\ Bytes(node) <= PtrOf(id).AllocLength
            /\ PlacedAt(id, node, PtrOf(id).Ptr, PtrOf(id).AllocLength)
            /\ holes' = holes
         \/ /\ ~ (Bytes(node) <= PtrOf(id).AllocLength)
            /\ \/ \E h \in Free(id) : /\ h[1] = Rounded(Bytes(node))
                                      /\ PlacedAt(id, node, h[2], h[1])
                                      /\ holes' = Free(id) \ {h}
               \/ /\ PlacedAt(id, node, storage_size, Rounded(Bytes(node)))
                  /\ holes' = Free(id)
<1>1. CASE Bytes(node) <= PtrOf(id).AllocLength
  BY <1>1 DEF Reassign, PlacedAt
<1>2. CASE ~ (Bytes(node) <= PtrOf(id).AllocLength)
  <2>1. \/ \E h \in Free(id) : /\ h[1] = Rounded(Bytes(node))
                               /\ PlacedAt(id, node, h[2], Rounded(Bytes(node)))
                               /\ holes' = Free(id) \ {h}
        \/ /\ PlacedAt(id, node, storage_size, Rounded(Bytes(node)))
           /\ holes' = Free(id)
    BY <1>2, Zenon DEF Reassign, PlacedAt, Rounded, Free
  <2> QED
    BY <1>2, <2>1
<1> QED
  BY <1>1, <1>2

\* A number of bytes is rounded up.
LEMMA RoundedUp ==
  ASSUME NEW n \in Nat
  PROVE  Rounded(n) \in Nat /\ Rounded(n) >= n
BY DEF Rounded

\* A node of no bytes is the one that is never written.
LEMMA NoBytes ==
  ASSUME NEW node, IsNode(node), Bytes(node) = 0
  PROVE  node = Empty
<1>1. node.width \in Nat /\ node.entries \in Seq(Range(node.entries)) /\ Len(node.entries) \in Nat
  BY DEF IsNode
<1>2. (1 + node.width) * Len(node.entries) \in Nat
  BY <1>1
<1>3. node.width = 0 /\ Len(node.entries) = 0
  BY <1>1, <1>2 DEF Bytes
<1>4. node.entries = << >>
  BY <1>1, <1>3
<1> QED
  BY <1>3, <1>4 DEF IsNode, Empty

\* A pointer is one of the record's type, in range or not.
LEMMA PtrOfType ==
  ASSUME StorageInv, NEW id
  PROVE  PtrOf(id) \in Pointers
BY DEF StorageInv, Layout, PtrOf, NoPtr, Pointers

\* Without the node that is about to move, its place can be given away.
LEMMA FreeLayout ==
  ASSUME StorageInv, NEW id
  PROVE  Layout([ptrs EXCEPT ![id] = NoPtr], Free(id), storage_size)
<1>1. Layout(ptrs, holes, storage_size) /\ storage_size \in Nat /\ storage_size >= storage_size
  BY DEF StorageInv, Layout
<1>2. CASE id \in DOMAIN ptrs
  <2> PICK given : given = IF ptrs[id].AllocLength > 0 THEN {Slot(ptrs[id])} ELSE {}
    OBVIOUS
  <2>1. PtrOf(id) = ptrs[id]
    BY <1>2 DEF PtrOf
  <2>2. Free(id) \subseteq holes \cup given
    BY <2>1 DEF Free, Slot
  <2>3. Layout([ptrs EXCEPT ![id] = NoPtr], holes \cup given, storage_size)
    BY <1>1, <1>2, GiveUp
  <2> QED
    BY <1>1, <2>2, <2>3, Weaken
<1>3. CASE id \notin DOMAIN ptrs
  <2>1. Free(id) \subseteq holes
    BY <1>3 DEF Free, PtrOf, NoPtr
  <2>2. [ptrs EXCEPT ![id] = NoPtr] = ptrs
    BY <1>1, <1>3 DEF Layout
  <2> QED
    BY <1>1, <2>1, <2>2, Weaken
<1> QED
  BY <1>2, <1>3

\* No other node is where Reassign() puts a node, and it fits there.
LEMMA ReassignKeeps ==
  ASSUME StorageInv, NEW id, NEW node, IsNode(node), Reassign(id, node)
  PROVE  \E ptr, alloc :
           /\ PlacedAt(id, node, ptr, alloc) /\ Bytes(node) <= alloc
           /\ Layout(ptrs', holes', storage_size')
           /\ node # Empty => \A a \in DOMAIN ptrs :
                a # id /\ ptrs[a].AllocLength > 0 => ptrs[a].Ptr # ptr
<1>1. /\ Layout(ptrs, holes, storage_size) /\ ptrs \in [DOMAIN ptrs -> Pointers]
      /\ storage_size \in Nat /\ storage_size >= storage_size
  BY DEF StorageInv, Layout
<1>2. /\ PtrOf(id) \in Pointers /\ Bytes(node) \in Nat
      /\ Rounded(Bytes(node)) \in Nat /\ Rounded(Bytes(node)) >= Bytes(node)
  BY PtrOfType, NodeBytes, RoundedUp
<1> PICK q : q = [ptrs EXCEPT ![id] = NoPtr]
  OBVIOUS
<1>3. Layout(q, Free(id), storage_size)
  BY FreeLayout
<1>4. DOMAIN q = DOMAIN ptrs /\ \A a \in DOMAIN ptrs : a # id => q[a] = ptrs[a]
  OBVIOUS
<1>5. \A v : id \in DOMAIN ptrs => [q EXCEPT ![id] = v] = [ptrs EXCEPT ![id] = v]
  OBVIOUS
<1>6. \A v : id \notin DOMAIN ptrs => [ptrs EXCEPT ![id] = v] = q
  BY <1>1
<1>7. CASE /\ Bytes(node) <= PtrOf(id).AllocLength
           /\ PlacedAt(id, node, PtrOf(id).Ptr, PtrOf(id).AllocLength)
           /\ holes' = holes
  <2> PICK v : v = [PtrOf(id) EXCEPT !.Length = Bytes(node)]
    OBVIOUS
  <2>1. /\ v \in Pointers /\ v.Ptr = PtrOf(id).Ptr /\ v.AllocLength = PtrOf(id).AllocLength
        /\ Slot(v) = Slot(PtrOf(id)) /\ ptrs' = [ptrs EXCEPT ![id] = v]
    BY <1>2, <1>7 DEF Pointers, Slot, PlacedAt
  <2>2. storage_size' \in Nat /\ storage_size' >= storage_size
    BY <1>1, <1>2, <1>7 DEF PlacedAt, Pointers
  <2>3. Layout([ptrs EXCEPT ![id] = v], holes, storage_size)
    <3>1. CASE id \in DOMAIN ptrs
      <4>1. PtrOf(id) = ptrs[id]
        BY <3>1 DEF PtrOf
      <4>2. v.AllocLength > 0 =>
              /\ v.Ptr + v.AllocLength <= storage_size
              /\ \A h \in holes : Apart(Slot(v), h)
              /\ \A a \in DOMAIN ptrs :
                   a # id /\ ptrs[a].AllocLength > 0 => Apart(Slot(ptrs[a]), Slot(v))
        BY <1>1, <2>1, <3>1, <4>1 DEF Layout, Inside, NoOverlap
      <4> QED
        BY <1>1, <2>1, <3>1, <4>2, Put
    <3>2. CASE id \notin DOMAIN ptrs
      <4>1. [ptrs EXCEPT ![id] = v] = ptrs
        BY <1>1, <3>2
      <4> QED
        BY <1>1, <4>1
    <3> QED
      BY <3>1, <3>2
  <2>4. Layout(ptrs', holes', storage_size')
    <3>1. holes \subseteq holes
      OBVIOUS
    <3> QED
      BY <1>7, <2>1, <2>2, <2>3, <3>1, Weaken
  <2>5. ASSUME node # Empty, NEW a \in DOMAIN ptrs, a # id, ptrs[a].AllocLength > 0
        PROVE  ptrs[a].Ptr # PtrOf(id).Ptr
    <3>1. PtrOf(id).AllocLength > 0
      BY <1>2, <1>7, <2>5, NoBytes DEF Pointers
    <3>2. id \in DOMAIN ptrs /\ PtrOf(id) = ptrs[id]
      BY <3>1 DEF PtrOf, NoPtr
    <3>3. Apart(Slot(ptrs[a]), Slot(ptrs[id]))
      BY <1>1, <2>5, <3>1, <3>2 DEF Layout, NoOverlap
    <3> QED
      BY <1>1, <2>5, <3>1, <3>2, <3>3 DEF Apart, Slot, Pointers
  <2> QED
    BY <1>7, <2>4, <2>5
<1>8. ~ (Bytes(node) <= PtrOf(id).AllocLength) => Bytes(node) > 0 /\ node # Empty
  BY <1>2, EmptyIsNode DEF Pointers
<1>9. ASSUME ~ (Bytes(node) <= PtrOf(id).AllocLength), NEW h \in Free(id),
             h[1] = Rounded(Bytes(node)), PlacedAt(id, node, h[2], h[1]),
             holes' = Free(id) \ {h}
      PROVE  /\ Bytes(node) <= h[1] /\ Layout(ptrs', holes', storage_size')
             /\ \A a \in DOMAIN ptrs : a # id /\ ptrs[a].AllocLength > 0 => ptrs[a].Ptr # h[2]
  <2>1. h \in (Nat \ {0}) \X Nat /\ h[1] > 0
    BY <1>3 DEF Layout
  <2>2. storage_size' \in Nat /\ storage_size' >= storage_size
    BY <1>1, <1>9, <2>1 DEF PlacedAt
  <2>3. Layout(ptrs', Free(id) \ {h}, storage_size)
    <3>1. CASE id \in DOMAIN ptrs
      <4>1. ptrs' = [q EXCEPT ![id] = [Ptr |-> h[2], Length |-> Bytes(node), AllocLength |-> h[1]]]
        BY <1>5, <1>9, <3>1 DEF PlacedAt
      <4> QED
        BY <1>2, <1>3, <1>4, <3>1, <4>1, TakeHole
    <3>2. CASE id \notin DOMAIN ptrs
      <4>1. ptrs' = q
        BY <1>6, <1>9, <3>2 DEF PlacedAt
      <4>2. Free(id) \ {h} \subseteq Free(id)
        OBVIOUS
      <4> QED
        BY <1>1, <1>3, <4>1, <4>2, Weaken
    <3> QED
      BY <3>1, <3>2
  <2>4. Layout(ptrs', holes', storage_size')
    <3>1. Free(id) \ {h} \subseteq Free(id) \ {h}
      OBVIOUS
    <3> QED
      BY <1>9, <2>2, <2>3, <3>1, Weaken
  <2>5. ASSUME NEW a \in DOMAIN ptrs, a # id, ptrs[a].AllocLength > 0
        PROVE  ptrs[a].Ptr # h[2]
    <3>1. Apart(Slot(ptrs[a]), h)
      BY <1>3, <1>4, <2>5 DEF Layout, NoOverlap
    <3> QED
      BY <1>1, <2>1, <2>5, <3>1 DEF Apart, Slot, Pointers
  <2> QED
    BY <1>2, <1>9, <2>4, <2>5
<1>10. ASSUME ~ (Bytes(node) <= PtrOf(id).AllocLength),
              PlacedAt(id, node, storage_size, Rounded(Bytes(node))), holes' = Free(id)
       PROVE  /\ Layout(ptrs', holes', storage_size')
              /\ \A a \in DOMAIN ptrs :
                   a # id /\ ptrs[a].AllocLength > 0 => ptrs[a].Ptr # storage_size
  <2> PICK size : size = Rounded(Bytes(node))
    OBVIOUS
  <2>1. size \in Nat /\ size > 0
    BY <1>2, <1>8, <1>10
  <2>2. storage_size' = storage_size + size
    BY <1>1, <1>8, <1>10, <2>1 DEF PlacedAt
  <2>3. Layout(ptrs', Free(id), storage_size + size)
    <3>1. CASE id \in DOMAIN ptrs
      <4>1. ptrs' = [q EXCEPT ![id] =
                       [Ptr |-> storage_size, Length |-> Bytes(node), AllocLength |-> size]]
        BY <1>5, <1>10, <3>1 DEF PlacedAt
      <4> QED
        BY <1>2, <1>3, <1>4, <2>1, <3>1, <4>1, PutLast
    <3>2. CASE id \notin DOMAIN ptrs
      <4>1. ptrs' = q
        BY <1>6, <1>10, <3>2 DEF PlacedAt
      <4>2. Free(id) \subseteq Free(id) /\ storage_size + size >= storage_size
            /\ storage_size + size \in Nat
        BY <1>1, <2>1
      <4> QED
        BY <1>3, <4>1, <4>2, Weaken
    <3> QED
      BY <3>1, <3>2
  <2>4. ASSUME NEW a \in DOMAIN ptrs, a # id, ptrs[a].AllocLength > 0
        PROVE  ptrs[a].Ptr # storage_size
    <3>1. ptrs[a].Ptr + ptrs[a].AllocLength <= storage_size
      BY <1>3, <1>4, <2>4 DEF Layout, Inside
    <3> QED
      BY <1>1, <2>4, <3>1 DEF Pointers
  <2> QED
    BY <1>10, <2>2, <2>3, <2>4
<1> QED
  BY <1>2, <1>7, <1>9, <1>10, ReassignWays

\* What is written can be read, and no other node reads differently.
LEMMA PlacementKeeps ==
  ASSUME StorageInv, NEW id, NEW node, IsNode(node), NEW ptr, NEW alloc,
         PlacedAt(id, node, ptr, alloc), Bytes(node) <= alloc,
         node # Empty => \A a \in DOMAIN ptrs :
           a # id /\ ptrs[a].AllocLength > 0 => ptrs[a].Ptr # ptr
  PROVE  /\ DOMAIN ptrs' = DOMAIN ptrs /\ Readable(ptrs', storage')
         /\ \A p \in DOMAIN storage' : IsNode(storage'[p])
         /\ \A a \in DOMAIN ptrs : a # id => Stored(a)' = Stored(a)
<1>1. /\ ptrs \in [DOMAIN ptrs -> Pointers] /\ Readable(ptrs, storage)
      /\ \A p \in DOMAIN storage : IsNode(storage[p])
  BY DEF StorageInv, Layout
<1>2. ptrs' = [ptrs EXCEPT ![id] = [Ptr |-> ptr, Length |-> Bytes(node), AllocLength |-> alloc]]
  BY DEF PlacedAt
<1>3. DOMAIN ptrs' = DOMAIN ptrs /\ \A a \in DOMAIN ptrs : a # id => ptrs'[a] = ptrs[a]
  BY <1>2
<1>4. /\ node = Empty => storage' = storage
      /\ node # Empty => storage' = [p \in DOMAIN storage \cup {ptr} |->
                                       IF p = ptr THEN node ELSE storage[p]]
  BY DEF PlacedAt
<1>5. DOMAIN storage \subseteq DOMAIN storage' /\ (node # Empty => ptr \in DOMAIN storage')
  BY <1>4
<1>6. \A p \in DOMAIN storage' : IsNode(storage'[p])
  <2>1. CASE node = Empty
    BY <1>1, <1>4, <2>1
  <2>2. CASE node # Empty
    BY <1>1, <1>4, <2>2
  <2> QED
    BY <2>1, <2>2
<1>7. Readable(ptrs', storage')
  <2> SUFFICES ASSUME NEW a \in DOMAIN ptrs, ptrs'[a].Length > 0
               PROVE  ptrs'[a].Ptr \in DOMAIN storage' /\ ptrs'[a].Length <= ptrs'[a].AllocLength
    BY <1>3 DEF Readable
  <2>1. CASE a = id
    <3>1. ptrs'[a] = [Ptr |-> ptr, Length |-> Bytes(node), AllocLength |-> alloc]
      BY <1>2, <2>1
    <3>2. ptrs'[a].Ptr = ptr /\ ptrs'[a].Length = Bytes(node) /\ ptrs'[a].AllocLength = alloc
      BY <3>1
    <3>3. node # Empty
      BY <3>2, EmptyIsNode
    <3> QED
      BY <1>5, <3>2, <3>3
  <2>2. CASE a # id
    BY <1>1, <1>3, <1>5, <2>2 DEF Readable
  <2> QED
    BY <2>1, <2>2
<1>8. ASSUME NEW a \in DOMAIN ptrs, a # id
      PROVE  Stored(a)' = Stored(a)
  <2>1. PtrOf(a) = ptrs[a] /\ PtrOf(a)' = ptrs[a]
    BY <1>3, <1>8 DEF PtrOf
  <2>2. CASE ptrs[a].Length = 0
    BY <2>1, <2>2 DEF Stored
  <2>3. CASE ptrs[a].Length # 0
    <3>1. ptrs[a].Length \in Nat /\ ptrs[a].AllocLength \in Nat
      BY <1>1 DEF Pointers
    <3>2. ptrs[a].Ptr \in DOMAIN storage /\ ptrs[a].AllocLength > 0
      BY <1>1, <2>3, <3>1 DEF Readable
    <3>3. storage'[ptrs[a].Ptr] = storage[ptrs[a].Ptr]
      BY <1>4, <1>8, <3>2
    <3> QED
      BY <2>1, <2>3, <3>3 DEF Stored
  <2> QED
    BY <2>2, <2>3
<1> QED
  BY <1>3, <1>6, <1>7, <1>8

\* The node in the buffer gets a place, and everything else keeps its own.
LEMMA WriteKeeps ==
  ASSUME StorageInv, IsNode(Buf.node), Reassign(BufOwner, Buf.node)
  PROVE  /\ StorageInv' /\ DOMAIN ptrs' = DOMAIN ptrs
         /\ \A a \in DOMAIN ptrs : a # BufOwner => Stored(a)' = Stored(a)
<1>1. PICK ptr, alloc :
        /\ PlacedAt(BufOwner, Buf.node, ptr, alloc) /\ Bytes(Buf.node) <= alloc
        /\ Layout(ptrs', holes', storage_size')
        /\ Buf.node # Empty => \A a \in DOMAIN ptrs :
             a # BufOwner /\ ptrs[a].AllocLength > 0 => ptrs[a].Ptr # ptr
  BY ReassignKeeps
<1>2. /\ DOMAIN ptrs' = DOMAIN ptrs /\ Readable(ptrs', storage')
      /\ \A p \in DOMAIN storage' : IsNode(storage'[p])
      /\ \A a \in DOMAIN ptrs : a # BufOwner => Stored(a)' = Stored(a)
  BY <1>1, PlacementKeeps
<1> QED
  BY <1>1, <1>2 DEF StorageInv

\* Writing back the buffer, or not, keeps everything in its place.
LEMMA FlushKeeps ==
  ASSUME StorageInv, IsNode(Buf.node), Flush
  PROVE  /\ StorageInv' /\ DOMAIN ptrs' = DOMAIN ptrs
         /\ \A a \in DOMAIN ptrs : a # BufOwner => Stored(a)' = Stored(a)
<1>1. CASE Buf.changed
  BY <1>1, WriteKeeps DEF Flush
<1>2. CASE ~Buf.changed
  <2>1. UNCHANGED <<ptrs, storage, storage_size, holes>>
    BY <1>2 DEF Flush
  <2> QED
    BY <2>1 DEF StorageInv, Layout, Inside, NoOverlap, Readable, Stored, PtrOf
<1> QED
  BY <1>1, <1>2

\* What is read is a node.
LEMMA StoredIsNode ==
  ASSUME IInv, NEW id
  PROVE  IsNode(Stored(id)) /\ IsNode(NodeNow(id))
<1>1. IsNode(Stored(id))
  <2>1. CASE PtrOf(id).Length = 0
    BY <2>1, EmptyIsNode DEF Stored
  <2>2. CASE PtrOf(id).Length # 0
    <3>1. id \in DOMAIN ptrs /\ PtrOf(id) = ptrs[id]
      BY <2>2 DEF PtrOf, NoPtr
    <3>2. ptrs[id].Length > 0
      BY <2>2, <3>1 DEF IInv, StorageInv, Layout, Pointers
    <3>3. ptrs[id].Ptr \in DOMAIN storage
      BY <3>1, <3>2 DEF IInv, StorageInv, Readable
    <3> QED
      BY <2>2, <3>1, <3>3 DEF IInv, StorageInv, Stored
  <2> QED
    BY <2>1, <2>2
<1> QED
  BY <1>1 DEF IInv, NodeNow
-----------------------------------------------------------------------------
\* The steps.

\* Nothing that IInv is about changes.
LEMMA VectorsKeep ==
  ASSUME IInv, UNCHANGED vectors
  PROVE  IInv' /\ OthersStay
<1>1. IInv'
  BY DEF vectors, IInv, StorageInv, Layout, Inside, NoOverlap, Readable
<1>2. OthersStay
  BY DEF vectors, OthersStay, Stored, PtrOf
<1> QED
  BY <1>1, <1>2

LEMMA InitIInv == Init => IInv
<1> SUFFICES ASSUME Init
             PROVE  IInv
  OBVIOUS
<1>1. PICK n \in Trees :
        /\ ID = n /\ ptrs = [id \in 0..n - 1 |-> NoPtr]
        /\ storage = << >> /\ storage_size = 0 /\ holes = {}
        /\ Buf = [node |-> Empty, changed |-> FALSE]
  BY DEF Init
<1>2. n \in Nat
  BY RadixAssumption DEF Trees
<1>3. NoPtr \in Pointers /\ ~ (NoPtr.AllocLength > 0) /\ ~ (NoPtr.Length > 0)
  BY DEF NoPtr, Pointers
<1>4. Layout(ptrs, holes, storage_size)
  BY <1>1, <1>3 DEF Layout, Inside, NoOverlap
<1>5. Readable(ptrs, storage) /\ \A p \in DOMAIN storage : IsNode(storage[p])
  BY <1>1, <1>3 DEF Readable
<1>6. DOMAIN ptrs = 0..ID - 1
  BY <1>1
<1> QED
  BY <1>1, <1>2, <1>4, <1>5, <1>6, EmptyIsNode DEF IInv, StorageInv

LEMMA WriteBackKeeps ==
  ASSUME IInv, NEW t, WriteBack(t)
  PROVE  IInv' /\ OthersStay
<1>1. Reassign(BufOwner, Buf.node) /\ UNCHANGED <<ID, Buf>>
  BY DEF WriteBack
<1>2. /\ StorageInv' /\ DOMAIN ptrs' = DOMAIN ptrs
      /\ \A a \in DOMAIN ptrs : a # BufOwner => Stored(a)' = Stored(a)
  BY <1>1, WriteKeeps DEF IInv
<1> QED
  BY <1>1, <1>2 DEF IInv, OthersStay

\* The buffer gets another owner.
LEMMA TakeOverKeeps ==
  ASSUME IInv, NEW t, TakeOver(t)
  PROVE  IInv' /\ OthersStay
<1>1. UNCHANGED <<ID, ptrs, storage, storage_size, holes, Buf>>
  BY DEF TakeOver
<1>2. StorageInv'
  BY <1>1 DEF IInv, StorageInv, Layout, Inside, NoOverlap, Readable
<1>3. OthersStay
  BY <1>1 DEF OthersStay, Stored, PtrOf
<1> QED
  BY <1>1, <1>2, <1>3 DEF IInv

LEMMA LoadKeeps ==
  ASSUME IInv, NEW t, Load(t)
  PROVE  IInv' /\ OthersStay
<1>1. /\ Buf' = [node |-> Stored(at[t].cur), changed |-> FALSE]
      /\ UNCHANGED <<ID, ptrs, storage, storage_size, holes>>
  BY DEF Load
<1>2. IsNode(Stored(at[t].cur))
  BY StoredIsNode
<1>3. StorageInv'
  BY <1>1 DEF IInv, StorageInv, Layout, Inside, NoOverlap, Readable
<1>4. OthersStay
  BY <1>1 DEF OthersStay, Stored, PtrOf
<1> QED
  BY <1>1, <1>2, <1>3, <1>4 DEF IInv

LEMMA AddLeafKeeps ==
  ASSUME IInv, NEW t, AddLeaf(t)
  PROVE  IInv' /\ OthersStay
<1> DEFINE e == Entry(Want(t), at[t].gates)
           s == InsertAt(Buf.node.entries, Focus(t), e)
<1>1. /\ Buf' = [node |-> [Buf.node EXCEPT !.entries = s], changed |-> TRUE]
      /\ UNCHANGED <<ID, ptrs, storage, storage_size, holes>>
  BY DEF AddLeaf
<1>2. IsNode([Buf.node EXCEPT !.entries = s])
  <2>1. IsNode(Buf.node) /\ Focus(t) \in 1..Len(Buf.node.entries) + 1
    BY FocusType DEF IInv
  <2>2. Buf.node.width \in Nat
    BY <2>1 DEF IsNode
  <2>3. IsNode([width |-> Buf.node.width, entries |-> s])
    BY <2>1, <2>2, InsertionMakesNode
  <2> HIDE DEF s
  <2>4. [Buf.node EXCEPT !.entries = s] = [width |-> Buf.node.width, entries |-> s]
    BY <2>1 DEF IsNode
  <2> QED
    BY <2>3, <2>4
<1>3. StorageInv'
  BY <1>1 DEF IInv, StorageInv, Layout, Inside, NoOverlap, Readable
<1>4. OthersStay
  BY <1>1 DEF OthersStay, Stored, PtrOf
<1> HIDE DEF s
<1> QED
  BY <1>1, <1>2, <1>3, <1>4 DEF IInv

\* A new node has no place yet.
LEMMA NewNodeKeeps ==
  ASSUME IInv, ptrs' = [id \in 0..ID |-> IF id = ID THEN NoPtr ELSE ptrs[id]],
         ID' = ID + 1, UNCHANGED <<storage, storage_size, holes>>
  PROVE  /\ StorageInv' /\ ID' \in Nat /\ DOMAIN ptrs' = 0..ID' - 1
         /\ OthersStay
<1>1. /\ ID \in Nat /\ DOMAIN ptrs = 0..ID - 1 /\ Layout(ptrs, holes, storage_size)
      /\ ptrs \in [DOMAIN ptrs -> Pointers] /\ Readable(ptrs, storage)
      /\ \A p \in DOMAIN storage : IsNode(storage[p])
  BY DEF IInv, StorageInv, Layout
<1>2. \A id \in 0..ID : id # ID => id \in DOMAIN ptrs
  BY <1>1
<1>3. /\ ID \in DOMAIN ptrs' /\ ptrs'[ID] = NoPtr
      /\ \A id \in DOMAIN ptrs' : id # ID => id \in DOMAIN ptrs /\ ptrs'[id] = ptrs[id]
      /\ \A id \in DOMAIN ptrs : id \in DOMAIN ptrs' /\ ptrs'[id] = ptrs[id]
  BY <1>1, <1>2
<1>4. NoPtr \in Pointers /\ ~ (NoPtr.AllocLength > 0) /\ ~ (NoPtr.Length > 0)
  BY DEF NoPtr, Pointers
<1>5. \A a \in DOMAIN ptrs' : ptrs'[a].AllocLength > 0 \/ ptrs'[a].Length > 0
                               => a \in DOMAIN ptrs /\ ptrs'[a] = ptrs[a]
  BY <1>3, <1>4
<1>6. ptrs' \in [DOMAIN ptrs' -> Pointers]
  <2>1. \A a \in DOMAIN ptrs' : ptrs'[a] \in Pointers
    BY <1>1, <1>3, <1>4
  <2> QED
    BY <2>1
<1>7. Inside(ptrs', holes, storage_size) /\ NoOverlap(ptrs', holes)
  <2>1. Inside(ptrs', holes, storage_size)
    BY <1>1, <1>5 DEF Layout, Inside
  <2>2. NoOverlap(ptrs', holes)
    BY <1>1, <1>5 DEF Layout, NoOverlap
  <2> QED
    BY <2>1, <2>2
<1>8. StorageInv'
  BY <1>1, <1>5, <1>6, <1>7 DEF StorageInv, Layout, Readable
<1>9. OthersStay
  BY <1>1, <1>3 DEF OthersStay, Stored, PtrOf
<1> QED
  BY <1>1, <1>8, <1>9

LEMMA AddInnerKeeps ==
  ASSUME IInv, NEW t, AddInner(t)
  PROVE  IInv' /\ OthersStay
<1> DEFINE link  == ID - at[t].cur - 1
           w == IF LinkBytes(link) > Buf.node.width THEN LinkBytes(link) ELSE Buf.node.width
           s == InsertAt(Buf.node.entries, Focus(t), Entry(Want(t), link % Power[w]))
<1>1. /\ Buf' = [node |-> [width |-> w, entries |-> s], changed |-> TRUE]
      /\ ID' = ID + 1 /\ ptrs' = [id \in 0..ID |-> PtrOf(id)]
      /\ UNCHANGED <<storage, storage_size, holes>>
  BY DEF AddInner
<1>2. IsNode([width |-> w, entries |-> s])
  <2>1. IsNode(Buf.node) /\ Focus(t) \in 1..Len(Buf.node.entries) + 1
    BY FocusType DEF IInv
  <2>2. LinkBytes(link) \in Nat /\ Buf.node.width \in Nat
    BY <2>1, LinkBytesType DEF IsNode
  <2>3. w \in Nat
    BY <2>2
  <2> HIDE DEF w, link
  <2> QED
    BY <2>1, <2>3, InsertionMakesNode
<1>3. ptrs' = [id \in 0..ID |-> IF id = ID THEN NoPtr ELSE ptrs[id]]
  <2>1. \A id \in 0..ID : PtrOf(id) = IF id = ID THEN NoPtr ELSE ptrs[id]
    BY DEF IInv, PtrOf
  <2> QED
    BY <1>1, <2>1
<1> HIDE DEF s, w, link
<1>4. /\ StorageInv' /\ ID' \in Nat /\ DOMAIN ptrs' = 0..ID' - 1
      /\ OthersStay
  BY <1>1, <1>3, NewNodeKeeps
<1> QED
  BY <1>1, <1>2, <1>4 DEF IInv

LEMMA RecreateKeeps ==
  ASSUME IInv, NEW t, Recreate(t)
  PROVE  IInv' /\ OthersStay
<1>1. /\ ID' = ID + 1 /\ ptrs' = [id \in 0..ID |-> IF id = ID THEN NoPtr ELSE ptrs[id]]
      /\ UNCHANGED <<storage, storage_size, holes, Buf>>
  BY DEF Recreate
<1>2. /\ StorageInv' /\ ID' \in Nat /\ DOMAIN ptrs' = 0..ID' - 1
      /\ OthersStay
  BY <1>1, NewNodeKeeps
<1> QED
  BY <1>1, <1>2 DEF IInv

\* Writing in place: in the buffer, and in the storage that it has been read from.
LEMMA UpdateKeeps ==
  ASSUME IInv, NEW t, Update(t)
  PROVE  IInv' /\ OthersStay
<1> PICK node : node = [Buf.node EXCEPT !.entries[Focus(t)].link = at[t].gates]
  OBVIOUS
<1>1. /\ Hit(t) /\ UNCHANGED <<ID, ptrs, storage_size, holes>>
      /\ \/ UNCHANGED <<Buf, storage>>
         \/ /\ Buf' = [Buf EXCEPT !.node = node]
            /\ \/ storage' = storage
               \/ ~Buf.changed /\ storage' = [storage EXCEPT ![PtrOf(BufOwner).Ptr] = node]
  BY DEF Update
<1>2. IsNode(node)
  <2>1. IsNode(Buf.node) /\ Focus(t) \in 1..Len(Buf.node.entries) + 1
    BY FocusType DEF IInv
  <2>2. Focus(t) <= Len(Buf.node.entries) /\ Len(Buf.node.entries) \in Nat
    BY <1>1, <2>1 DEF Hit, IsNode
  <2>3. Focus(t) \in 1..Len(Buf.node.entries)
    BY <2>1, <2>2
  <2> QED
    BY <2>1, <2>3, UpdateMakesNode
<1>3. Buf' = [node |-> Buf.node, changed |-> Buf.changed]'  /\ IsNode(Buf.node)'
  BY <1>1, <1>2 DEF IInv
<1>4. DOMAIN storage' = DOMAIN storage /\ \A p \in DOMAIN storage' : IsNode(storage'[p])
  BY <1>1, <1>2 DEF IInv, StorageInv
<1>5. StorageInv'
  BY <1>1, <1>4 DEF IInv, StorageInv, Layout, Inside, NoOverlap, Readable
<1>6. OthersStay
  <2>1. CASE storage' = storage
    BY <1>1, <2>1 DEF OthersStay, Stored, PtrOf
  <2>2. CASE ~Buf.changed /\ storage' = [storage EXCEPT ![PtrOf(BufOwner).Ptr] = node]
    <3> SUFFICES ASSUME NEW a \in DOMAIN ptrs, a # BufOwner, PtrOf(BufOwner).AllocLength > 0
                 PROVE  Stored(a)' = Stored(a)
      BY <2>1, <2>2 DEF OthersStay, IInv
    <3>1. PtrOf(a) = ptrs[a] /\ PtrOf(a)' = ptrs[a]
      BY <1>1 DEF PtrOf
    <3>2. BufOwner \in DOMAIN ptrs /\ PtrOf(BufOwner) = ptrs[BufOwner]
      BY DEF PtrOf, NoPtr
    <3>3. CASE ptrs[a].Length = 0
      BY <3>1, <3>3 DEF Stored
    <3>4. CASE ptrs[a].Length # 0
      <4>1. ptrs[a] \in Pointers /\ ptrs[BufOwner] \in Pointers
        BY <3>2 DEF IInv, StorageInv, Layout
      <4>2. ptrs[a].AllocLength > 0 /\ ptrs[BufOwner].AllocLength > 0
        BY <3>2, <3>4, <4>1 DEF IInv, StorageInv, Readable, Pointers
      <4>3. Apart(Slot(ptrs[a]), Slot(ptrs[BufOwner]))
        BY <3>2, <4>2 DEF IInv, StorageInv, Layout, NoOverlap
      <4>4. ptrs[a].Ptr # ptrs[BufOwner].Ptr
        BY <4>1, <4>2, <4>3 DEF Apart, Slot, Pointers
      <4>5. storage'[ptrs[a].Ptr] = storage[ptrs[a].Ptr]
        <5>1. ptrs[a].Ptr \in DOMAIN storage
          BY <3>4, <4>1 DEF IInv, StorageInv, Readable, Pointers
        <5> QED
          BY <2>2, <3>2, <4>4, <5>1
      <4> QED
        BY <3>1, <3>4, <4>5 DEF Stored
    <3> QED
      BY <3>3, <3>4
  <2> QED
    BY <1>1, <2>1, <2>2
<1> QED
  BY <1>1, <1>3, <1>5, <1>6 DEF IInv

\* DeleteArray() writes back what is in the buffer, or everything goes.
LEMMA DeleteRootKeeps ==
  ASSUME IInv, NEW t, NEW tree, DeleteRoot(t, tree)
  PROVE  IInv' /\ OthersStay
<1>1. CASE Wipe
  <2>1. /\ ID' = 0 /\ ptrs' = << >> /\ storage' = << >> /\ storage_size' = 0 /\ holes' = {}
        /\ Buf' = [node |-> Empty, changed |-> TRUE]
    BY <1>1 DEF Wipe
  <2>2. DOMAIN ptrs' = {} /\ DOMAIN storage' = {} /\ 0..0 - 1 = {}
    BY <2>1
  <2>3. Layout(ptrs', holes', storage_size')
    <3>1. ptrs' \in [DOMAIN ptrs' -> Pointers]
      BY <2>1, <2>2
    <3> QED
      BY <2>1, <2>2, <3>1 DEF Layout, Inside, NoOverlap
  <2>4. StorageInv'
    BY <2>2, <2>3 DEF StorageInv, Readable
  <2> QED
    BY <2>1, <2>2, <2>4, EmptyIsNode DEF IInv, OthersStay
<1>2. CASE ReadInner(tree)
  <2>1. CASE UNCHANGED <<ptrs, storage, storage_size, holes, Buf, BufOwner>>
    <3>1. UNCHANGED ID
      BY <1>2 DEF ReadInner
    <3>2. StorageInv' /\ OthersStay
      BY <2>1 DEF IInv, StorageInv, Layout, Inside, NoOverlap, Readable, OthersStay, Stored, PtrOf
    <3> QED
      BY <2>1, <3>1, <3>2 DEF IInv
  <2>2. CASE ~ UNCHANGED <<ptrs, storage, storage_size, holes, Buf, BufOwner>>
    <3>1. /\ Flush /\ UNCHANGED ID
          /\ Buf' = [node |-> NodeNow(LastRead(tree)), changed |-> FALSE]
      BY <1>2, <2>2 DEF ReadInner
    <3>2. /\ StorageInv' /\ DOMAIN ptrs' = DOMAIN ptrs
          /\ \A a \in DOMAIN ptrs : a # BufOwner => Stored(a)' = Stored(a)
      BY <3>1, FlushKeeps DEF IInv
    <3>3. IsNode(NodeNow(LastRead(tree)))
      BY StoredIsNode
    <3> QED
      BY <3>1, <3>2, <3>3 DEF IInv, OthersStay
  <2> QED
    BY <2>1, <2>2
<1> QED
  BY <1>1, <1>2 DEF DeleteRoot

\* Every step keeps the places apart, and the other nodes as they are.
LEMMA StepKeeps ==
  ASSUME IInv, [Next]_vars
  PROVE  IInv' /\ OthersStay
<1>1. CASE UNCHANGED vars
  BY <1>1, VectorsKeep DEF vars, vectors
<1>2. CASE Next
  <2> PICK t \in Threads :
        \/ \E tree \in DOMAIN RootID : DeleteRoot(t, tree)
        \/ \E tree \in DOMAIN RootID, key \in Keys, gates \in Gates : Offer(t, tree, key, gates)
        \/ Seek(t) \/ WriteBack(t) \/ TakeOver(t) \/ Load(t) \/ Descend(t) \/ Found(t)
        \/ Peeked(t) \/ Lock(t) \/ RaceEvaded(t) \/ Store(t)
        \/ Update(t) \/ AddLeaf(t) \/ AddInner(t)
        \/ Recreate(t)
    BY <1>2 DEF Next
  <2>1. ASSUME NEW tree \in DOMAIN RootID, DeleteRoot(t, tree)
        PROVE  IInv' /\ OthersStay
    BY <2>1, DeleteRootKeeps
  <2>2. ASSUME NEW tree, NEW key, NEW gates, Offer(t, tree, key, gates)
        PROVE  IInv' /\ OthersStay
    BY <2>2, VectorsKeep DEF Offer
  <2>3. CASE Seek(t)
    BY <2>3, VectorsKeep DEF Seek
  <2>4. CASE Load(t)
    BY <2>4, LoadKeeps
  <2>5. CASE Descend(t)
    BY <2>5, VectorsKeep DEF Descend
  <2>6. CASE Found(t)
    BY <2>6, VectorsKeep DEF Found
  <2>7. CASE Peeked(t)
    BY <2>7, VectorsKeep DEF Peeked
  <2>8. CASE Lock(t)
    BY <2>8, VectorsKeep DEF Lock
  <2>9. CASE RaceEvaded(t)
    BY <2>9, VectorsKeep DEF RaceEvaded
  <2>10. CASE Store(t)
    BY <2>10, VectorsKeep DEF Store
  <2>11. CASE Update(t)
    BY <2>11, UpdateKeeps
  <2>12. CASE AddLeaf(t)
    BY <2>12, AddLeafKeeps
  <2>13. CASE AddInner(t)
    BY <2>13, AddInnerKeeps
  <2>14. CASE Recreate(t)
    BY <2>14, RecreateKeeps
  <2>15. CASE WriteBack(t)
    BY <2>15, WriteBackKeeps
  <2>16. CASE TakeOver(t)
    BY <2>16, TakeOverKeeps
  <2> QED
    BY <2>1, <2>2, <2>3, <2>4, <2>5, <2>6, <2>7, <2>8, <2>9, <2>10, <2>11, <2>12, <2>13,
       <2>14, <2>15, <2>16
<1> QED
  BY <1>1, <1>2

LEMMA Invariance == Spec => []IInv
<1>1. Init => IInv
  BY InitIInv
<1>2. IInv /\ [Next]_vars => IInv'
  BY StepKeeps
<1> QED
  BY <1>1, <1>2, PTL DEF Spec

\* As long as no two look-ups have overlapped, no two nodes of the storage share
\* a byte, and none has a byte that is up for reuse, whatever nodes have moved
\* (SlotsDisjoint, of StupidVec::Reassign).
THEOREM PlacesNeverOverlap == Spec => []SlotsDisjoint
<1>1. ASSUME IInv
      PROVE  SlotsDisjoint
  <2> DEFINE Live  == {id \in DOMAIN ptrs : ptrs[id].AllocLength > 0}
             slot == [id \in Live |-> <<ptrs[id].AllocLength, ptrs[id].Ptr>>]
             Slots == {<<ptrs[id].AllocLength, ptrs[id].Ptr>> : id \in Live}
  <2>1. /\ ptrs \in [DOMAIN ptrs -> Pointers] /\ holes \subseteq (Nat \ {0}) \X Nat
        /\ NoOverlap(ptrs, holes)
        /\ ID \in Nat /\ DOMAIN ptrs = 0..ID - 1
    BY <1>1 DEF IInv, StorageInv, Layout
  <2>2. \A a \in Live : /\ a \in DOMAIN ptrs /\ ptrs[a].AllocLength \in Nat /\ ptrs[a].Ptr \in Nat
                        /\ ptrs[a].AllocLength > 0
                        /\ slot[a] = Slot(ptrs[a])
                        /\ slot[a][1] > 0 /\ slot[a][1] \in Nat /\ slot[a][2] \in Nat
    BY <2>1 DEF Pointers, Slot
  <2>3. \A h \in holes : h[1] \in Nat /\ h[2] \in Nat /\ h[1] > 0
    BY <2>1
  <2>4. ASSUME NEW a \in Live, NEW b \in Live, a # b
        PROVE  Apart(slot[a], slot[b])
    <3>1. Apart(Slot(ptrs[a]), Slot(ptrs[b]))
      BY <2>1, <2>2, <2>4 DEF NoOverlap
    <3> QED
      BY <2>2, <3>1
  <2>5. \A a \in Live, h \in holes : Apart(slot[a], h)
    BY <2>1, <2>2 DEF NoOverlap
  <2>6. /\ \A s \in Slots : \E a \in Live : s = slot[a]
        /\ \A a \in Live : slot[a] \in Slots
    <3>1. \A a \in Live : slot[a] = <<ptrs[a].AllocLength, ptrs[a].Ptr>>
      OBVIOUS
    <3> HIDE DEF slot, Live
    <3> QED
      BY <3>1
  <2>7. Cardinality(Slots) = Cardinality(Live)
    <3>1. IsFiniteSet(Live)
      <4>1. 0 \in Int /\ ID - 1 \in Int
        BY <2>1
      <4>2. IsFiniteSet(0..ID - 1)
        BY <4>1, FS_Interval
      <4>3. Live \subseteq 0..ID - 1
        BY <2>1
      <4> QED
        BY <4>2, <4>3, FS_Subset
    <3>2. \A a, b \in Live : slot[a] = slot[b] => a = b
      <4> SUFFICES ASSUME NEW a \in Live, NEW b \in Live, slot[a] = slot[b], a # b
                   PROVE  FALSE
        OBVIOUS
      <4>1. Apart(slot[a], slot[b])
        BY <2>4
      <4> HIDE DEF slot
      <4> QED
        BY <2>2, <4>1 DEF Apart
    <3>3. slot \in Bijection(Live, Slots)
      <4>1. slot \in [Live -> Slots]
        <5>1. slot = [a \in Live |-> slot[a]]
          OBVIOUS
        <5> HIDE DEF slot, Slots, Live
        <5> QED
          BY <2>6, <5>1
      <4>2. \A s \in Slots : \E a \in Live : slot[a] = s
        BY <2>6
      <4> HIDE DEF slot, Slots, Live
      <4> QED
        BY <3>2, <4>1, <4>2 DEF Bijection, Injection, Surjection, IsInjective
    <3> HIDE DEF slot, Slots, Live
    <3> QED
      BY <3>1, <3>3, FS_Bijection DEF ExistsBijection
  <2> HIDE DEF slot, Slots, Live
  <2>8. Slots \cap holes = {}
    <3> SUFFICES ASSUME NEW a \in Live, slot[a] \in holes
                 PROVE  FALSE
      BY <2>6
    <3>1. Apart(slot[a], slot[a])
      BY <2>5
    <3> QED
      BY <2>2, <3>1 DEF Apart
  <2>9. ASSUME NEW a \in Slots \cup holes, NEW b \in Slots \cup holes, a # b
        PROVE  Apart(a, b)
    <3>1. CASE a \in Slots /\ b \in Slots
      BY <2>4, <2>6, <2>9, <3>1
    <3>2. CASE a \in Slots /\ b \in holes
      BY <2>5, <2>6, <3>2
    <3>3. CASE a \in holes /\ b \in Slots
      <4>1. Apart(b, a)
        BY <2>5, <2>6, <3>3
      <4> QED
        BY <4>1 DEF Apart
    <3>4. CASE a \in holes /\ b \in holes
      BY <2>1, <2>9, <3>4 DEF NoOverlap
    <3> QED
      BY <3>1, <3>2, <3>3, <3>4
  <2> QED
    BY <2>7, <2>8, <2>9 DEF SlotsDisjoint, Slots, Live, Apart
<1> QED
  BY <1>1, Invariance, PTL

\* As long as no two look-ups have overlapped, a step that writes back the buffer,
\* or writes where the node in it is, is not seen in any other node, also of
\* another tree (WritesKeepOthers).
THEOREM OthersKeep == Spec => WritesKeepOthers
<1>1. IInv /\ [Next]_vars => [overlapped' \/ OthersStay]_vars
  BY StepKeeps
<1> QED
  BY <1>1, Invariance, PTL DEF Spec, WritesKeepOthers
-----------------------------------------------------------------------------
\* Functions that are defined step by step.

\* f starts with base, and goes from f[n - 1] to f[n] as step[n] has it.
Follows(f, i, N, base, step) ==
  f = [n \in i..N |-> IF n = i THEN base ELSE step[n][f[n - 1]]]

\* Such a recursion has a solution, with the values that base and step have.
LEMMA FollowerExists ==
  ASSUME NEW i \in Nat, NEW N \in Nat, NEW S, NEW base \in S, NEW step,
         \A n \in i + 1..N : \A x \in S : step[n][x] \in S
  PROVE  \E f : Follows(f, i, N, base, step) /\ \A n \in i..N : f[n] \in S
<1> DEFINE Solved(k) == \E f : Follows(f, i, k, base, step) /\ \A n \in i..k : f[n] \in S
           Bad == {k \in 0..N : ~ Solved(k)}
<1> HIDE DEF Solved
<1>1. ASSUME Bad # {}
      PROVE  FALSE
  <2>1. PICK k \in Bad : \A c \in Bad : k <= c
    <3>1. Bad \subseteq Nat
      OBVIOUS
    <3> QED
      BY <1>1, <3>1, LeastExists
  <2>2. k \in 0..N /\ ~ Solved(k)
    BY <2>1
  <2>3. CASE k <= i
    <3> DEFINE f == [n \in i..k |-> base]
    <3>1. \A n \in i..k : n = i
      BY <2>2, <2>3
    <3>2. f = [n \in i..k |-> IF n = i THEN base ELSE step[n][f[n - 1]]]
      BY <3>1
    <3>3. \A n \in i..k : f[n] \in S
      OBVIOUS
    <3> HIDE DEF f
    <3>4. Solved(k)
      BY <3>2, <3>3 DEF Solved, Follows
    <3> QED
      BY <2>2, <3>4
  <2>4. CASE k > i
    <3>1. k - 1 \in 0..N /\ k - 1 \notin Bad /\ k - 1 \in i..k - 1 /\ k \in i + 1..N
      BY <2>1, <2>2, <2>4
    <3>2. PICK f : Follows(f, i, k - 1, base, step) /\ \A n \in i..k - 1 : f[n] \in S
      BY <3>1 DEF Solved
    <3> DEFINE g == [n \in i..k |-> IF n = k THEN step[k][f[k - 1]] ELSE f[n]]
    <3>3. \A n \in i..k - 1 : n \in i..k /\ n # k /\ g[n] = f[n]
      OBVIOUS
    <3>4. g[k] = step[k][f[k - 1]]
      BY <2>2, <2>4
    <3>5. \A n \in i..k : g[n] \in S
      BY <3>1, <3>2, <3>3, <3>4
    <3>6. \A n \in i..k : g[n] = IF n = i THEN base ELSE step[n][g[n - 1]]
      <4> TAKE n \in i..k
      <4>1. CASE n = k
        <5>1. g[k - 1] = f[k - 1]
          BY <3>1, <3>3
        <5> HIDE DEF g
        <5> QED
          BY <2>4, <3>4, <4>1, <5>1
      <4>2. CASE n # k
        <5>1. n \in i..k - 1
          BY <2>2, <4>2
        <5>2. f[n] = IF n = i THEN base ELSE step[n][f[n - 1]]
          BY <3>2, <5>1 DEF Follows
        <5>3. CASE n = i
          BY <3>3, <5>1, <5>2, <5>3
        <5>4. CASE n # i
          <6>1. n - 1 \in i..k - 1
            BY <5>1, <5>4
          <6>2. g[n] = f[n] /\ g[n - 1] = f[n - 1]
            BY <3>3, <5>1, <6>1
          <6> HIDE DEF g
          <6> QED
            BY <5>2, <5>4, <6>2
        <5> QED
          BY <5>3, <5>4
      <4> QED
        BY <4>1, <4>2
    <3>7. g = [n \in i..k |-> g[n]]
      OBVIOUS
    <3> HIDE DEF g
    <3>8. g = [n \in i..k |-> IF n = i THEN base ELSE step[n][g[n - 1]]]
      BY <3>6, <3>7
    <3>9. Solved(k)
      BY <3>5, <3>8 DEF Solved, Follows
    <3> QED
      BY <2>2, <3>9
  <2> QED
    BY <2>2, <2>3, <2>4
<1>2. Solved(N)
  BY <1>1
<1> QED
  BY <1>2 DEF Solved
-----------------------------------------------------------------------------
\* Powers of Base.

\* Power is the function its definition describes.
LEMMA Powers ==
  /\ \A n \in 0..MaxID + 1 : Power[n] \in Nat
  /\ Power[0] = 1 /\ \A n \in 1..MaxID + 1 : Power[n] = Base * Power[n - 1]
<1> DEFINE N == MaxID + 1
           step == [n \in 1..N |-> [x \in Nat |-> Base * x]]
<1>1. N \in Nat /\ Base \in Nat
  BY RadixAssumption
<1>2. \A n \in 0 + 1..N : \A x \in Nat : step[n][x] = Base * x /\ step[n][x] \in Nat
  BY <1>1
<1>3. PICK f : Follows(f, 0, N, 1, step) /\ \A n \in 0..N : f[n] \in Nat
  <2> HIDE DEF step, N
  <2>1. 0 \in Nat /\ 1 \in Nat /\ \A n \in 0 + 1..N : \A x \in Nat : step[n][x] \in Nat
    BY <1>2
  <2> QED
    BY <1>1, <2>1, FollowerExists, Zenon
<1>4. f = [n \in 0..N |-> IF n = 0 THEN 1 ELSE Base * f[n - 1]]
  <2>1. \A n \in 0..N : n # 0 => n \in 0 + 1..N /\ n - 1 \in 0..N
    BY <1>1
  <2>2. \A n \in 0..N : n # 0 => step[n][f[n - 1]] = Base * f[n - 1]
    <3> HIDE DEF step, N
    <3> QED
      BY <1>2, <1>3, <2>1
  <2> HIDE DEF step, N
  <2> QED
    BY <1>3, <2>2 DEF Follows
<1>5. Power = [n \in 0..N |-> IF n = 0 THEN 1 ELSE Base * Power[n - 1]]
  BY <1>4 DEF Power
<1>6. Power[0] = 1 /\ \A n \in 1..N : n \in 0..N /\ Power[n] = Base * Power[n - 1]
  BY <1>1, <1>5
<1>7. \A n \in 0..N : Power[n] \in Nat
  <2> DEFINE Bad == {n \in 0..N : Power[n] \notin Nat}
  <2> HIDE DEF N
  <2> SUFFICES ASSUME Bad # {} PROVE FALSE
    OBVIOUS
  <2>1. PICK n \in Bad : \A c \in Bad : n <= c
    <3>1. Bad \subseteq Nat
      BY <1>1
    <3> QED
      BY <3>1, LeastExists
  <2>2. n # 0
    BY <1>6, <2>1
  <2>3. n - 1 \in 0..N /\ n - 1 \notin Bad
    BY <1>1, <2>1, <2>2
  <2>4. Power[n - 1] \in Nat /\ n \in 1..N
    BY <1>1, <2>1, <2>2, <2>3
  <2>5. Power[n] \in Nat
    <3>1. Power[n] = Base * Power[n - 1]
      BY <1>6, <2>4
    <3> QED
      BY <1>1, <2>4, <3>1
  <2> QED
    BY <2>1, <2>5
<1> QED
  BY <1>6, <1>7

\* A set of numbers that has, with each of them, all that are below, is an
\* interval, and as long as it has elements.
LEMMA SegmentCounted ==
  ASSUME NEW m \in Nat, NEW S, S \subseteq 1..m, \A a \in S : \A b \in 1..a : b \in S
  PROVE  Cardinality(S) \in 0..m /\ S = 1..Cardinality(S)
<1>1. CASE S = {}
  <2>1. Cardinality(S) = 0 /\ 1..0 = {}
    BY <1>1, FS_EmptySet
  <2> QED
    BY <1>1, <2>1
<1>2. CASE S # {}
  <2>1. PICK k \in S : \A a \in S : a <= k
    BY <1>2, LastExists
  <2>2. k \in 1..m /\ \A b \in 1..k : b \in S
    BY <2>1
  <2>3. \A a \in S : a \in 1..k
    BY <2>1, <2>2
  <2>4. S = 1..k
    BY <2>2, <2>3
  <2>5. Cardinality(1..k) = k
    BY <2>2, FS_Interval
  <2> QED
    BY <2>2, <2>4, <2>5
<1> QED
  BY <1>1, <1>2

\* The powers grow.
LEMMA PowersGrow ==
  /\ \A n \in 0..MaxID + 1 : Power[n] > n
  /\ \A m, n \in 0..MaxID + 1 : m <= n => Power[m] <= Power[n]
<1>1. /\ MaxID \in Nat /\ Base \in Nat /\ Base >= 2
      /\ \A n \in 0..MaxID + 1 : Power[n] \in Nat
      /\ Power[0] = 1 /\ \A n \in 1..MaxID + 1 : Power[n] = Base * Power[n - 1]
  BY RadixAssumption, Powers
<1>2. ASSUME NEW x \in Nat
      PROVE  Base * x >= 2 * x
  BY <1>1
<1>3. \A n \in 1..MaxID + 1 : Power[n] >= 2 * Power[n - 1]
  <2> TAKE n \in 1..MaxID + 1
  <2>1. n - 1 \in 0..MaxID + 1
    BY <1>1
  <2> QED
    BY <1>1, <1>2, <2>1
<1>4. \A n \in 0..MaxID + 1 : Power[n] > n
  <2> DEFINE Bad == {n \in 0..MaxID + 1 : ~ (Power[n] > n)}
  <2> SUFFICES ASSUME Bad # {} PROVE FALSE
    OBVIOUS
  <2>1. PICK n \in Bad : \A c \in Bad : n <= c
    <3>1. Bad \subseteq Nat
      BY <1>1
    <3> QED
      BY <3>1, LeastExists
  <2>2. n # 0 /\ n \in 0..MaxID + 1
    BY <1>1, <2>1
  <2>3. n - 1 \in 0..MaxID + 1 /\ n \in 1..MaxID + 1 /\ n - 1 \notin Bad
    BY <1>1, <2>1, <2>2
  <2>4. Power[n - 1] > n - 1 /\ Power[n - 1] \in Nat /\ Power[n] >= 2 * Power[n - 1]
    BY <1>1, <1>3, <2>3
  <2>5. Power[n] \in Nat /\ ~ (Power[n] > n)
    BY <1>1, <2>1
  <2> HIDE DEF Bad
  <2> QED
    BY <1>1, <2>2, <2>4, <2>5
<1>5. ASSUME NEW m \in 0..MaxID + 1
      PROVE  \A n \in 0..MaxID + 1 : m <= n => Power[m] <= Power[n]
  <2> DEFINE Bad == {n \in 0..MaxID + 1 : m <= n /\ ~ (Power[m] <= Power[n])}
  <2> SUFFICES ASSUME Bad # {} PROVE FALSE
    OBVIOUS
  <2>1. PICK n \in Bad : \A c \in Bad : n <= c
    <3>1. Bad \subseteq Nat
      BY <1>1
    <3> QED
      BY <3>1, LeastExists
  <2>2. n # m /\ n \in 0..MaxID + 1 /\ m <= n /\ Power[m] \in Nat /\ Power[n] \in Nat
    BY <1>1, <2>1
  <2>3. n - 1 \in 0..MaxID + 1 /\ n \in 1..MaxID + 1 /\ n - 1 \notin Bad /\ m <= n - 1
    BY <1>1, <2>1, <2>2
  <2>4. Power[m] <= Power[n - 1] /\ Power[n - 1] \in Nat /\ Power[n] >= 2 * Power[n - 1]
    BY <1>1, <1>3, <2>3
  <2>5. ~ (Power[m] <= Power[n])
    BY <2>1
  <2> HIDE DEF Bad
  <2> QED
    BY <2>2, <2>4, <2>5
<1> QED
  BY <1>4, <1>5

\* A link fits in as many bytes as it is given, and in more.
LEMMA LinkFits ==
  ASSUME NEW link \in 0..MaxID
  PROVE  /\ LinkBytes(link) \in 1..MaxID + 1
         /\ \A w \in LinkBytes(link)..MaxID + 1 : link < Power[w]
<1> DEFINE over == {n \in 1..MaxID : link >= Power[n]}
<1>1. /\ MaxID \in Nat /\ \A n \in 0..MaxID + 1 : Power[n] \in Nat /\ Power[n] > n
      /\ \A m, n \in 0..MaxID + 1 : m <= n => Power[m] <= Power[n]
  BY RadixAssumption, Powers, PowersGrow
<1>2. \A a \in over : \A b \in 1..a : b \in over
  <2> TAKE a \in over
  <2> TAKE b \in 1..a
  <2>1. /\ a \in 1..MaxID /\ link >= Power[a] /\ b \in 1..MaxID /\ b <= a
        /\ a \in 0..MaxID + 1 /\ b \in 0..MaxID + 1
    BY <1>1
  <2>2. Power[a] \in Nat /\ Power[b] \in Nat /\ Power[b] <= Power[a]
    BY <1>1, <2>1
  <2> HIDE DEF over
  <2>3. link >= Power[b]
    BY <2>1, <2>2
  <2> QED
    BY <2>1, <2>3 DEF over
<1>3. over \subseteq 1..MaxID
  OBVIOUS
<1> PICK k : k = Cardinality(over)
  OBVIOUS
<1>4. k \in 0..MaxID /\ over = 1..k
  <2> HIDE DEF over
  <2> QED
    BY <1>1, <1>2, <1>3, SegmentCounted
<1>5. LinkBytes(link) = 1 + k
  BY DEF LinkBytes
<1>6. link < Power[k + 1]
  <2>1. k + 1 \in 0..MaxID + 1 /\ Power[k + 1] \in Nat /\ Power[k + 1] > k + 1
    BY <1>1, <1>4
  <2>2. CASE k = MaxID
    BY <1>1, <2>1, <2>2
  <2>3. CASE k # MaxID
    <3>1. k + 1 \in 1..MaxID /\ k + 1 \notin over
      BY <1>1, <1>4, <2>3
    <3> QED
      BY <2>1, <3>1
  <2> QED
    BY <2>2, <2>3
<1> HIDE DEF over
<1>7. ASSUME NEW w \in k + 1..MaxID + 1
      PROVE  link < Power[w]
  <2>1. w \in 0..MaxID + 1 /\ k + 1 \in 0..MaxID + 1 /\ k + 1 <= w
    BY <1>1, <1>4
  <2>2. Power[w] \in Nat /\ Power[k + 1] \in Nat /\ Power[k + 1] <= Power[w]
    BY <1>1, <2>1
  <2> QED
    BY <1>6, <2>2
<1>8. k + 1 \in 1..MaxID + 1
  BY <1>1, <1>4
<1> QED
  <2>1. 1 + k = k + 1
    BY <1>1, <1>4
  <2>2. LinkBytes(link) = k + 1
    BY <1>5, <2>1, Zenon
  <2> QED
    BY <1>7, <1>8, <2>2
-----------------------------------------------------------------------------
\* Entries.

\* An entry of a node, in a leaf or above.
Entries == [token : Nat, link : Nat]

\* The entries have a token and a link each, and are in order.
Sorted(s) ==
  /\ s \in Seq(Entries)
  /\ \A a, b \in 1..Len(s) : a < b => s[a].token < s[b].token

\* No two entries have the same token.
LEMMA TokenOnce ==
  ASSUME NEW s, Sorted(s), NEW a \in 1..Len(s), NEW b \in 1..Len(s), s[a].token = s[b].token
  PROVE  a = b
<1>1. Len(s) \in Nat /\ s[a] \in Entries /\ s[b] \in Entries
  BY DEF Sorted
<1>2. s[a].token \in Nat /\ s[b].token \in Nat
  BY <1>1 DEF Entries
<1> QED
  BY <1>1, <1>2 DEF Sorted

\* The first entry that is not below x.
First(s, x) == Cardinality({n \in DOMAIN s : s[n].token < x}) + 1

\* Everything before it is below x, and nothing behind it.
LEMMA FirstFound ==
  ASSUME NEW s, Sorted(s), NEW x \in Nat
  PROVE  /\ First(s, x) \in 1..Len(s) + 1
         /\ \A n \in 1..Len(s) : s[n].token < x <=> n < First(s, x)
<1> DEFINE below == {n \in DOMAIN s : s[n].token < x}
<1>1. Len(s) \in Nat /\ DOMAIN s = 1..Len(s) /\ \A n \in 1..Len(s) : s[n].token \in Nat
  <2>1. Len(s) \in Nat /\ DOMAIN s = 1..Len(s) /\ \A n \in 1..Len(s) : s[n] \in Entries
    BY DEF Sorted
  <2> QED
    BY <2>1 DEF Entries
<1>2. \A a \in below : \A b \in 1..a : b \in below
  <2> TAKE a \in below
  <2> TAKE b \in 1..a
  <2>1. a \in 1..Len(s) /\ b \in 1..Len(s) /\ s[a].token < x /\ s[b].token \in Nat
        /\ s[a].token \in Nat
    BY <1>1
  <2>2. b = a \/ s[b].token < s[a].token
    BY <2>1 DEF Sorted
  <2>3. s[b].token < x
    BY <2>1, <2>2
  <2> QED
    BY <1>1, <2>1, <2>3
<1> PICK k : k = Cardinality(below)
  OBVIOUS
<1>3. k \in 0..Len(s) /\ below = 1..k
  <2>1. below \subseteq 1..Len(s)
    BY <1>1
  <2> HIDE DEF below
  <2> QED
    BY <1>1, <1>2, <2>1, SegmentCounted
<1>4. First(s, x) = k + 1
  BY DEF First
<1>5. \A n \in 1..Len(s) : s[n].token < x <=> n \in 1..k
  BY <1>1, <1>3
<1> HIDE DEF below
<1>6. \A n \in 1..Len(s) : n \in 1..k <=> n < k + 1
  BY <1>1, <1>3
<1>7. k + 1 \in 1..Len(s) + 1
  BY <1>1, <1>3
<1> QED
  BY <1>4, <1>5, <1>6, <1>7

\* One sequence behind the other.
LEMMA ConcatenationIs ==
  ASSUME NEW S, NEW a \in Seq(S), NEW b \in Seq(S)
  PROVE  /\ a \o b \in Seq(S) /\ Len(a \o b) = Len(a) + Len(b)
         /\ \A m \in 1..Len(a) : (a \o b)[m] = a[m]
         /\ \A m \in 1..Len(b) : (a \o b)[Len(a) + m] = b[m]
<1>1. Len(a) \in Nat /\ Len(b) \in Nat
  OBVIOUS
<1>2. a \o b \in Seq(S) /\ Len(a \o b) = Len(a) + Len(b)
  OBVIOUS
<1>3. \A m \in 1..Len(a) : (a \o b)[m] = a[m]
  BY <1>1
<1>4. ASSUME NEW m \in 1..Len(b)
      PROVE  (a \o b)[Len(a) + m] = b[m]
  <2>1. /\ Len(a) + m \in 1..Len(a) + Len(b) /\ ~ (Len(a) + m <= Len(a))
        /\ (Len(a) + m) - Len(a) = m
    BY <1>1
  <2> QED
    BY <1>1, <2>1
<1> QED
  BY <1>2, <1>3, <1>4

\* u is s with e as element n.
HasAt(u, s, n, e) ==
  /\ Len(u) = Len(s) + 1
  /\ \A m \in 1..Len(s) + 1 : u[m] = IF m < n THEN s[m] ELSE IF m = n THEN e ELSE s[m - 1]

\* u is d, which ends in e, and c behind it: all that is in s, of k elements.
Parts(k, n, e, s, c, d, u) ==
  /\ d[n] = e /\ \A m \in 1..n - 1 : d[m] = s[m]
  /\ \A m \in 1..k - n + 1 : c[m] = s[n + m - 1]
  /\ \A m \in 1..n : u[m] = d[m]
  /\ \A m \in 1..k - n + 1 : u[n + m] = c[m]

\* Where the elements of the parts are.
LEMMA PartsMeet ==
  ASSUME NEW k \in Nat, NEW n \in 1..k + 1, NEW e, NEW s, NEW c, NEW d, NEW u,
         Parts(k, n, e, s, c, d, u)
  PROVE  \A m \in 1..k + 1 : u[m] = IF m < n THEN s[m] ELSE IF m = n THEN e ELSE s[m - 1]
<1> TAKE m \in 1..k + 1
<1>1. CASE m < n
  <2>1. m \in 1..n - 1 /\ m \in 1..n
    BY <1>1
  <2> QED
    BY <1>1, <2>1 DEF Parts
<1>2. CASE m = n
  BY <1>2 DEF Parts
<1>3. CASE m > n
  <2>1. m - n \in 1..k - n + 1 /\ n + (m - n) = m /\ n + (m - n) - 1 = m - 1
    BY <1>3
  <2>2. u[n + (m - n)] = c[m - n] /\ c[m - n] = s[n + (m - n) - 1]
    BY <2>1 DEF Parts
  <2>3. u[m] = s[m - 1]
    BY <2>1, <2>2
  <2> QED
    BY <1>3, <2>3
<1> QED
  BY <1>1, <1>2, <1>3

\* A sequence with another element in it.
LEMMA InsertionIs ==
  ASSUME NEW S, NEW s \in Seq(S), NEW n \in 1..Len(s) + 1, NEW e \in S
  PROVE  InsertAt(s, n, e) \in Seq(S) /\ HasAt(InsertAt(s, n, e), s, n, e)
<1> DEFINE k == Len(s)
           a == SubSeq(s, 1, n - 1)
           b == <<e>>
           c == SubSeq(s, n, Len(s))
           d == a \o b
           u == d \o c
<1>1. k \in Nat /\ n \in Nat /\ n >= 1 /\ n <= k + 1 /\ n \in 1..k + 1
  OBVIOUS
<1>2. a \in Seq(S) /\ Len(a) = n - 1 /\ \A m \in 1..n - 1 : a[m] = s[m]
  BY <1>1
<1>3. c \in Seq(S) /\ Len(c) = k - n + 1 /\ \A m \in 1..k - n + 1 : c[m] = s[n + m - 1]
  BY <1>1
<1>4. b \in Seq(S) /\ Len(b) = 1 /\ b[1] = e
  OBVIOUS
<1> HIDE DEF a, b, c, k
<1>5. d \in Seq(S) /\ Len(d) = n /\ (\A m \in 1..n - 1 : d[m] = s[m]) /\ d[n] = e
  <2>1. /\ d \in Seq(S) /\ Len(d) = Len(a) + Len(b)
        /\ \A m \in 1..Len(a) : d[m] = a[m]
        /\ \A m \in 1..Len(b) : d[Len(a) + m] = b[m]
    <3>1. a \in Seq(S) /\ b \in Seq(S)
      BY <1>2, <1>4
    <3> QED
      BY <3>1, ConcatenationIs
  <2> HIDE DEF d
  <2>2. d[n - 1 + 1] = b[1]
    BY <1>2, <1>4, <2>1
  <2>3. n - 1 + 1 = n
    BY <1>1
  <2> QED
    BY <1>2, <1>4, <2>1, <2>2, <2>3
<1> HIDE DEF d
<1>6. /\ u \in Seq(S) /\ Len(u) = Len(d) + Len(c)
      /\ \A m \in 1..Len(d) : u[m] = d[m]
      /\ \A m \in 1..Len(c) : u[Len(d) + m] = c[m]
  <2>1. d \in Seq(S) /\ c \in Seq(S)
    BY <1>3, <1>5
  <2> QED
    BY <2>1, ConcatenationIs
<1>7. InsertAt(s, n, e) = u
  BY DEF InsertAt, u, d, a, b, c
<1> HIDE DEF u
<1>8. Len(u) = k + 1
  BY <1>1, <1>3, <1>5, <1>6
<1>9. \A m \in 1..n : u[m] = d[m]
  BY <1>5, <1>6
<1>10. \A m \in 1..k - n + 1 : u[n + m] = c[m]
  BY <1>3, <1>5, <1>6
<1>11. \A m \in 1..k + 1 : u[m] = IF m < n THEN s[m] ELSE IF m = n THEN e ELSE s[m - 1]
  <2>1. Parts(k, n, e, s, c, d, u)
    BY <1>3, <1>5, <1>9, <1>10 DEF Parts
  <2> QED
    BY <1>1, <2>1, PartsMeet
<1> QED
  BY <1>6, <1>7, <1>8, <1>11 DEF HasAt, k

\* The elements are those there were, and the new one.
LEMMA InsertionAdds ==
  ASSUME NEW S, NEW s \in Seq(S), NEW n \in 1..Len(s) + 1, NEW e \in S
  PROVE  Range(InsertAt(s, n, e)) = Range(s) \cup {e}
<1> PICK u : u = InsertAt(s, n, e)
  OBVIOUS
<1>1. /\ Len(s) \in Nat /\ DOMAIN s = 1..Len(s) /\ DOMAIN u = 1..Len(s) + 1
      /\ \A m \in 1..Len(s) + 1 : u[m] = IF m < n THEN s[m] ELSE IF m = n THEN e ELSE s[m - 1]
  <2>1. u \in Seq(S) /\ HasAt(u, s, n, e)
    BY InsertionIs
  <2> QED
    BY <2>1 DEF HasAt
<1>2. ASSUME NEW x \in Range(u)
      PROVE  x \in Range(s) \cup {e}
  <2>1. PICK m \in 1..Len(s) + 1 : x = u[m]
    BY <1>1 DEF Range
  <2>2. CASE m < n
    BY <1>1, <2>1, <2>2 DEF Range
  <2>3. CASE m = n
    BY <1>1, <2>1, <2>3
  <2>4. CASE m > n
    <3>1. m - 1 \in DOMAIN s /\ x = s[m - 1]
      BY <1>1, <2>1, <2>4
    <3> QED
      BY <3>1 DEF Range
  <2> QED
    BY <2>2, <2>3, <2>4
<1>3. ASSUME NEW x \in Range(s)
      PROVE  x \in Range(u)
  <2>1. PICK m \in 1..Len(s) : x = s[m]
    BY <1>1 DEF Range
  <2>2. CASE m < n
    <3>1. m \in DOMAIN u /\ u[m] = x
      BY <1>1, <2>1, <2>2
    <3> QED
      BY <3>1 DEF Range
  <2>3. CASE m >= n
    <3>1. m + 1 \in DOMAIN u /\ u[m + 1] = s[m + 1 - 1] /\ m + 1 - 1 = m
      BY <1>1, <2>1, <2>3
    <3> QED
      BY <2>1, <3>1 DEF Range
  <2> QED
    BY <1>1, <2>2, <2>3
<1>4. e \in Range(u)
  <2>1. n \in DOMAIN u /\ u[n] = e
    BY <1>1
  <2> QED
    BY <2>1 DEF Range
<1> QED
  BY <1>2, <1>3, <1>4

\* Put before the first entry that is above it, an entry keeps the order.
LEMMA InsertionSorts ==
  ASSUME NEW s, Sorted(s), NEW e \in Entries,
         ~ (First(s, e.token) <= Len(s) /\ s[First(s, e.token)].token = e.token)
  PROVE  Sorted(InsertAt(s, First(s, e.token), e))
<1> PICK n : n = First(s, e.token)
  OBVIOUS
<1> PICK u : u = InsertAt(s, n, e)
  OBVIOUS
<1>1. s \in Seq(Entries) /\ Len(s) \in Nat /\ e.token \in Nat
  BY DEF Sorted, Entries
<1>2. n \in 1..Len(s) + 1 /\ \A m \in 1..Len(s) : s[m].token < e.token <=> m < n
  BY <1>1, FirstFound
<1>3. /\ u \in Seq(Entries) /\ Len(u) = Len(s) + 1
      /\ \A m \in 1..Len(s) + 1 : u[m] = IF m < n THEN s[m] ELSE IF m = n THEN e ELSE s[m - 1]
  <2>1. u \in Seq(Entries) /\ HasAt(u, s, n, e)
    BY <1>1, <1>2, InsertionIs
  <2> QED
    BY <2>1 DEF HasAt
<1>4. \A m \in 1..Len(s) : s[m] \in Entries /\ s[m].token \in Nat
  <2>1. \A m \in 1..Len(s) : s[m] \in Entries
    BY <1>1
  <2> QED
    BY <2>1 DEF Entries
<1>5. \A m \in 1..Len(s) : m >= n => s[m].token > e.token
  <2> SUFFICES ASSUME NEW m \in 1..Len(s), m >= n
               PROVE  s[m].token > e.token
    OBVIOUS
  <2>1. n \in 1..Len(s) /\ ~ (s[n].token < e.token) /\ s[n].token # e.token
    BY <1>1, <1>2
  <2>2. s[n].token > e.token
    BY <1>1, <1>4, <2>1
  <2>3. m = n \/ s[n].token < s[m].token
    BY <1>1, <1>2, <2>1 DEF Sorted
  <2> QED
    BY <1>1, <1>4, <2>1, <2>2, <2>3
<1>6. ASSUME NEW a \in 1..Len(u), NEW b \in 1..Len(u), a < b
      PROVE  u[a].token < u[b].token
  <2>1. a \in 1..Len(s) + 1 /\ b \in 1..Len(s) + 1
    BY <1>3
  <2>2. CASE b < n
    <3>1. a < n /\ a \in 1..Len(s) /\ b \in 1..Len(s)
      BY <1>1, <1>2, <1>6, <2>1, <2>2
    <3>2. u[a] = s[a] /\ u[b] = s[b]
      BY <1>3, <2>1, <2>2, <3>1
    <3>3. s[a].token < s[b].token
      BY <1>6, <3>1 DEF Sorted
    <3> QED
      BY <3>2, <3>3
  <2>3. CASE b = n
    <3>1. a < n /\ a \in 1..Len(s)
      BY <1>1, <1>2, <1>6, <2>1, <2>3
    <3>2. u[a] = s[a] /\ u[b] = e
      BY <1>1, <1>3, <2>1, <2>3, <3>1
    <3>3. s[a].token < e.token
      BY <1>2, <3>1
    <3> QED
      BY <3>2, <3>3
  <2>4. CASE b > n
    <3>1. u[b] = s[b - 1] /\ b - 1 \in 1..Len(s) /\ b - 1 >= n
      BY <1>1, <1>2, <1>3, <2>1, <2>4
    <3>2. CASE a < n
      <4>1. u[a] = s[a] /\ a \in 1..Len(s) /\ a < b - 1
        BY <1>1, <1>2, <1>3, <2>1, <2>4, <3>2
      <4>2. s[a].token < s[b - 1].token
        BY <3>1, <4>1 DEF Sorted
      <4> QED
        BY <3>1, <4>1, <4>2
    <3>3. CASE a = n
      <4>1. u[a] = e
        BY <1>1, <1>3, <2>1, <3>3
      <4>2. s[b - 1].token > e.token /\ s[b - 1].token \in Nat
        BY <1>4, <1>5, <3>1
      <4> QED
        BY <1>1, <3>1, <4>1, <4>2
    <3>4. CASE a > n
      <4>1. u[a] = s[a - 1] /\ a - 1 \in 1..Len(s) /\ a - 1 < b - 1
        BY <1>1, <1>2, <1>3, <1>6, <2>1, <3>4
      <4>2. s[a - 1].token < s[b - 1].token
        BY <3>1, <4>1 DEF Sorted
      <4> QED
        BY <3>1, <4>1, <4>2
    <3> QED
      BY <1>1, <1>2, <2>1, <3>2, <3>3, <3>4
  <2> QED
    BY <1>1, <1>2, <2>1, <2>2, <2>3, <2>4
<1> QED
  BY <1>3, <1>6 DEF Sorted

\* Another link in an entry.
Relinked(s, n, link) == [s EXCEPT ![n].link = link]

\* The entries stay in order then.
LEMMA RelinkSorts ==
  ASSUME NEW s, Sorted(s), NEW n \in 1..Len(s), NEW link \in Nat
  PROVE  /\ Sorted(Relinked(s, n, link)) /\ Len(Relinked(s, n, link)) = Len(s)
         /\ \A m \in 1..Len(s) :
              Relinked(s, n, link)[m] = IF m = n THEN Entry(s[n].token, link) ELSE s[m]
<1> PICK u : u = Relinked(s, n, link)
  OBVIOUS
<1>1. /\ s \in Seq(Entries) /\ Len(s) \in Nat /\ s \in [1..Len(s) -> Entries]
      /\ \A m \in 1..Len(s) : s[m] \in Entries
  <2>1. s \in Seq(Entries)
    BY DEF Sorted
  <2> QED
    BY <2>1
<1>2. [s[n] EXCEPT !.link = link] = Entry(s[n].token, link)
  BY <1>1 DEF Entries, Entry
<1>3. u = [s EXCEPT ![n] = [s[n] EXCEPT !.link = link]]
  BY DEF Relinked
<1>4. u = [s EXCEPT ![n] = Entry(s[n].token, link)]
  BY <1>2, <1>3
<1>5. Entry(s[n].token, link) \in Entries
  BY <1>1 DEF Entries, Entry
<1>6. /\ u \in [1..Len(s) -> Entries]
      /\ \A m \in 1..Len(s) : u[m] = IF m = n THEN Entry(s[n].token, link) ELSE s[m]
  BY <1>1, <1>4, <1>5
<1>7. u \in Seq(Entries) /\ Len(u) = Len(s)
  BY <1>1, <1>6
<1>8. \A m \in 1..Len(s) : u[m].token = s[m].token
  <2>1. Entry(s[n].token, link).token = s[n].token
    BY DEF Entry
  <2> QED
    BY <1>6, <2>1
<1> QED
  BY <1>6, <1>7, <1>8 DEF Sorted
-----------------------------------------------------------------------------
\* The walk through the nodes of a tree.

\* A node whose entries are in order, and whose links fit in its bytes.
GoodNode(node) ==
  /\ node = [width |-> node.width, entries |-> node.entries]
  /\ node.width \in 0..MaxID + 1 /\ Sorted(node.entries)
  /\ node.width > 0 => \A n \in 1..Len(node.entries) : node.entries[n].link < Power[node.width]

\* The node without entries is one.
LEMMA EmptyIsGood == GoodNode(Empty) /\ Range(Empty.entries) = {}
<1>1. << >> \in Seq(Entries) /\ Len(<< >>) = 0 /\ MaxID \in Nat
  BY RadixAssumption
<1>2. Sorted(<< >>)
  BY <1>1 DEF Sorted
<1>3. Empty.width = 0 /\ Empty.entries = << >>
  BY DEF Empty
<1>4. Range(<< >>) = {}
  BY DEF Range
<1> QED
  BY <1>1, <1>2, <1>3, <1>4 DEF GoodNode, Empty

\* The entries of a node that have one of the tokens.
Chosen(N, id, tokens) == {e \in Range(N[id].entries) : e.token \in tokens}

\* The nodes they lead to, from all of ids.
Kids(N, ids, tokens) == UNION {{id + 1 + e.link : e \in Chosen(N, id, tokens)} : id \in ids}

\* The nodes of every level that the tokens lead to.
IsWalk(A, N, root, T) ==
  A = [n \in 1..RealSize |-> IF n = 1 THEN {root} ELSE Kids(N, A[n - 1], T[n - 1])]

WalkOf(N, root, T) == CHOOSE A : IsWalk(A, N, root, T)

NodesGood(N) == \A id \in Nat : GoodNode(N[id])

\* One of them is the child at an entry of one of ids.
LEMMA KidsAre ==
  ASSUME NEW N, NEW ids, NEW tokens, NEW x
  PROVE  x \in Kids(N, ids, tokens) <=>
           \E id \in ids : \E e \in Chosen(N, id, tokens) : x = id + 1 + e.link
BY DEF Kids

\* An entry of a node has a token and a link.
LEMMA EntriesAre ==
  ASSUME NEW N, NodesGood(N), NEW id \in Nat, NEW e \in Range(N[id].entries)
  PROVE  e \in Entries /\ e.token \in Nat /\ e.link \in Nat /\ id + 1 + e.link \in Nat
<1>1. N[id].entries \in Seq(Entries)
  BY DEF NodesGood, GoodNode, Sorted
<1>2. DOMAIN N[id].entries = 1..Len(N[id].entries)
  BY <1>1
<1>3. e \in Entries
  BY <1>1, <1>2 DEF Range
<1> QED
  BY <1>3 DEF Entries

\* One level leads to the next.
LEMMA KidsType ==
  ASSUME NEW N, NodesGood(N), NEW ids \in SUBSET Nat, NEW tokens
  PROVE  Kids(N, ids, tokens) \in SUBSET Nat
<1>1. ASSUME NEW x \in Kids(N, ids, tokens)
      PROVE  x \in Nat
  <2>1. PICK id \in ids : \E e \in Chosen(N, id, tokens) : x = id + 1 + e.link
    BY <1>1 DEF Kids
  <2>2. PICK e \in Range(N[id].entries) : x = id + 1 + e.link
    BY <2>1 DEF Chosen
  <2> QED
    BY <2>2, EntriesAre
<1> QED
  BY <1>1

\* There is one walk with given tokens, and only one.
LEMMA WalkIs ==
  ASSUME NEW N, NodesGood(N), NEW root \in Nat, NEW T
  PROVE  /\ WalkOf(N, root, T)[1] = {root}
         /\ \A n \in 1..RealSize - 1 :
              WalkOf(N, root, T)[n + 1] = Kids(N, WalkOf(N, root, T)[n], T[n])
         /\ \A n \in 1..RealSize : WalkOf(N, root, T)[n] \subseteq Nat
         /\ IsWalk(WalkOf(N, root, T), N, root, T)
<1> DEFINE step == [n \in 2..RealSize |-> [ids \in SUBSET Nat |-> Kids(N, ids, T[n - 1])]]
<1>1. RealSize \in Nat /\ RealSize >= 1 /\ 1 + 1 = 2 /\ 1 \in Nat
  BY RadixAssumption
<1>2. \A n \in 2..RealSize : \A ids \in SUBSET Nat :
        step[n][ids] = Kids(N, ids, T[n - 1]) /\ step[n][ids] \in SUBSET Nat
  BY KidsType
<1>3. {root} \in SUBSET Nat
  OBVIOUS
<1>4. PICK f : Follows(f, 1, RealSize, {root}, step) /\ \A n \in 1..RealSize : f[n] \in SUBSET Nat
  <2> HIDE DEF step
  <2>1. \A n \in 1 + 1..RealSize : \A ids \in SUBSET Nat : step[n][ids] \in SUBSET Nat
    BY <1>1, <1>2
  <2> QED
    BY <1>1, <1>3, <2>1, FollowerExists, Zenon
<1>5. IsWalk(f, N, root, T)
  <2>1. \A n \in 1..RealSize : n # 1 => n \in 2..RealSize /\ n - 1 \in 1..RealSize
    BY <1>1
  <2> HIDE DEF step
  <2>2. \A n \in 1..RealSize : n # 1 => step[n][f[n - 1]] = Kids(N, f[n - 1], T[n - 1])
    BY <1>2, <1>4, <2>1
  <2> QED
    BY <1>4, <2>2 DEF Follows, IsWalk
<1> PICK A : A = WalkOf(N, root, T)
  OBVIOUS
<1>6. IsWalk(A, N, root, T)
  BY <1>5 DEF WalkOf
<1>7. A[1] = {root}
  BY <1>1, <1>6 DEF IsWalk
<1>8. \A n \in 1..RealSize - 1 : A[n + 1] = Kids(N, A[n], T[n])
  <2> TAKE n \in 1..RealSize - 1
  <2>1. n + 1 \in 1..RealSize /\ n + 1 # 1 /\ (n + 1) - 1 = n
    BY <1>1
  <2>2. A[n + 1] = Kids(N, A[(n + 1) - 1], T[(n + 1) - 1])
    BY <1>6, <2>1 DEF IsWalk
  <2> QED
    BY <2>1, <2>2
<1>9. \A n \in 1..RealSize : A[n] \subseteq Nat
  <2> DEFINE Bad == {n \in 1..RealSize : ~ (A[n] \subseteq Nat)}
  <2> SUFFICES ASSUME Bad # {} PROVE FALSE
    OBVIOUS
  <2>1. PICK n \in Bad : \A c \in Bad : n <= c
    <3>1. Bad \subseteq Nat
      BY <1>1
    <3> QED
      BY <3>1, LeastExists
  <2>2. n # 1 /\ n \in 1..RealSize /\ ~ (A[n] \subseteq Nat)
    BY <1>7, <2>1
  <2>3. n - 1 \in 1..RealSize - 1 /\ n - 1 \in 1..RealSize /\ n - 1 \notin Bad /\ (n - 1) + 1 = n
    BY <1>1, <2>1, <2>2
  <2>4. A[n - 1] \in SUBSET Nat
    BY <2>3
  <2>5. A[(n - 1) + 1] = Kids(N, A[n - 1], T[n - 1])
    BY <1>8, <2>3
  <2> HIDE DEF Bad
  <2>6. A[n] \in SUBSET Nat
    BY <2>3, <2>4, <2>5, KidsType
  <2> QED
    BY <2>2, <2>6
<1> QED
  BY <1>6, <1>7, <1>8, <1>9

\* The nodes the walk goes through before level k have the same entries in M.
SameWay(M, N, root, T, k) ==
  \A n \in 1..k - 1 : \A id \in WalkOf(N, root, T)[n] : Chosen(M, id, T[n]) = Chosen(N, id, T[n])

\* Two walks agree as far as the nodes they go through have the same entries.
LEMMA WalksAgree ==
  ASSUME NEW N, NodesGood(N), NEW M, NodesGood(M), NEW root \in Nat, NEW T,
         NEW k \in 1..RealSize, SameWay(M, N, root, T, k)
  PROVE  \A n \in 1..k : WalkOf(M, root, T)[n] = WalkOf(N, root, T)[n]
<1> PICK A, B : A = WalkOf(N, root, T) /\ B = WalkOf(M, root, T)
  OBVIOUS
<1>1. RealSize \in Nat /\ k \in Nat
  BY RadixAssumption
<1>2. /\ A[1] = {root} /\ B[1] = {root}
      /\ \A n \in 1..RealSize - 1 : A[n + 1] = Kids(N, A[n], T[n])
      /\ \A n \in 1..RealSize - 1 : B[n + 1] = Kids(M, B[n], T[n])
  BY WalkIs
<1> DEFINE Bad == {n \in 1..k : B[n] # A[n]}
<1> SUFFICES ASSUME Bad # {} PROVE FALSE
  OBVIOUS
<1>3. PICK n \in Bad : \A c \in Bad : n <= c
  <2>1. Bad \subseteq Nat
    BY <1>1
  <2> QED
    BY <2>1, LeastExists
<1>4. n # 1 /\ n \in 1..k /\ B[n] # A[n]
  BY <1>2, <1>3
<1>5. /\ n - 1 \in 1..k - 1 /\ n - 1 \in 1..RealSize - 1 /\ n - 1 \in 1..k
      /\ n - 1 \notin Bad /\ (n - 1) + 1 = n
  BY <1>1, <1>3, <1>4
<1>6. B[n - 1] = A[n - 1]
  BY <1>5
<1> HIDE DEF Bad
<1>7. A[n] = Kids(N, A[n - 1], T[n - 1]) /\ B[n] = Kids(M, A[n - 1], T[n - 1])
  <2>1. A[(n - 1) + 1] = Kids(N, A[n - 1], T[n - 1]) /\ B[(n - 1) + 1] = Kids(M, B[n - 1], T[n - 1])
    BY <1>2, <1>5
  <2> QED
    BY <1>5, <1>6, <2>1
<1>8. Kids(M, A[n - 1], T[n - 1]) = Kids(N, A[n - 1], T[n - 1])
  <2>1. \A id \in A[n - 1] : Chosen(M, id, T[n - 1]) = Chosen(N, id, T[n - 1])
    BY <1>5 DEF SameWay
  <2>2. \A x : x \in Kids(M, A[n - 1], T[n - 1]) <=> x \in Kids(N, A[n - 1], T[n - 1])
    BY <2>1, KidsAre
  <2> QED
    BY <2>2
<1> QED
  BY <1>4, <1>7, <1>8

\* More tokens lead to more nodes.
LEMMA WalkWithin ==
  ASSUME NEW N, NodesGood(N), NEW root \in Nat, NEW T, NEW U,
         \A n \in 1..RealSize - 1 : T[n] \subseteq U[n]
  PROVE  \A n \in 1..RealSize : WalkOf(N, root, T)[n] \subseteq WalkOf(N, root, U)[n]
<1> PICK A, B : A = WalkOf(N, root, T) /\ B = WalkOf(N, root, U)
  OBVIOUS
<1>1. RealSize \in Nat
  BY RadixAssumption
<1>2. /\ A[1] = {root} /\ B[1] = {root}
      /\ \A n \in 1..RealSize - 1 : A[n + 1] = Kids(N, A[n], T[n])
      /\ \A n \in 1..RealSize - 1 : B[n + 1] = Kids(N, B[n], U[n])
  BY WalkIs
<1> DEFINE Bad == {n \in 1..RealSize : ~ (A[n] \subseteq B[n])}
<1> SUFFICES ASSUME Bad # {} PROVE FALSE
  OBVIOUS
<1>3. PICK n \in Bad : \A c \in Bad : n <= c
  <2>1. Bad \subseteq Nat
    BY <1>1
  <2> QED
    BY <2>1, LeastExists
<1>4. n # 1 /\ n \in 1..RealSize /\ ~ (A[n] \subseteq B[n])
  BY <1>2, <1>3
<1>5. /\ n - 1 \in 1..RealSize - 1 /\ n - 1 \in 1..RealSize
      /\ n - 1 \notin Bad /\ (n - 1) + 1 = n
  BY <1>1, <1>3, <1>4
<1>6. A[n - 1] \subseteq B[n - 1] /\ T[n - 1] \subseteq U[n - 1]
  BY <1>5
<1> HIDE DEF Bad
<1>7. A[n] = Kids(N, A[n - 1], T[n - 1]) /\ B[n] = Kids(N, B[n - 1], U[n - 1])
  <2>1. A[(n - 1) + 1] = Kids(N, A[n - 1], T[n - 1]) /\ B[(n - 1) + 1] = Kids(N, B[n - 1], U[n - 1])
    BY <1>2, <1>5
  <2> QED
    BY <1>5, <2>1
<1>8. ASSUME NEW x \in Kids(N, A[n - 1], T[n - 1])
      PROVE  x \in Kids(N, B[n - 1], U[n - 1])
  <2>1. PICK id \in A[n - 1] : \E e \in Chosen(N, id, T[n - 1]) : x = id + 1 + e.link
    BY <1>8, KidsAre
  <2>2. PICK e \in Chosen(N, id, T[n - 1]) : x = id + 1 + e.link
    BY <2>1
  <2>3. id \in B[n - 1] /\ e \in Chosen(N, id, U[n - 1])
    BY <1>6, <2>2 DEF Chosen
  <2> QED
    BY <2>2, <2>3, KidsAre
<1> QED
  BY <1>4, <1>7, <1>8

\* M is N but for the entries of cur, one of which, e, leads to a new node.
Grows(M, N, cur, e, new) ==
  /\ new = cur + 1 + e.link /\ new # cur
  /\ \A id \in Nat : id # cur => M[id] = N[id]
  /\ Range(N[new].entries) = {}
  /\ Range(M[cur].entries) = Range(N[cur].entries) \cup {e}

\* The walk comes by at cur, at level l and at no other.
MeetsAt(N, root, T, cur, l) ==
  \A n \in 1..RealSize : cur \in WalkOf(N, root, T)[n] <=> n = l

\* It has one node more, at the level below l.
WalkHasMore(M, N, root, T, l, new) ==
  \A n \in 1..RealSize : WalkOf(M, root, T)[n] =
    IF n = l + 1 THEN WalkOf(N, root, T)[n] \cup {new} ELSE WalkOf(N, root, T)[n]

\* A walk that takes the new entry has one node more, at the level below.
LEMMA WalkGrows ==
  ASSUME NEW N, NodesGood(N), NEW M, NodesGood(M), NEW root \in Nat, NEW T,
         NEW l \in 1..RealSize - 1, NEW cur \in Nat, NEW e, NEW new \in Nat,
         Grows(M, N, cur, e, new), e.token \in T[l],
         MeetsAt(N, root, T, cur, l)
  PROVE  WalkHasMore(M, N, root, T, l, new)
<1> USE DEF WalkHasMore
<1> PICK A, B : A = WalkOf(N, root, T) /\ B = WalkOf(M, root, T)
  OBVIOUS
<1>1. /\ RealSize \in Nat /\ l \in 1..RealSize
      /\ \A n \in 1..RealSize : cur \in A[n] <=> n = l
  BY RadixAssumption DEF MeetsAt
<1>2. /\ \A n \in 1..RealSize - 1 : A[n + 1] = Kids(N, A[n], T[n])
      /\ \A n \in 1..RealSize - 1 : B[n + 1] = Kids(M, B[n], T[n])
      /\ \A n \in 1..RealSize : A[n] \subseteq Nat
  BY WalkIs
<1>3. ASSUME NEW n \in 1..RealSize - 1, n # l
      PROVE  /\ Kids(M, A[n], T[n]) = Kids(N, A[n], T[n])
             /\ Kids(M, A[n] \cup {new}, T[n]) = Kids(N, A[n], T[n])
  <2>1. n \in 1..RealSize /\ cur \notin A[n]
    BY <1>1, <1>3
  <2>2. \A id \in A[n] : Chosen(M, id, T[n]) = Chosen(N, id, T[n])
    BY <1>2, <2>1 DEF Grows, Chosen
  <2>3. Chosen(M, new, T[n]) = {}
    BY DEF Grows, Chosen
  <2> QED
    BY <2>2, <2>3 DEF Kids
<1>4. \A n \in 1..l : B[n] = A[n]
  <2>1. ASSUME NEW n \in 1..l - 1, NEW id \in A[n]
        PROVE  Chosen(M, id, T[n]) = Chosen(N, id, T[n])
    <3>1. n \in 1..RealSize /\ n # l
      BY <1>1
    <3>2. id \in Nat /\ id # cur
      BY <1>1, <1>2, <2>1, <3>1
    <3> QED
      BY <3>2 DEF Grows, Chosen
  <2>2. SameWay(M, N, root, T, l)
    BY <2>1 DEF SameWay
  <2> QED
    BY <1>1, <2>2, WalksAgree
<1>5. B[l + 1] = A[l + 1] \cup {new}
  <2>1. B[l + 1] = Kids(M, A[l], T[l]) /\ A[l + 1] = Kids(N, A[l], T[l])
    <3>1. l \in 1..l
      OBVIOUS
    <3> QED
      BY <1>2, <1>4, <3>1
  <2>2. /\ \A id \in A[l] : id # cur => Chosen(M, id, T[l]) = Chosen(N, id, T[l])
        /\ Chosen(M, cur, T[l]) = Chosen(N, cur, T[l]) \cup {e}
        /\ cur \in A[l]
    BY <1>1, <1>2 DEF Grows, Chosen
  <2>3. ASSUME NEW x
        PROVE  x \in Kids(M, A[l], T[l]) <=> x \in Kids(N, A[l], T[l]) \cup {new}
    <3>1. ASSUME x \in Kids(M, A[l], T[l])
          PROVE  x \in Kids(N, A[l], T[l]) \cup {new}
      <4>1. PICK id \in A[l] : \E f \in Chosen(M, id, T[l]) : x = id + 1 + f.link
        BY <3>1 DEF Kids
      <4>2. PICK f \in Chosen(M, id, T[l]) : x = id + 1 + f.link
        BY <4>1
      <4>3. CASE f \in Chosen(N, id, T[l])
        BY <4>2, <4>3 DEF Kids
      <4>4. CASE f \notin Chosen(N, id, T[l])
        <5>1. id = cur /\ f = e
          BY <2>2, <4>4
        <5> QED
          BY <4>2, <5>1 DEF Grows
      <4> QED
        BY <4>3, <4>4
    <3>2. ASSUME x \in Kids(N, A[l], T[l])
          PROVE  x \in Kids(M, A[l], T[l])
      <4>1. PICK id \in A[l] : \E f \in Chosen(N, id, T[l]) : x = id + 1 + f.link
        BY <3>2 DEF Kids
      <4>2. PICK f \in Chosen(N, id, T[l]) : x = id + 1 + f.link
        BY <4>1
      <4>3. f \in Chosen(M, id, T[l])
        BY <2>2
      <4> QED
        BY <4>2, <4>3 DEF Kids
    <3>3. new \in Kids(M, A[l], T[l])
      <4>1. e \in Chosen(M, cur, T[l]) /\ new = cur + 1 + e.link
        BY <2>2 DEF Grows
      <4> QED
        BY <2>2, <4>1 DEF Kids
    <3> QED
      BY <3>1, <3>2, <3>3
  <2> QED
    BY <2>1, <2>3
<1> DEFINE Now(n) == IF n = l + 1 THEN A[n] \cup {new} ELSE A[n]
           Bad == {n \in 1..RealSize : B[n] # Now(n)}
<1> SUFFICES ASSUME Bad # {} PROVE FALSE
  OBVIOUS
<1>6. PICK n \in Bad : \A c \in Bad : n <= c
  <2>1. Bad \subseteq Nat
    BY <1>1
  <2> QED
    BY <2>1, LeastExists
<1>7. n \in 1..RealSize /\ n > l + 1
  <2>1. n \in 1..RealSize /\ B[n] # Now(n)
    BY <1>6
  <2>2. ~ (n \in 1..l)
    BY <1>1, <1>4, <2>1
  <2>3. n # l + 1
    BY <1>5, <2>1
  <2> QED
    BY <1>1, <2>1, <2>2, <2>3
<1>8. /\ n - 1 \in 1..RealSize - 1 /\ n - 1 \in 1..RealSize /\ n - 1 # l
      /\ n - 1 \notin Bad /\ (n - 1) + 1 = n /\ n # l + 1
  <2>1. /\ n \in Nat /\ n - 1 \in 1..RealSize - 1 /\ n - 1 \in 1..RealSize /\ n - 1 # l
        /\ (n - 1) + 1 = n /\ n # l + 1
    BY <1>1, <1>7
  <2>2. n - 1 \notin Bad
    <3> HIDE DEF Bad
    <3> QED
      BY <1>6, <2>1
  <2> QED
    BY <2>1, <2>2
<1>9. B[n - 1] = A[n - 1] \/ B[n - 1] = A[n - 1] \cup {new}
  BY <1>8
<1>10. B[n] # A[n]
  BY <1>6, <1>8
<1> HIDE DEF Bad
<1>11. B[n] = Kids(M, B[n - 1], T[n - 1]) /\ A[n] = Kids(N, A[n - 1], T[n - 1])
  <2>1. /\ B[(n - 1) + 1] = Kids(M, B[n - 1], T[n - 1])
        /\ A[(n - 1) + 1] = Kids(N, A[n - 1], T[n - 1])
    BY <1>2, <1>8
  <2> QED
    BY <1>8, <2>1
<1> QED
  BY <1>3, <1>8, <1>9, <1>10, <1>11
-----------------------------------------------------------------------------
\* The forest: trees without common nodes.

\* Every token, and those of a key.
AnyToken  == [n \in 1..RealSize |-> Nat]
Only(key) == [n \in 1..RealSize |-> {key[n]}]

\* The nodes of level n of the tree at root, and those that the key leads to.
Level(N, root, n) == WalkOf(N, root, AnyToken)[n]
Along(N, root, key, n) == WalkOf(N, root, Only(key))[n]

\* The numbers of gates that the leaf has for the key.
Hits(N, root, key) ==
  UNION {{e.link : e \in Chosen(N, id, {key[RealSize]})} : id \in Along(N, root, key, RealSize)}

ContentOf(N, root, key) ==
  IF Hits(N, root, key) = {} THEN None ELSE CHOOSE gates \in Hits(N, root, key) : TRUE

TokenKeys == [1..RealSize -> Nat]

\* Two entries of a level never lead to the same node.
OneParent(N, root) ==
  \A n \in 1..RealSize - 1 : \A a, b \in Level(N, root, n) :
    \A e \in Range(N[a].entries), f \in Range(N[b].entries) :
      a + 1 + e.link = b + 1 + f.link => a = b /\ e = f

\* What a key leads to is in the tree.
LEMMA AlongInTree ==
  ASSUME NEW N, NodesGood(N), NEW root \in Nat, NEW key \in TokenKeys, NEW n \in 1..RealSize
  PROVE  Along(N, root, key, n) \subseteq Level(N, root, n)
<1>1. \A m \in 1..RealSize - 1 : Only(key)[m] \subseteq AnyToken[m]
  <2>1. \A m \in 1..RealSize - 1 : m \in 1..RealSize
    BY RadixAssumption
  <2> QED
    BY <2>1 DEF Only, AnyToken, TokenKeys
<1> QED
  BY <1>1, WalkWithin DEF Along, Level

\* A key leads to one node of a level at most.
LEMMA OneNode ==
  ASSUME NEW N, NodesGood(N), NEW root \in Nat, NEW key \in TokenKeys, NEW n \in 1..RealSize,
         NEW a \in Along(N, root, key, n), NEW b \in Along(N, root, key, n)
  PROVE  a = b
<1> PICK A : A = WalkOf(N, root, Only(key))
  OBVIOUS
<1>1. RealSize \in Nat
  BY RadixAssumption
<1>2. /\ A[1] = {root} /\ \A m \in 1..RealSize - 1 : A[m + 1] = Kids(N, A[m], Only(key)[m])
      /\ \A m \in 1..RealSize : A[m] \subseteq Nat
  BY WalkIs
<1> DEFINE Bad == {m \in 1..RealSize : \E x, y \in A[m] : x # y}
<1>3. ASSUME Bad # {} PROVE FALSE
  <2>1. PICK m \in Bad : \A c \in Bad : m <= c
    <3>1. Bad \subseteq Nat
      BY <1>1
    <3> QED
      BY <1>3, <3>1, LeastExists
  <2>2. m # 1 /\ m \in 1..RealSize
    BY <1>2, <2>1
  <2>3. /\ m - 1 \in 1..RealSize - 1 /\ m - 1 \in 1..RealSize
        /\ m - 1 \notin Bad /\ (m - 1) + 1 = m
    BY <1>1, <2>1, <2>2
  <2>4. A[m] = Kids(N, A[m - 1], {key[m - 1]})
    <3>1. A[(m - 1) + 1] = Kids(N, A[m - 1], Only(key)[m - 1])
      BY <1>2, <2>3
    <3>2. Only(key)[m - 1] = {key[m - 1]}
      BY <2>3 DEF Only
    <3> QED
      BY <2>3, <3>1, <3>2
  <2>5. PICK x \in A[m], y \in A[m] : x # y
    BY <2>1
  <2>6. \A p, q \in A[m - 1] : p = q
    BY <2>3
  <2> HIDE DEF Bad
  <2>7. /\ \E p \in A[m - 1] : \E e \in Chosen(N, p, {key[m - 1]}) : x = p + 1 + e.link
        /\ \E q \in A[m - 1] : \E f \in Chosen(N, q, {key[m - 1]}) : y = q + 1 + f.link
    <3>1. x \in Kids(N, A[m - 1], {key[m - 1]}) /\ y \in Kids(N, A[m - 1], {key[m - 1]})
      BY <2>4, <2>5
    <3> QED
      BY <3>1, KidsAre
  <2>8. PICK p, q, e, f :
          /\ p \in A[m - 1] /\ q \in A[m - 1]
          /\ e \in Chosen(N, p, {key[m - 1]}) /\ x = p + 1 + e.link
          /\ f \in Chosen(N, q, {key[m - 1]}) /\ y = q + 1 + f.link
    BY <2>7
  <2>9. p = q /\ p \in Nat
    BY <1>2, <2>3, <2>6, <2>8
  <2>10. /\ e \in Range(N[p].entries) /\ e.token = key[m - 1]
         /\ f \in Range(N[p].entries) /\ f.token = key[m - 1]
    BY <2>8, <2>9 DEF Chosen
  <2>11. Sorted(N[p].entries)
    BY <2>9 DEF NodesGood, GoodNode
  <2>12. e = f
    <3>1. DOMAIN N[p].entries = 1..Len(N[p].entries)
      BY <2>11 DEF Sorted
    <3>2. PICK i \in 1..Len(N[p].entries), j \in 1..Len(N[p].entries) :
            e = N[p].entries[i] /\ f = N[p].entries[j]
      BY <2>10, <3>1 DEF Range
    <3>3. i = j
      BY <2>10, <2>11, <3>2, TokenOnce
    <3> QED
      BY <3>2, <3>3
  <2> QED
    BY <2>5, <2>8, <2>9, <2>12
<1> QED
  BY <1>3 DEF Along

\* The way to a node tells the tokens.
LEMMA OneWay ==
  ASSUME NEW N, NodesGood(N), NEW root \in Nat, OneParent(N, root),
         NEW key \in TokenKeys, NEW other \in TokenKeys, NEW n \in 1..RealSize,
         NEW id \in Along(N, root, key, n), id \in Along(N, root, other, n)
  PROVE  \A m \in 1..n - 1 : key[m] = other[m]
<1> PICK A, B : A = WalkOf(N, root, Only(key)) /\ B = WalkOf(N, root, Only(other))
  OBVIOUS
<1>1. RealSize \in Nat
  BY RadixAssumption
<1>2. /\ \A m \in 1..RealSize - 1 : A[m + 1] = Kids(N, A[m], Only(key)[m])
      /\ \A m \in 1..RealSize - 1 : B[m + 1] = Kids(N, B[m], Only(other)[m])
      /\ \A m \in 1..RealSize : A[m] \subseteq Level(N, root, m) /\ B[m] \subseteq Level(N, root, m)
  BY WalkIs, AlongInTree DEF Along
<1> DEFINE Bad == {k \in 1..RealSize :
                     \E x \in A[k] : x \in B[k] /\ \E m \in 1..k - 1 : key[m] # other[m]}
<1>3. ASSUME Bad # {} PROVE FALSE
  <2>1. PICK k \in Bad : \A c \in Bad : k <= c
    <3>1. Bad \subseteq Nat
      BY <1>1
    <3> QED
      BY <1>3, <3>1, LeastExists
  <2>2. PICK x \in A[k], m \in 1..k - 1 : x \in B[k] /\ key[m] # other[m]
    BY <2>1
  <2>3. /\ k \in 1..RealSize /\ k - 1 \in 1..RealSize - 1 /\ k - 1 \in 1..RealSize
        /\ k - 1 \notin Bad /\ (k - 1) + 1 = k
    BY <1>1, <2>1, <2>2
  <2>4. /\ A[k] = Kids(N, A[k - 1], {key[k - 1]}) /\ B[k] = Kids(N, B[k - 1], {other[k - 1]})
    <3>1. /\ A[(k - 1) + 1] = Kids(N, A[k - 1], Only(key)[k - 1])
          /\ B[(k - 1) + 1] = Kids(N, B[k - 1], Only(other)[k - 1])
      BY <1>2, <2>3
    <3>2. Only(key)[k - 1] = {key[k - 1]} /\ Only(other)[k - 1] = {other[k - 1]}
      BY <2>3 DEF Only
    <3> QED
      BY <2>3, <3>1, <3>2
  <2>5. \A y \in A[k - 1] : y \in B[k - 1] => \A c \in 1..k - 2 : key[c] = other[c]
    <3>1. (k - 1) - 1 = k - 2
      BY <2>3
    <3> QED
      BY <2>3, <3>1
  <2> HIDE DEF Bad
  <2>6. /\ \E p \in A[k - 1] : \E e \in Chosen(N, p, {key[k - 1]}) : x = p + 1 + e.link
        /\ \E q \in B[k - 1] : \E f \in Chosen(N, q, {other[k - 1]}) : x = q + 1 + f.link
    <3>1. x \in Kids(N, A[k - 1], {key[k - 1]}) /\ x \in Kids(N, B[k - 1], {other[k - 1]})
      BY <2>2, <2>4
    <3> QED
      BY <3>1, KidsAre
  <2>7. PICK p, q, e, f :
          /\ p \in A[k - 1] /\ q \in B[k - 1]
          /\ e \in Chosen(N, p, {key[k - 1]}) /\ x = p + 1 + e.link
          /\ f \in Chosen(N, q, {other[k - 1]}) /\ x = q + 1 + f.link
    BY <2>6
  <2>8. /\ e \in Range(N[p].entries) /\ e.token = key[k - 1]
        /\ f \in Range(N[q].entries) /\ f.token = other[k - 1]
    BY <2>7 DEF Chosen
  <2>9. p \in Level(N, root, k - 1) /\ q \in Level(N, root, k - 1)
    BY <1>2, <2>3, <2>7
  <2>10. p = q /\ e = f
    <3>1. \A a, b \in Level(N, root, k - 1) :
            \A g \in Range(N[a].entries), h \in Range(N[b].entries) :
              a + 1 + g.link = b + 1 + h.link => a = b /\ g = h
      BY <2>3 DEF OneParent
    <3>2. p + 1 + e.link = q + 1 + f.link
      BY <2>7
    <3> QED
      BY <2>8, <2>9, <3>1, <3>2, Zenon
  <2>11. key[k - 1] = other[k - 1] /\ \A c \in 1..k - 2 : key[c] = other[c]
    BY <2>5, <2>7, <2>8, <2>10
  <2>12. m = k - 1 \/ m \in 1..k - 2
    BY <2>2, <2>3
  <2> QED
    BY <2>2, <2>11, <2>12
<1> QED
  BY <1>3 DEF Along

\* No node is in two trees, or in two levels of one.
LevelsApart(N, R, live) ==
  \A a, b \in live : \A m, n \in 1..RealSize : \A id \in Level(N, R[a], m) :
    id \in Level(N, R[b], n) => a = b /\ m = n

\* A leaf has no links to nodes, and above the leaves a node without bytes for
\* its links has none.
WidthsFit(N, root) ==
  /\ \A id \in Level(N, root, RealSize) : N[id].width = 0
  /\ \A n \in 1..RealSize - 1 : \A id \in Level(N, root, n) :
       N[id].width = 0 => N[id].entries = << >>

\* The trees with the roots R, of nodes below top.
Forest(N, R, live, top) ==
  /\ \A a \in live : /\ R[a] \in Nat
                     /\ \A n \in 1..RealSize : Level(N, R[a], n) \subseteq 0..top - 1
                     /\ OneParent(N, R[a]) /\ WidthsFit(N, R[a])
  /\ LevelsApart(N, R, live)

TreeIds(N, root) == UNION {Level(N, root, n) : n \in 1..RealSize}
ForestIds(N, R, live) == UNION {TreeIds(N, R[a]) : a \in live}

\* What an empty level leads to.
LEMMA EmptyStays ==
  ASSUME NEW N, NodesGood(N), NEW root \in Nat, NEW T,
         NEW k \in 1..RealSize, WalkOf(N, root, T)[k] = {}
  PROVE  \A n \in k..RealSize : WalkOf(N, root, T)[n] = {}
<1> PICK A : A = WalkOf(N, root, T)
  OBVIOUS
<1>1. RealSize \in Nat /\ \A n \in 1..RealSize - 1 : A[n + 1] = Kids(N, A[n], T[n])
  BY RadixAssumption, WalkIs
<1> DEFINE Bad == {n \in k..RealSize : A[n] # {}}
<1> SUFFICES ASSUME Bad # {} PROVE FALSE
  OBVIOUS
<1>2. PICK n \in Bad : \A c \in Bad : n <= c
  <2>1. Bad \subseteq Nat
    BY <1>1
  <2> QED
    BY <2>1, LeastExists
<1>3. n # k /\ n \in k..RealSize /\ A[n] # {}
  BY <1>2
<1>4. n - 1 \in k..RealSize /\ n - 1 \in 1..RealSize - 1 /\ (n - 1) + 1 = n /\ n - 1 < n
  BY <1>1, <1>3
<1>5. n - 1 \notin Bad
  <2> HIDE DEF Bad
  <2> QED
    BY <1>2, <1>3, <1>4
<1>6. A[n - 1] = {}
  BY <1>4, <1>5
<1> HIDE DEF Bad
<1>7. A[(n - 1) + 1] = Kids(N, A[n - 1], T[n - 1])
  BY <1>1, <1>4
<1>8. A[n] = {}
  BY <1>4, <1>6, <1>7 DEF Kids
<1> QED
  BY <1>3, <1>8

\* A node without an entry for the next token: the key is not in the tree.
LEMMA NotThere ==
  ASSUME NEW N, NodesGood(N), NEW root \in Nat, NEW key \in TokenKeys, NEW n \in 1..RealSize,
         NEW cur, Along(N, root, key, n) = {cur}, Chosen(N, cur, {key[n]}) = {}
  PROVE  /\ Hits(N, root, key) = {} /\ ContentOf(N, root, key) = None
         /\ \A m \in n + 1..RealSize : Along(N, root, key, m) = {}
<1>1. RealSize \in Nat
  BY RadixAssumption
<1>2. CASE n = RealSize
  <2>1. Hits(N, root, key) = {}
    BY <1>2 DEF Hits
  <2>2. n + 1..RealSize = {}
    BY <1>1, <1>2
  <2> QED
    BY <2>1, <2>2 DEF ContentOf
<1>3. CASE n # RealSize
  <2>1. n \in 1..RealSize - 1 /\ n + 1 \in 1..RealSize /\ RealSize \in n + 1..RealSize
    BY <1>1, <1>3
  <2>2. WalkOf(N, root, Only(key))[n + 1] = Kids(N, WalkOf(N, root, Only(key))[n], Only(key)[n])
    BY <2>1, WalkIs
  <2>3. Only(key)[n] = {key[n]} /\ WalkOf(N, root, Only(key))[n] = {cur}
    BY DEF Only, Along
  <2>4. Kids(N, {cur}, {key[n]}) = {}
    BY DEF Kids
  <2>5. WalkOf(N, root, Only(key))[n + 1] = {}
    BY <2>2, <2>3, <2>4
  <2>6. \A m \in n + 1..RealSize : Along(N, root, key, m) = {}
    BY <2>1, <2>5, EmptyStays DEF Along
  <2>7. Hits(N, root, key) = {}
    BY <2>1, <2>6 DEF Hits
  <2> QED
    BY <2>6, <2>7 DEF ContentOf
<1> QED
  BY <1>2, <1>3

\* A leaf with an entry for the last token tells the number of gates.
LEMMA There ==
  ASSUME NEW N, NEW root, NEW key, NEW cur, Along(N, root, key, RealSize) = {cur},
         NEW e, Chosen(N, cur, {key[RealSize]}) = {e}
  PROVE  ContentOf(N, root, key) = e.link
<1>1. Hits(N, root, key) = {e.link}
  BY DEF Hits
<1> QED
  BY <1>1 DEF ContentOf

\* Above, it tells the next node.
LEMMA OneFurther ==
  ASSUME NEW N, NodesGood(N), NEW root \in Nat, NEW key \in TokenKeys, NEW n \in 1..RealSize - 1,
         NEW cur, Along(N, root, key, n) = {cur}, NEW e, Chosen(N, cur, {key[n]}) = {e}
  PROVE  Along(N, root, key, n + 1) = {cur + 1 + e.link}
<1>1. n \in 1..RealSize
  BY RadixAssumption
<1>2. WalkOf(N, root, Only(key))[n + 1] = Kids(N, WalkOf(N, root, Only(key))[n], Only(key)[n])
  BY WalkIs
<1>3. Only(key)[n] = {key[n]} /\ WalkOf(N, root, Only(key))[n] = {cur}
  BY <1>1 DEF Only, Along
<1>4. Kids(N, {cur}, {key[n]}) = {cur + 1 + e.link}
  <2>1. ASSUME NEW x
        PROVE  x \in Kids(N, {cur}, {key[n]}) <=> x \in {cur + 1 + e.link}
    BY KidsAre
  <2> QED
    BY <2>1
<1> QED
  BY <1>2, <1>3, <1>4 DEF Along
-----------------------------------------------------------------------------
\* How a forest changes.

\* The levels of a forest that gets another node.
LEMMA LevelsGrow ==
  ASSUME NEW N, NodesGood(N), NEW M, NodesGood(M), NEW R, NEW live, NEW top \in Nat,
         Forest(N, R, live, top), NEW tree \in live, NEW l \in 1..RealSize - 1,
         NEW cur \in Level(N, R[tree], l), NEW e \in Entries, Grows(M, N, cur, e, top)
  PROVE  \A a \in live : \A n \in 1..RealSize : Level(M, R[a], n) =
           IF a = tree /\ n = l + 1 THEN Level(N, R[a], n) \cup {top} ELSE Level(N, R[a], n)
<1>1. RealSize \in Nat /\ l \in 1..RealSize
  BY RadixAssumption
<1>2. cur \in Nat
  BY <1>1 DEF Forest
<1>3. \A a \in live : \A n \in 1..RealSize : cur \in Level(N, R[a], n) <=> a = tree /\ n = l
  BY <1>1 DEF Forest, LevelsApart
<1> TAKE a \in live
<1>4. R[a] \in Nat /\ \A n \in 1..RealSize : Level(N, R[a], n) \subseteq Nat
  <2>1. 0..top - 1 \subseteq Nat
    OBVIOUS
  <2> QED
    BY <2>1 DEF Forest
<1>5. CASE a = tree
  <2>1. e.token \in AnyToken[l]
    BY <1>1 DEF AnyToken, Entries
  <2>2. MeetsAt(N, R[a], AnyToken, cur, l)
    BY <1>3, <1>5 DEF Level, MeetsAt
  <2>3. WalkHasMore(M, N, R[a], AnyToken, l, top)
    BY <1>2, <1>4, <2>1, <2>2, WalkGrows
  <2> QED
    BY <1>5, <2>3 DEF Level, WalkHasMore
<1>6. CASE a # tree
  <2>1. ASSUME NEW n \in 1..RealSize - 1, NEW id \in WalkOf(N, R[a], AnyToken)[n]
        PROVE  Chosen(M, id, AnyToken[n]) = Chosen(N, id, AnyToken[n])
    <3>1. n \in 1..RealSize
      BY <1>1
    <3>2. id \in Nat /\ id # cur
      BY <1>3, <1>4, <1>6, <3>1 DEF Level
    <3> QED
      BY <3>2 DEF Grows, Chosen
  <2>2. RealSize \in 1..RealSize /\ SameWay(M, N, R[a], AnyToken, RealSize)
    BY <1>1, <2>1 DEF SameWay
  <2> QED
    BY <1>4, <1>6, <2>2, WalksAgree DEF Level
<1> QED
  BY <1>5, <1>6

\* It is a forest again.
LEMMA ForestGrows ==
  ASSUME NEW N, NodesGood(N), NEW M, NodesGood(M), NEW R, NEW live, NEW top \in Nat,
         Forest(N, R, live, top), NEW tree \in live, NEW l \in 1..RealSize - 1,
         NEW cur \in Level(N, R[tree], l), NEW e \in Entries, Grows(M, N, cur, e, top),
         N[top] = Empty, M[cur].width # 0
  PROVE  /\ Forest(M, R, live, top + 1)
         /\ ForestIds(M, R, live) = ForestIds(N, R, live) \cup {top}
<1>1. RealSize \in Nat /\ l \in 1..RealSize /\ l + 1 \in 1..RealSize /\ top \in 0..top
  BY RadixAssumption
<1>2. \A a \in live : \A n \in 1..RealSize : Level(M, R[a], n) =
        IF a = tree /\ n = l + 1 THEN Level(N, R[a], n) \cup {top} ELSE Level(N, R[a], n)
  BY LevelsGrow
<1>3. \A a \in live : \A n \in 1..RealSize : Level(N, R[a], n) \subseteq 0..top - 1
  BY DEF Forest
<1>4. cur \in Nat /\ top # cur
  BY <1>1, <1>3 DEF Grows
<1>5. M[top] = Empty /\ top \notin 0..top - 1 /\ Range(M[top].entries) = {}
  BY <1>4, EmptyIsGood DEF Grows
<1>6. \A a \in live : \A n \in 1..RealSize : cur \in Level(N, R[a], n) <=> a = tree /\ n = l
  BY <1>1 DEF Forest, LevelsApart
<1>7. \A a \in live : \A n \in 1..RealSize : Level(M, R[a], n) \subseteq 0..top + 1 - 1
  <2>1. 0..top - 1 \subseteq 0..top + 1 - 1 /\ top \in 0..top + 1 - 1
    OBVIOUS
  <2> TAKE a \in live
  <2> TAKE n \in 1..RealSize
  <2>2. Level(M, R[a], n) \subseteq Level(N, R[a], n) \cup {top}
    BY <1>2
  <2>3. Level(N, R[a], n) \subseteq 0..top - 1
    BY <1>3
  <2> QED
    BY <2>1, <2>2, <2>3
<1>8. LevelsApart(M, R, live)
  <2> SUFFICES ASSUME NEW a \in live, NEW b \in live, NEW m \in 1..RealSize, NEW n \in 1..RealSize,
                      NEW id \in Level(M, R[a], m), id \in Level(M, R[b], n)
               PROVE  a = b /\ m = n
    BY DEF LevelsApart
  <2>1. CASE id = top
    <3>1. top \notin Level(N, R[a], m) /\ top \notin Level(N, R[b], n)
      BY <1>3, <1>5
    <3> QED
      BY <1>2, <2>1, <3>1
  <2>2. CASE id # top
    <3>1. id \in Level(N, R[a], m) /\ id \in Level(N, R[b], n)
      BY <1>2, <2>2
    <3> QED
      BY <3>1 DEF Forest, LevelsApart
  <2> QED
    BY <2>1, <2>2
<1>9. ASSUME NEW a \in live
      PROVE  OneParent(M, R[a])
  <2> SUFFICES ASSUME NEW n \in 1..RealSize - 1, NEW x \in Level(M, R[a], n),
                      NEW y \in Level(M, R[a], n),
                      NEW f \in Range(M[x].entries), NEW g \in Range(M[y].entries),
                      x + 1 + f.link = y + 1 + g.link
               PROVE  x = y /\ f = g
    BY DEF OneParent
  <2>1. n \in 1..RealSize /\ n + 1 \in 1..RealSize
    BY <1>1
  <2>2. x # top /\ y # top
    BY <1>5
  <2>3. x \in Level(N, R[a], n) /\ y \in Level(N, R[a], n)
    BY <1>2, <2>1, <2>2
  <2>4. x \in Nat /\ y \in Nat
    BY <1>3, <2>1, <2>3
  <2>5. ASSUME NEW z \in Level(N, R[a], n), NEW h \in Range(N[z].entries)
        PROVE  z + 1 + h.link # top
    <3>1. h \in Chosen(N, z, AnyToken[n])
      <4>1. z \in Nat
        BY <1>3, <2>1
      <4>2. h.token \in Nat
        BY <4>1, EntriesAre
      <4> QED
        BY <2>1, <4>2 DEF Chosen, AnyToken
    <3>2. R[a] \in Nat
      BY DEF Forest
    <3>3. WalkOf(N, R[a], AnyToken)[n + 1] = Kids(N, WalkOf(N, R[a], AnyToken)[n], AnyToken[n])
      BY <3>2, WalkIs
    <3>4. z + 1 + h.link \in Level(N, R[a], n + 1)
      BY <3>1, <3>3, KidsAre DEF Level
    <3> QED
      BY <1>3, <1>5, <2>1, <3>4
  <2>6. /\ (x = cur /\ f = e) \/ f \in Range(N[x].entries)
        /\ (y = cur /\ g = e) \/ g \in Range(N[y].entries)
    BY <2>4 DEF Grows
  <2>7. CASE f \in Range(N[x].entries) /\ g \in Range(N[y].entries)
    <3>1. OneParent(N, R[a])
      BY DEF Forest
    <3>2. \A c, d \in Level(N, R[a], n) :
            \A i \in Range(N[c].entries), j \in Range(N[d].entries) :
              c + 1 + i.link = d + 1 + j.link => c = d /\ i = j
      BY <3>1 DEF OneParent
    <3> QED
      BY <2>3, <2>7, <3>2, Zenon
  <2>8. CASE x = cur /\ f = e /\ g \in Range(N[y].entries)
    BY <2>3, <2>5, <2>8 DEF Grows
  <2>9. CASE y = cur /\ g = e /\ f \in Range(N[x].entries)
    BY <2>3, <2>5, <2>9 DEF Grows
  <2> QED
    BY <2>6, <2>7, <2>8, <2>9
<1>10. ASSUME NEW a \in live
       PROVE  WidthsFit(M, R[a])
  <2>1. ASSUME NEW id \in Level(M, R[a], RealSize)
        PROVE  M[id].width = 0
    <3>1. RealSize \in 1..RealSize /\ RealSize # l
      BY <1>1
    <3>2. CASE id = top
      BY <1>5, <3>2 DEF Empty
    <3>3. CASE id # top
      <4>1. id \in Level(N, R[a], RealSize)
        BY <1>2, <2>1, <3>1, <3>3
      <4>2. id \in Nat /\ id # cur
        BY <1>3, <1>6, <3>1, <4>1
      <4>3. N[id].width = 0 /\ M[id] = N[id]
        BY <4>1, <4>2 DEF Forest, WidthsFit, Grows
      <4> QED
        BY <4>3
    <3> QED
      BY <3>2, <3>3
  <2>2. ASSUME NEW n \in 1..RealSize - 1, NEW id \in Level(M, R[a], n), M[id].width = 0
        PROVE  M[id].entries = << >>
    <3>1. n \in 1..RealSize /\ id # cur
      BY <1>1, <2>2
    <3>2. CASE id = top
      BY <1>5, <3>2 DEF Empty
    <3>3. CASE id # top
      <4>1. id \in Level(N, R[a], n)
        BY <1>2, <2>2, <3>1, <3>3
      <4>2. id \in Nat
        BY <1>3, <3>1, <4>1
      <4>3. M[id] = N[id]
        BY <3>1, <4>2 DEF Grows
      <4> QED
        BY <2>2, <4>1, <4>3 DEF Forest, WidthsFit
    <3> QED
      BY <3>2, <3>3
  <2> QED
    BY <2>1, <2>2 DEF WidthsFit
<1>11. ForestIds(M, R, live) = ForestIds(N, R, live) \cup {top}
  <2>1. ASSUME NEW x
        PROVE  x \in ForestIds(M, R, live) <=>
                 \E a \in live : \E n \in 1..RealSize : x \in Level(M, R[a], n)
    BY DEF ForestIds, TreeIds
  <2>2. ASSUME NEW x
        PROVE  x \in ForestIds(N, R, live) <=>
                 \E a \in live : \E n \in 1..RealSize : x \in Level(N, R[a], n)
    BY DEF ForestIds, TreeIds
  <2>3. top \in Level(M, R[tree], l + 1)
    BY <1>1, <1>2
  <2>4. \A a \in live : \A n \in 1..RealSize :
          /\ Level(N, R[a], n) \subseteq Level(M, R[a], n)
          /\ Level(M, R[a], n) \subseteq Level(N, R[a], n) \cup {top}
    BY <1>2
  <2>5. ASSUME NEW x
        PROVE  (\E a \in live : \E n \in 1..RealSize : x \in Level(M, R[a], n)) <=>
                 x = top \/ \E a \in live : \E n \in 1..RealSize : x \in Level(N, R[a], n)
    <3>1. ASSUME NEW a \in live, NEW n \in 1..RealSize, x \in Level(M, R[a], n)
          PROVE  x = top \/ x \in Level(N, R[a], n)
      BY <2>4, <3>1
    <3>2. ASSUME NEW a \in live, NEW n \in 1..RealSize, x \in Level(N, R[a], n)
          PROVE  x \in Level(M, R[a], n)
      BY <2>4, <3>2
    <3> QED
      BY <1>1, <2>3, <3>1, <3>2, Zenon
  <2> QED
    BY <2>1, <2>2, <2>5
<1> QED
  BY <1>7, <1>8, <1>9, <1>10, <1>11 DEF Forest

\* Nothing but the new entry changes for a key, and it leads to an empty node.
LEMMA ContentGrows ==
  ASSUME NEW N, NodesGood(N), NEW M, NodesGood(M), NEW R, NEW live, NEW top \in Nat,
         Forest(N, R, live, top), NEW tree \in live, NEW l \in 1..RealSize - 1,
         NEW cur \in Level(N, R[tree], l), NEW e \in Entries, Grows(M, N, cur, e, top),
         Chosen(N, cur, {e.token}) = {}, NEW a \in live, NEW key \in TokenKeys
  PROVE  /\ ContentOf(M, R[a], key) = ContentOf(N, R[a], key)
         /\ key[l] = e.token /\ Along(N, R[a], key, l) = {cur}
              => Along(M, R[a], key, l + 1) = {top}
<1>1. RealSize \in Nat /\ l \in 1..RealSize /\ l + 1 \in 1..RealSize /\ l # RealSize
      /\ RealSize \in 1..RealSize
  BY RadixAssumption
<1>2. /\ \A b \in live : \A n \in 1..RealSize : Level(N, R[b], n) \subseteq 0..top - 1
      /\ R[a] \in Nat /\ cur \in Nat
  BY <1>1 DEF Forest
<1>3. \A n \in 1..RealSize : Along(N, R[a], key, n) \subseteq Level(N, R[a], n)
  BY <1>2, AlongInTree
<1>4. \A n \in 1..RealSize : cur \in Along(N, R[a], key, n) => a = tree /\ n = l
  BY <1>1, <1>3 DEF Forest, LevelsApart
<1>5. \A n \in 1..RealSize : \A id \in Along(N, R[a], key, n) : id \in Nat /\ id # top
  <2>1. top \notin 0..top - 1 /\ 0..top - 1 \subseteq Nat
    OBVIOUS
  <2> QED
    BY <1>2, <1>3, <2>1
<1>6. CASE cur \in Along(N, R[a], key, l) /\ key[l] = e.token
  <2>1. Along(N, R[a], key, l) = {cur}
    <3>1. \A x \in Along(N, R[a], key, l) : x = cur
      BY <1>1, <1>2, <1>6, OneNode
    <3> QED
      BY <1>6, <3>1
  <2>2. /\ Hits(N, R[a], key) = {} /\ ContentOf(N, R[a], key) = None
        /\ \A m \in l + 1..RealSize : Along(N, R[a], key, m) = {}
    BY <1>1, <1>2, <1>6, <2>1, NotThere
  <2>3. e.token \in Only(key)[l]
    BY <1>1, <1>6 DEF Only
  <2>4. MeetsAt(N, R[a], Only(key), cur, l)
    BY <1>4, <1>6 DEF MeetsAt, Along
  <2>5. WalkHasMore(M, N, R[a], Only(key), l, top)
    BY <1>2, <2>3, <2>4, WalkGrows
  <2>6. /\ Along(M, R[a], key, l + 1) = Along(N, R[a], key, l + 1) \cup {top}
        /\ Along(M, R[a], key, RealSize) \subseteq Along(N, R[a], key, RealSize) \cup {top}
    BY <1>1, <2>5 DEF WalkHasMore, Along
  <2>7. Along(M, R[a], key, l + 1) = {top} /\ Along(M, R[a], key, RealSize) \subseteq {top}
    <3>1. l + 1 \in l + 1..RealSize /\ RealSize \in l + 1..RealSize
      BY <1>1
    <3> QED
      BY <2>2, <2>6, <3>1
  <2>8. Chosen(M, top, {key[RealSize]}) = {}
    BY DEF Grows, Chosen
  <2>9. Hits(M, R[a], key) = {}
    BY <2>7, <2>8 DEF Hits
  <2> QED
    BY <2>2, <2>7, <2>9 DEF ContentOf
<1>7. CASE ~ (cur \in Along(N, R[a], key, l) /\ key[l] = e.token)
  <2>1. ASSUME NEW n \in 1..RealSize, NEW id \in Along(N, R[a], key, n)
        PROVE  Chosen(M, id, {key[n]}) = Chosen(N, id, {key[n]})
    <3>1. CASE id # cur
      BY <1>5, <3>1, <2>1 DEF Grows, Chosen
    <3>2. CASE id = cur
      <4>1. n = l
        BY <1>4, <2>1, <3>2
      <4>2. key[n] # e.token
        BY <1>7, <2>1, <3>2, <4>1
      <4> QED
        BY <3>2, <4>2 DEF Grows, Chosen
    <3> QED
      BY <3>1, <3>2
  <2>2. ASSUME NEW n \in 1..RealSize - 1, NEW id \in WalkOf(N, R[a], Only(key))[n]
        PROVE  Chosen(M, id, Only(key)[n]) = Chosen(N, id, Only(key)[n])
    <3>1. n \in 1..RealSize
      BY <1>1
    <3>2. Only(key)[n] = {key[n]}
      BY <3>1 DEF Only
    <3> QED
      BY <2>1, <2>2, <3>1, <3>2 DEF Along
  <2>3. Along(M, R[a], key, RealSize) = Along(N, R[a], key, RealSize)
    <3>1. SameWay(M, N, R[a], Only(key), RealSize)
      BY <2>2 DEF SameWay
    <3> QED
      BY <1>1, <1>2, <3>1, WalksAgree DEF Along
  <2>4. Hits(M, R[a], key) = Hits(N, R[a], key)
    BY <1>1, <2>1, <2>3 DEF Hits
  <2>5. ~ (key[l] = e.token /\ Along(N, R[a], key, l) = {cur})
    BY <1>7
  <2> QED
    BY <2>4, <2>5 DEF ContentOf
<1> QED
  BY <1>6, <1>7

\* What changes with a leaf: only what it holds for the token.
LeafChanges(M, N, cur, token) ==
  /\ \A id \in Nat : id # cur => M[id] = N[id]
  /\ M[cur].width = 0
  /\ \A other \in Nat : other # token => Chosen(M, cur, {other}) = Chosen(N, cur, {other})

\* A change in a leaf leaves the levels of all trees, and what leads there.
LEMMA LevelsStay ==
  ASSUME NEW N, NodesGood(N), NEW M, NodesGood(M), NEW R, NEW live, NEW top \in Nat,
         Forest(N, R, live, top), NEW tree \in live, NEW cur \in Level(N, R[tree], RealSize),
         NEW token, LeafChanges(M, N, cur, token), NEW a \in live, NEW n \in 1..RealSize
  PROVE  /\ Level(M, R[a], n) = Level(N, R[a], n)
         /\ \A key \in TokenKeys : Along(M, R[a], key, n) = Along(N, R[a], key, n)
<1>1. RealSize \in Nat /\ RealSize \in 1..RealSize
  BY RadixAssumption
<1>2. R[a] \in Nat /\ \A m \in 1..RealSize : Level(N, R[a], m) \subseteq Nat
  <2>1. 0..top - 1 \subseteq Nat
    OBVIOUS
  <2> QED
    BY <2>1 DEF Forest
<1>3. ASSUME NEW m \in 1..RealSize - 1, NEW id \in Level(N, R[a], m), NEW tokens
      PROVE  Chosen(M, id, tokens) = Chosen(N, id, tokens)
  <2>1. m \in 1..RealSize /\ m # RealSize
    BY <1>1
  <2>2. id # cur
    BY <1>1, <1>3, <2>1 DEF Forest, LevelsApart
  <2>3. id \in Nat
    BY <1>2, <1>3, <2>1
  <2> QED
    BY <2>2, <2>3 DEF LeafChanges, Chosen
<1>4. Level(M, R[a], n) = Level(N, R[a], n)
  <2>1. SameWay(M, N, R[a], AnyToken, RealSize)
    BY <1>3 DEF SameWay, Level
  <2> QED
    BY <1>1, <1>2, <2>1, WalksAgree DEF Level
<1>5. ASSUME NEW key \in TokenKeys
      PROVE  Along(M, R[a], key, n) = Along(N, R[a], key, n)
  <2>1. ASSUME NEW m \in 1..RealSize - 1, NEW id \in WalkOf(N, R[a], Only(key))[m]
        PROVE  Chosen(M, id, Only(key)[m]) = Chosen(N, id, Only(key)[m])
    <3>1. m \in 1..RealSize
      BY <1>1
    <3>2. id \in Level(N, R[a], m)
      BY <1>2, <2>1, <3>1, AlongInTree DEF Along
    <3> QED
      BY <1>3, <3>2
  <2>2. SameWay(M, N, R[a], Only(key), RealSize)
    BY <2>1 DEF SameWay
  <2> QED
    BY <1>1, <1>2, <2>2, WalksAgree DEF Along
<1> QED
  BY <1>4, <1>5

\* It is a forest again.
LEMMA ForestStays ==
  ASSUME NEW N, NodesGood(N), NEW M, NodesGood(M), NEW R, NEW live, NEW top \in Nat,
         Forest(N, R, live, top), NEW tree \in live, NEW cur \in Level(N, R[tree], RealSize),
         NEW token, LeafChanges(M, N, cur, token)
  PROVE  Forest(M, R, live, top) /\ ForestIds(M, R, live) = ForestIds(N, R, live)
<1>1. RealSize \in Nat /\ RealSize \in 1..RealSize
  BY RadixAssumption
<1>2. \A a \in live : \A n \in 1..RealSize : Level(M, R[a], n) = Level(N, R[a], n)
  BY LevelsStay
<1>3. \A a \in live : /\ R[a] \in Nat
                      /\ \A n \in 1..RealSize : Level(M, R[a], n) \subseteq 0..top - 1
  BY <1>2 DEF Forest
<1>4. LevelsApart(M, R, live)
  BY <1>2 DEF Forest, LevelsApart
<1>5. \A a \in live : \A n \in 1..RealSize - 1 : \A id \in Level(N, R[a], n) : M[id] = N[id]
  <2> SUFFICES ASSUME NEW a \in live, NEW n \in 1..RealSize - 1, NEW id \in Level(N, R[a], n)
               PROVE  M[id] = N[id]
    OBVIOUS
  <2>1. n \in 1..RealSize /\ n # RealSize
    BY <1>1
  <2>2. id # cur
    BY <1>1, <2>1 DEF Forest, LevelsApart
  <2>3. id \in 0..top - 1
    BY <2>1 DEF Forest
  <2> QED
    BY <2>2, <2>3 DEF LeafChanges
<1>6. \A n \in 1..RealSize - 1 : n \in 1..RealSize
  BY <1>1
<1>7. ASSUME NEW a \in live
      PROVE  OneParent(M, R[a])
  <2>1. OneParent(N, R[a])
    BY DEF Forest
  <2> QED
    BY <1>2, <1>5, <1>6, <2>1 DEF OneParent
<1>8. ASSUME NEW a \in live
      PROVE  WidthsFit(M, R[a])
  <2>1. WidthsFit(N, R[a])
    BY DEF Forest
  <2>2. \A n \in 1..RealSize - 1 : \A id \in Level(M, R[a], n) :
          M[id].width = 0 => M[id].entries = << >>
    BY <1>2, <1>5, <1>6, <2>1 DEF WidthsFit
  <2>3. ASSUME NEW id \in Level(M, R[a], RealSize)
        PROVE  M[id].width = 0
    <3>1. id \in Level(N, R[a], RealSize) /\ id \in 0..top - 1
      BY <1>1, <1>2, <2>3 DEF Forest
    <3> QED
      BY <2>1, <3>1 DEF WidthsFit, LeafChanges
  <2> QED
    BY <2>2, <2>3 DEF WidthsFit
<1>9. ForestIds(M, R, live) = ForestIds(N, R, live)
  <2>1. \A a \in live : TreeIds(M, R[a]) = TreeIds(N, R[a])
    BY <1>2 DEF TreeIds
  <2> QED
    BY <2>1 DEF ForestIds
<1> QED
  BY <1>3, <1>4, <1>7, <1>8, <1>9 DEF Forest

\* The only number of gates that changes is that of the key that leads there.
LEMMA ContentChanges ==
  ASSUME NEW N, NodesGood(N), NEW M, NodesGood(M), NEW R, NEW live, NEW top \in Nat,
         Forest(N, R, live, top), NEW tree \in live, NEW key \in TokenKeys,
         NEW cur, Along(N, R[tree], key, RealSize) = {cur},
         LeafChanges(M, N, cur, key[RealSize]), NEW f, Chosen(M, cur, {key[RealSize]}) = {f}
  PROVE  /\ ContentOf(M, R[tree], key) = f.link
         /\ \A a \in live : \A other \in TokenKeys : a # tree \/ other # key =>
              ContentOf(M, R[a], other) = ContentOf(N, R[a], other)
<1>1. RealSize \in Nat /\ RealSize \in 1..RealSize
  BY RadixAssumption
<1>2. \A a \in live : R[a] \in Nat /\ \A n \in 1..RealSize : Level(N, R[a], n) \subseteq 0..top - 1
  BY DEF Forest
<1>3. cur \in Level(N, R[tree], RealSize)
  BY <1>1, <1>2, AlongInTree
<1>4. \A a \in live : \A other \in TokenKeys :
        Along(M, R[a], other, RealSize) = Along(N, R[a], other, RealSize)
  BY <1>1, <1>3, LevelsStay
<1>5. ContentOf(M, R[tree], key) = f.link
  BY <1>4, There
<1>6. ASSUME NEW a \in live, NEW other \in TokenKeys, a # tree \/ other # key
      PROVE  ContentOf(M, R[a], other) = ContentOf(N, R[a], other)
  <2>1. ASSUME NEW id \in Along(N, R[a], other, RealSize)
        PROVE  Chosen(M, id, {other[RealSize]}) = Chosen(N, id, {other[RealSize]})
    <3>1. id \in Level(N, R[a], RealSize)
      BY <1>1, <1>2, <2>1, AlongInTree
    <3>2. id \in Nat
      BY <1>1, <1>2, <3>1
    <3>3. CASE id # cur
      BY <3>2, <3>3 DEF LeafChanges, Chosen
    <3>4. CASE id = cur
      <4>1. a = tree
        BY <1>1, <1>3, <3>1, <3>4 DEF Forest, LevelsApart
      <4>2. \A m \in 1..RealSize - 1 : key[m] = other[m]
        <5>1. OneParent(N, R[tree]) /\ R[tree] \in Nat
          BY DEF Forest
        <5>2. cur \in Along(N, R[tree], key, RealSize) /\ cur \in Along(N, R[tree], other, RealSize)
          BY <2>1, <3>4, <4>1
        <5> QED
          BY <1>1, <5>1, <5>2, OneWay
      <4>3. other[RealSize] # key[RealSize]
        <5> SUFFICES ASSUME other[RealSize] = key[RealSize] PROVE FALSE
          OBVIOUS
        <5>1. \A m \in 1..RealSize : key[m] = other[m]
          <6> TAKE m \in 1..RealSize
          <6>1. m = RealSize \/ m \in 1..RealSize - 1
            BY <1>1
          <6> QED
            BY <4>2, <6>1
        <5>2. key = other
          <6>1. /\ key = [m \in 1..RealSize |-> key[m]]
                /\ other = [m \in 1..RealSize |-> other[m]]
            BY DEF TokenKeys
          <6> QED
            BY <5>1, <6>1
        <5> QED
          BY <1>6, <4>1, <5>2
      <4>4. other[RealSize] \in Nat
        BY <1>1 DEF TokenKeys
      <4> QED
        BY <3>4, <4>3, <4>4 DEF LeafChanges
    <3> QED
      BY <3>3, <3>4
  <2>2. Hits(M, R[a], other) = Hits(N, R[a], other)
    <3>1. Along(M, R[a], other, RealSize) = Along(N, R[a], other, RealSize)
      BY <1>4
    <3>2. ASSUME NEW id \in Along(N, R[a], other, RealSize)
          PROVE  {e.link : e \in Chosen(M, id, {other[RealSize]})}
                   = {e.link : e \in Chosen(N, id, {other[RealSize]})}
      BY <2>1
    <3>3. {{e.link : e \in Chosen(M, id, {other[RealSize]})} :
             id \in Along(N, R[a], other, RealSize)}
            = {{e.link : e \in Chosen(N, id, {other[RealSize]})} :
                 id \in Along(N, R[a], other, RealSize)}
      BY <3>2
    <3> QED
      BY <3>1, <3>3 DEF Hits
  <2> QED
    BY <2>2 DEF ContentOf
<1> QED
  BY <1>5, <1>6

\* A new root, of a node that is empty.
LEMMA ForestRoot ==
  ASSUME NEW N, NodesGood(N), NEW R, NEW Q, NEW live, NEW top \in Nat,
         Forest(N, R, live, top), N[top] = Empty, NEW tree, tree \notin live,
         Q[tree] = top, \A a \in live : Q[a] = R[a]
  PROVE  /\ Forest(N, Q, live \cup {tree}, top + 1)
         /\ ForestIds(N, Q, live \cup {tree}) = ForestIds(N, R, live) \cup {top}
         /\ \A key \in TokenKeys : ContentOf(N, top, key) = None
<1>1. RealSize \in Nat /\ 1 \in 1..RealSize /\ top \notin 0..top - 1
  BY RadixAssumption
<1>2. \A tokens : Chosen(N, top, tokens) = {}
  BY EmptyIsGood DEF Chosen
<1>3. ASSUME NEW T, NEW n \in 1..RealSize
      PROVE  WalkOf(N, top, T)[n] = IF n = 1 THEN {top} ELSE {}
  <2>1. WalkOf(N, top, T)[1] = {top}
    BY WalkIs
  <2>2. CASE n = 1
    BY <2>1, <2>2
  <2>3. CASE n # 1
    <3>1. 1 \in 1..RealSize - 1 /\ n \in 1 + 1..RealSize /\ 1 + 1 \in 1..RealSize
      BY <1>1, <2>3
    <3>2. WalkOf(N, top, T)[1 + 1] = Kids(N, {top}, T[1])
      <4>1. \A m \in 1..RealSize - 1 :
              WalkOf(N, top, T)[m + 1] = Kids(N, WalkOf(N, top, T)[m], T[m])
        BY WalkIs
      <4> QED
        BY <2>1, <3>1, <4>1
    <3>3. Kids(N, {top}, T[1]) = {}
      BY <1>2 DEF Kids
    <3>4. WalkOf(N, top, T)[n] = {}
      BY <3>1, <3>2, <3>3, EmptyStays
    <3> QED
      BY <2>3, <3>4
  <2> QED
    BY <2>2, <2>3
<1>4. \A n \in 1..RealSize : Level(N, top, n) = IF n = 1 THEN {top} ELSE {}
  BY <1>3 DEF Level
<1>5. \A a \in live : /\ R[a] \in Nat
                      /\ \A n \in 1..RealSize : Level(N, R[a], n) \subseteq 0..top - 1
                      /\ OneParent(N, R[a]) /\ WidthsFit(N, R[a])
  BY DEF Forest
<1>6. LevelsApart(N, Q, live \cup {tree})
  <2> SUFFICES ASSUME NEW a \in live \cup {tree}, NEW b \in live \cup {tree},
                      NEW m \in 1..RealSize, NEW n \in 1..RealSize,
                      NEW id \in Level(N, Q[a], m), id \in Level(N, Q[b], n)
               PROVE  a = b /\ m = n
    BY DEF LevelsApart
  <2>1. /\ a \in live => id \in 0..top - 1
        /\ b \in live => id \in 0..top - 1
        /\ a = tree => id = top /\ m = 1
        /\ b = tree => id = top /\ n = 1
    BY <1>4, <1>5
  <2>2. CASE a \in live /\ b \in live
    BY <2>2 DEF Forest, LevelsApart
  <2>3. CASE a = tree /\ b = tree
    BY <2>1, <2>3
  <2> QED
    BY <1>1, <2>1, <2>2, <2>3
<1>7. ASSUME NEW a \in live \cup {tree}
      PROVE  /\ Q[a] \in Nat /\ \A n \in 1..RealSize : Level(N, Q[a], n) \subseteq 0..top + 1 - 1
             /\ OneParent(N, Q[a]) /\ WidthsFit(N, Q[a])
  <2>1. CASE a \in live
    <3>1. 0..top - 1 \subseteq 0..top + 1 - 1
      OBVIOUS
    <3> QED
      BY <1>5, <2>1, <3>1
  <2>2. CASE a = tree
    <3>1. top \in 0..top + 1 - 1
      OBVIOUS
    <3>2. \A n \in 1..RealSize : Level(N, top, n) \subseteq {top}
      BY <1>4
    <3>3. \A n \in 1..RealSize - 1 : n \in 1..RealSize
      BY <1>1
    <3>4. OneParent(N, top)
      BY <3>2, <3>3, EmptyIsGood DEF OneParent
    <3>5. WidthsFit(N, top)
      <4>1. RealSize \in 1..RealSize /\ N[top].width = 0 /\ N[top].entries = << >>
        BY <1>1 DEF Empty
      <4> QED
        BY <3>2, <3>3, <4>1 DEF WidthsFit
    <3> QED
      BY <2>2, <3>1, <3>2, <3>4, <3>5
  <2> QED
    BY <2>1, <2>2
<1>8. ForestIds(N, Q, live \cup {tree}) = ForestIds(N, R, live) \cup {top}
  <2>1. TreeIds(N, top) = {top}
    BY <1>1, <1>4 DEF TreeIds
  <2>2. ForestIds(N, Q, live \cup {tree}) = ForestIds(N, Q, live) \cup TreeIds(N, Q[tree])
    BY DEF ForestIds
  <2>3. ForestIds(N, Q, live) = ForestIds(N, R, live)
    BY DEF ForestIds
  <2> QED
    BY <2>1, <2>2, <2>3
<1>9. ASSUME NEW key \in TokenKeys
      PROVE  ContentOf(N, top, key) = None
  <2>1. Along(N, top, key, 1) = {top} /\ Chosen(N, top, {key[1]}) = {}
    BY <1>1, <1>2, <1>3 DEF Along
  <2> QED
    BY <1>1, <2>1, NotThere
<1>10. Forest(N, Q, live \cup {tree}, top + 1)
  BY <1>6, <1>7 DEF Forest
<1> QED
  BY <1>8, <1>9, <1>10

\* A tree and the others have no nodes in common.
LEMMA ForestLess ==
  ASSUME NEW N, NEW R, NEW live, NEW top \in Nat,
         Forest(N, R, live, top), NEW tree \in live
  PROVE  /\ Forest(N, R, live \ {tree}, top)
         /\ ForestIds(N, R, live) = ForestIds(N, R, live \ {tree}) \cup TreeIds(N, R[tree])
         /\ ForestIds(N, R, live \ {tree}) \cap TreeIds(N, R[tree]) = {}
<1>1. Forest(N, R, live \ {tree}, top)
  BY DEF Forest, LevelsApart
<1>2. ForestIds(N, R, live) = ForestIds(N, R, live \ {tree}) \cup TreeIds(N, R[tree])
  BY DEF ForestIds
<1>3. ForestIds(N, R, live \ {tree}) \cap TreeIds(N, R[tree]) = {}
  <2> SUFFICES ASSUME NEW x \in ForestIds(N, R, live \ {tree}), x \in TreeIds(N, R[tree])
               PROVE  FALSE
    OBVIOUS
  <2>1. PICK a \in live \ {tree} : x \in TreeIds(N, R[a])
    BY DEF ForestIds
  <2>2. PICK m \in 1..RealSize : x \in Level(N, R[a], m)
    BY <2>1 DEF TreeIds
  <2>3. PICK n \in 1..RealSize : x \in Level(N, R[tree], n)
    BY DEF TreeIds
  <2> QED
    BY <2>1, <2>2, <2>3 DEF Forest, LevelsApart
<1> QED
  BY <1>1, <1>2, <1>3

\* A forest has finitely many nodes, and its trees have a root each.
LEMMA ForestCounts ==
  ASSUME NEW N, NodesGood(N), NEW R, NEW live, NEW top \in Nat, Forest(N, R, live, top)
  PROVE  /\ ForestIds(N, R, live) \subseteq 0..top - 1 /\ IsFiniteSet(ForestIds(N, R, live))
         /\ Cardinality(ForestIds(N, R, live)) \in 0..top
         /\ \A a \in live : R[a] \in ForestIds(N, R, live) /\ TreeIds(N, R[a]) \subseteq 0..top - 1
<1>1. 1 \in 1..RealSize
  BY RadixAssumption
<1>2. ForestIds(N, R, live) \subseteq 0..top - 1
  BY DEF ForestIds, TreeIds, Forest
<1>3. IsFiniteSet(0..top - 1) /\ Cardinality(0..top - 1) = top
  <2>1. 0 \in Int /\ top - 1 \in Int
    OBVIOUS
  <2> QED
    BY <2>1, FS_Interval
<1>4. /\ IsFiniteSet(ForestIds(N, R, live))
      /\ Cardinality(ForestIds(N, R, live)) \in Nat
      /\ Cardinality(ForestIds(N, R, live)) <= top
  BY <1>2, <1>3, FS_Subset, FS_CardinalityType
<1>5. ASSUME NEW a \in live
      PROVE  R[a] \in ForestIds(N, R, live) /\ TreeIds(N, R[a]) \subseteq 0..top - 1
  <2>1. R[a] \in Level(N, R[a], 1)
    <3>1. R[a] \in Nat
      BY DEF Forest
    <3> QED
      BY <3>1, WalkIs DEF Level
  <2> QED
    BY <1>1, <2>1 DEF ForestIds, TreeIds, Forest
<1>6. Cardinality(ForestIds(N, R, live)) \in 0..top
  BY <1>4
<1> QED
  BY <1>2, <1>4, <1>5, <1>6
-----------------------------------------------------------------------------
\* The nodes as they are now, in the buffer or in the storage.

\* The nodes as they are now, wherever they are.
View == [id \in Nat |-> NodeNow(id)]

\* Two functions with the same start, each of whose values tells the next.
LEMMA SameRecursion ==
  ASSUME NEW f, NEW g, NEW m \in Nat, f[1] = g[1],
         \A n \in 1..m - 1 : f[n] = g[n] => f[n + 1] = g[n + 1]
  PROVE  \A n \in 1..m : f[n] = g[n]
<1> DEFINE Bad == {n \in 1..m : f[n] # g[n]}
<1> SUFFICES ASSUME Bad # {} PROVE FALSE
  OBVIOUS
<1>1. PICK n \in Bad : \A c \in Bad : n <= c
  <2>1. Bad \subseteq Nat
    OBVIOUS
  <2> QED
    BY <2>1, LeastExists
<1>2. n # 1 /\ n \in 1..m /\ f[n] # g[n]
  BY <1>1
<1>3. n - 1 \in 1..m - 1 /\ n - 1 \in 1..m /\ n - 1 \notin Bad /\ (n - 1) + 1 = n
  BY <1>1, <1>2
<1>4. f[n - 1] = g[n - 1]
  BY <1>3
<1> HIDE DEF Bad
<1>5. f[(n - 1) + 1] = g[(n - 1) + 1]
  BY <1>3, <1>4
<1> QED
  BY <1>2, <1>3, <1>5

\* The node that an entry of a node leads to.
Child(id, e) == id + 1 + e.link

\* The entries that a level leads on with.
Leads(N, ids, tokens, id, e) == id \in ids /\ e \in Chosen(N, id, tokens)

\* What they lead to is the next level.
LEMMA KidsLed ==
  ASSUME NEW N, NEW ids, NEW tokens
  PROVE  /\ \A id, e : Leads(N, ids, tokens, id, e) => Child(id, e) \in Kids(N, ids, tokens)
         /\ \A x \in Kids(N, ids, tokens) :
              \E id, e : Leads(N, ids, tokens, id, e) /\ x = Child(id, e)
<1>1. \A x : x \in Kids(N, ids, tokens) <=>
           \E id \in ids : \E e \in Chosen(N, id, tokens) : x = id + 1 + e.link
  BY KidsAre
<1> QED
  BY <1>1 DEF Leads, Child

\* What Levels() solves.
IsLevels(f, tree) ==
  f = [n \in 1..RealSize |->
         IF n = 1 THEN {RootID[tree]} ELSE UNION {Children(id) : id \in f[n - 1]}]

\* The levels of a tree are those of the nodes as they are now.
LEMMA LevelsAre ==
  ASSUME NodesGood(View), NEW tree, RootID[tree] \in Nat
  PROVE  /\ DOMAIN Levels(tree) = 1..RealSize
         /\ \A n \in 1..RealSize : Levels(tree)[n] = Level(View, RootID[tree], n)
<1> PICK root : root = RootID[tree]
  OBVIOUS
<1> PICK W : W = WalkOf(View, root, AnyToken)
  OBVIOUS
<1>1. RealSize \in Nat /\ RealSize >= 1
  BY RadixAssumption
<1>2. /\ W[1] = {root} /\ \A n \in 1..RealSize - 1 : W[n + 1] = Kids(View, W[n], AnyToken[n])
      /\ \A n \in 1..RealSize : W[n] \subseteq Nat
      /\ IsWalk(W, View, root, AnyToken)
  BY WalkIs
<1>3. ASSUME NEW ids \in SUBSET Nat, NEW n \in 1..RealSize
      PROVE  UNION {Children(id) : id \in ids} = Kids(View, ids, AnyToken[n])
  <2>1. \A id \in ids : Children(id) = {id + 1 + e.link : e \in Chosen(View, id, AnyToken[n])}
    <3> TAKE id \in ids
    <3>1. View[id] = NodeNow(id) /\ id \in Nat /\ AnyToken[n] = Nat
      BY DEF View, AnyToken
    <3>2. \A e \in Range(View[id].entries) : e.token \in Nat
      BY <3>1, EntriesAre
    <3>3. Chosen(View, id, AnyToken[n]) = Range(NodeNow(id).entries)
      BY <3>1, <3>2 DEF Chosen
    <3> QED
      BY <3>3 DEF Children
  <2> QED
    BY <2>1 DEF Kids
<1>4. IsLevels(W, tree)
  <2>1. W = [n \in 1..RealSize |-> IF n = 1 THEN {root} ELSE Kids(View, W[n - 1], AnyToken[n - 1])]
    BY <1>2 DEF IsWalk
  <2>2. \A n \in 1..RealSize : n # 1 => n - 1 \in 1..RealSize /\ W[n - 1] \in SUBSET Nat
    BY <1>1, <1>2
  <2>3. \A n \in 1..RealSize : n # 1 =>
          UNION {Children(id) : id \in W[n - 1]} = Kids(View, W[n - 1], AnyToken[n - 1])
    BY <1>3, <2>2
  <2> QED
    BY <2>1, <2>3 DEF IsLevels
<1> PICK L : L = Levels(tree)
  OBVIOUS
<1>5. IsLevels(L, tree)
  <2>1. Levels(tree) = CHOOSE f : IsLevels(f, tree)
    BY DEF Levels, IsLevels
  <2> QED
    BY <1>4, <2>1
<1>6. DOMAIN L = 1..RealSize
  BY <1>5 DEF IsLevels
<1>7. L[1] = W[1]
  BY <1>1, <1>2, <1>5 DEF IsLevels
<1>8. \A n \in 1..RealSize - 1 : L[n] = W[n] => L[n + 1] = W[n + 1]
  <2> TAKE n \in 1..RealSize - 1
  <2> HAVE L[n] = W[n]
  <2>1. n + 1 \in 1..RealSize /\ n + 1 # 1 /\ (n + 1) - 1 = n /\ n \in 1..RealSize
    BY <1>1
  <2>2. L[n + 1] = UNION {Children(id) : id \in L[(n + 1) - 1]}
    BY <1>5, <2>1 DEF IsLevels
  <2>3. W[n] \in SUBSET Nat
    BY <1>2, <2>1
  <2>4. UNION {Children(id) : id \in W[n]} = Kids(View, W[n], AnyToken[n])
    BY <1>3, <2>1, <2>3
  <2> QED
    BY <1>2, <2>1, <2>2, <2>4
<1>9. \A n \in 1..RealSize : L[n] = W[n]
  BY <1>1, <1>7, <1>8, SameRecursion
<1> QED
  BY <1>6, <1>9 DEF Level

\* The nodes of a tree, and the inner ones of them.
LEMMA NodesAre ==
  ASSUME NodesGood(View), NEW tree, RootID[tree] \in Nat
  PROVE  /\ Nodes(tree) = TreeIds(View, RootID[tree])
         /\ Inner(tree) = UNION {Level(View, RootID[tree], n) : n \in 1..RealSize - 1}
         /\ Inner(tree) \subseteq Nodes(tree)
<1> PICK L : L = Levels(tree)
  OBVIOUS
<1>1. DOMAIN L = 1..RealSize /\ \A n \in 1..RealSize : L[n] = Level(View, RootID[tree], n)
  BY LevelsAre
<1>2. \A n \in 1..RealSize - 1 : n \in 1..RealSize
  BY RadixAssumption
<1>3. Nodes(tree) = TreeIds(View, RootID[tree])
  BY <1>1 DEF Nodes, TreeIds, Range
<1>4. Inner(tree) = UNION {Level(View, RootID[tree], n) : n \in 1..RealSize - 1}
  BY <1>1, <1>2 DEF Inner
<1> QED
  BY <1>2, <1>3, <1>4 DEF TreeIds

\* The nodes of a level, each with an entry for the key's next token.
WithEntry(ids, key, n) ==
  UNION {{<<id, e>> : e \in {f \in Range(NodeNow(id).entries) : f.token = key[n]}} : id \in ids}

\* What Content() follows.
IsAlong(f, tree, key) ==
  f = [n \in 1..RealSize |->
         IF n = 1 THEN {RootID[tree]}
         ELSE {p[1] + 1 + p[2].link : p \in WithEntry(f[n - 1], key, n - 1)}]

\* Those are the pairs of nodes and entries that lead on.
LEMMA PairsAre ==
  ASSUME NEW ids \in SUBSET Nat, NEW key, NEW n
  PROVE  WithEntry(ids, key, n)
           = UNION {{<<id, e>> : e \in Chosen(View, id, {key[n]})} : id \in ids}
<1>1. ASSUME NEW id \in ids
      PROVE  Chosen(View, id, {key[n]}) = {f \in Range(NodeNow(id).entries) : f.token = key[n]}
  BY DEF View, Chosen
<1> QED
  BY <1>1 DEF WithEntry

\* Every pair is one.
LEMMA PairFrom ==
  ASSUME NEW ids \in SUBSET Nat, NEW key, NEW n, NEW p \in WithEntry(ids, key, n)
  PROVE  \E id, e : Leads(View, ids, {key[n]}, id, e) /\ p = <<id, e>>
<1> DEFINE Pairs(id) == {<<id, e>> : e \in Chosen(View, id, {key[n]})}
<1>1. WithEntry(ids, key, n) = UNION {Pairs(id) : id \in ids}
  BY PairsAre
<1>2. PICK id \in ids : p \in Pairs(id)
  <2> HIDE DEF Pairs
  <2> QED
    BY <1>1
<1>3. PICK e \in Chosen(View, id, {key[n]}) : p = <<id, e>>
  BY <1>2
<1> QED
  BY <1>3, Zenon DEF Leads

\* All that lead on are among them.
LEMMA PairOf ==
  ASSUME NEW ids \in SUBSET Nat, NEW key, NEW n, NEW id, NEW e,
         Leads(View, ids, {key[n]}, id, e)
  PROVE  <<id, e>> \in WithEntry(ids, key, n)
<1> DEFINE Pairs(a) == {<<a, f>> : f \in Chosen(View, a, {key[n]})}
<1>1. WithEntry(ids, key, n) = UNION {Pairs(a) : a \in ids}
  BY PairsAre
<1>2. <<id, e>> \in Pairs(id) /\ id \in ids
  BY DEF Leads
<1> HIDE DEF Pairs
<1> QED
  BY <1>1, <1>2

\* What a tree holds for a key is what the nodes as they are now hold.
LEMMA ContentIs ==
  ASSUME NodesGood(View), NEW tree, RootID[tree] \in Nat, NEW key \in TokenKeys
  PROVE  Content(tree, key) = ContentOf(View, RootID[tree], key)
<1> PICK root : root = RootID[tree]
  OBVIOUS
<1>1. PICK W : W = WalkOf(View, root, Only(key))
  OBVIOUS
<1>2. RealSize \in Nat /\ RealSize >= 1
  BY RadixAssumption
<1>3. /\ W[1] = {root} /\ \A n \in 1..RealSize - 1 : W[n + 1] = Kids(View, W[n], Only(key)[n])
      /\ \A n \in 1..RealSize : W[n] \subseteq Nat
      /\ IsWalk(W, View, root, Only(key))
  BY <1>1, WalkIs
<1>4. ASSUME NEW ids \in SUBSET Nat, NEW n \in 1..RealSize
      PROVE  {p[1] + 1 + p[2].link : p \in WithEntry(ids, key, n)} = Kids(View, ids, Only(key)[n])
  <2>1. Only(key)[n] = {key[n]}
    BY DEF Only
  <2>2. ASSUME NEW p \in WithEntry(ids, key, n)
        PROVE  p[1] + 1 + p[2].link \in Kids(View, ids, {key[n]})
    <3>1. PICK id, e : Leads(View, ids, {key[n]}, id, e) /\ p = <<id, e>>
      BY PairFrom
    <3>2. p[1] = id /\ p[2] = e
      BY <3>1
    <3>3. Child(id, e) \in Kids(View, ids, {key[n]})
      BY <3>1, KidsLed
    <3> QED
      BY <3>2, <3>3 DEF Child
  <2>3. ASSUME NEW x \in Kids(View, ids, {key[n]})
        PROVE  \E p \in WithEntry(ids, key, n) : x = p[1] + 1 + p[2].link
    <3>1. PICK id, e : Leads(View, ids, {key[n]}, id, e) /\ x = Child(id, e)
      BY KidsLed
    <3>2. <<id, e>> \in WithEntry(ids, key, n) /\ <<id, e>>[1] = id /\ <<id, e>>[2] = e
      BY <3>1, PairOf
    <3> QED
      BY <3>1, <3>2 DEF Child
  <2> QED
    BY <2>1, <2>2, <2>3
<1>5. IsAlong(W, tree, key)
  <2>1. W = [n \in 1..RealSize |-> IF n = 1 THEN {root} ELSE Kids(View, W[n - 1], Only(key)[n - 1])]
    BY <1>3 DEF IsWalk
  <2>2. \A n \in 1..RealSize : n # 1 => n - 1 \in 1..RealSize /\ W[n - 1] \in SUBSET Nat
    BY <1>2, <1>3
  <2>3. \A n \in 1..RealSize : n # 1 =>
          {p[1] + 1 + p[2].link : p \in WithEntry(W[n - 1], key, n - 1)} =
            Kids(View, W[n - 1], Only(key)[n - 1])
    BY <1>4, <2>2
  <2>4. W = [n \in 1..RealSize |-> IF n = 1 THEN {root} ELSE
             {p[1] + 1 + p[2].link : p \in WithEntry(W[n - 1], key, n - 1)}]
    BY <2>1, <2>3
  <2> QED
    BY <2>4 DEF IsAlong
<1>6. PICK L : L = CHOOSE f : IsAlong(f, tree, key)
  OBVIOUS
<1>7. IsAlong(L, tree, key)
  BY <1>6, <1>5
<1> DEFINE After(ids, n) == {p[1] + 1 + p[2].link : p \in WithEntry(ids, key, n)}
<1>8. L = [n \in 1..RealSize |-> IF n = 1 THEN {root} ELSE After(L[n - 1], n - 1)]
  BY <1>7 DEF IsAlong
<1>9. L[1] = W[1]
  <2> HIDE DEF After
  <2>1. 1 \in 1..RealSize
    BY <1>2
  <2>2. L[1] = {root}
    BY <2>1, <1>8, Zenon
  <2> QED
    BY <1>3, <2>2
<1>10. \A n \in 1..RealSize - 1 : L[n] = W[n] => L[n + 1] = W[n + 1]
  <2> TAKE n \in 1..RealSize - 1
  <2> HAVE L[n] = W[n]
  <2>1. n + 1 \in 1..RealSize /\ n + 1 # 1 /\ (n + 1) - 1 = n /\ n \in 1..RealSize
    BY <1>2
  <2>2. L[n + 1] = After(L[(n + 1) - 1], (n + 1) - 1)
    <3> HIDE DEF After
    <3> QED
      BY <1>8, <2>1
  <2>3. W[n] \in SUBSET Nat
    BY <1>3, <2>1
  <2>4. After(W[n], n) = Kids(View, W[n], Only(key)[n])
    BY <1>4, <2>1, <2>3
  <2> HIDE DEF After
  <2> QED
    BY <1>3, <2>1, <2>2, <2>4
<1>11. L[RealSize] = W[RealSize]
  <2>1. \A n \in 1..RealSize : L[n] = W[n]
    BY <1>2, <1>9, <1>10, SameRecursion
  <2> QED
    BY <1>2, <2>1
<1>12. PICK hits : hits = {p[2].link : p \in WithEntry(L[RealSize], key, RealSize)}
  OBVIOUS
<1>13. Content(tree, key) = IF hits = {} THEN None ELSE CHOOSE gates \in hits : TRUE
  BY <1>6, <1>12 DEF Content, IsAlong, WithEntry
<1>14. hits = Hits(View, root, key)
  <2>1. W[RealSize] \in SUBSET Nat /\ RealSize \in 1..RealSize
    BY <1>2, <1>3
  <2>2. \A x : x \in Hits(View, root, key) <=>
          \E id \in W[RealSize] : \E e \in Chosen(View, id, {key[RealSize]}) : x = e.link
    BY <1>1 DEF Hits, Along
  <2>3. ASSUME NEW p \in WithEntry(W[RealSize], key, RealSize)
        PROVE  p[2].link \in Hits(View, root, key)
    <3>1. PICK id, e : Leads(View, W[RealSize], {key[RealSize]}, id, e) /\ p = <<id, e>>
      BY <2>1, PairFrom
    <3>2. p[2] = e
      BY <3>1
    <3>3. id \in W[RealSize] /\ e \in Chosen(View, id, {key[RealSize]})
      BY <3>1 DEF Leads
    <3>4. e.link \in Hits(View, root, key)
      BY <2>2, <3>3
    <3> QED
      BY <3>2, <3>4
  <2>4. ASSUME NEW x \in Hits(View, root, key)
        PROVE  \E p \in WithEntry(W[RealSize], key, RealSize) : x = p[2].link
    <3>1. PICK id, e : Leads(View, W[RealSize], {key[RealSize]}, id, e) /\ x = e.link
      BY <2>2 DEF Leads
    <3>2. <<id, e>> \in WithEntry(W[RealSize], key, RealSize) /\ <<id, e>>[2] = e
      BY <2>1, <3>1, PairOf
    <3> QED
      BY <3>1, <3>2
  <2> QED
    BY <1>11, <1>12, <2>3, <2>4
<1> QED
  BY <1>13, <1>14 DEF ContentOf

\* A node as it is now.
LEMMA NowGood ==
  ASSUME NodesGood(View), NEW id \in Nat
  PROVE  /\ View[id] = NodeNow(id) /\ GoodNode(NodeNow(id))
         /\ NodeNow(id).entries \in Seq(Entries) /\ Len(NodeNow(id).entries) \in Nat
<1>1. View[id] = NodeNow(id)
  BY DEF View
<1>2. GoodNode(View[id])
  BY DEF NodesGood
<1>3. GoodNode(NodeNow(id))
  BY <1>1, <1>2
<1> QED
  BY <1>1, <1>3 DEF GoodNode, Sorted

\* The rightmost node below a node, or itself if it has no entries.
Rightmost(id) ==
  IF NodeNow(id).entries = << >> THEN id ELSE id + 1 + Last(NodeNow(id).entries).link

\* What LastRead() follows.
IsPath(f, tree) ==
  f = [n \in 1..RealSize - 1 |-> IF n = 1 THEN RootID[tree] ELSE Rightmost(f[n - 1])]

\* The rightmost node is of the next level, if there is an entry.
LEMMA RightmostIs ==
  ASSUME NodesGood(View), NEW root \in Nat, NEW n \in 1..RealSize - 1,
         NEW id \in Level(View, root, n)
  PROVE  Rightmost(id) = id \/ Rightmost(id) \in Level(View, root, n + 1)
<1>1. RealSize \in Nat /\ n \in 1..RealSize
  BY RadixAssumption
<1>2. id \in Nat
  BY <1>1, WalkIs DEF Level
<1>3. View[id] = NodeNow(id)
  BY <1>2 DEF View
<1> PICK s : s = NodeNow(id).entries
  OBVIOUS
<1>4. s \in Seq(Entries) /\ Len(s) \in Nat
  BY <1>2, NowGood
<1>5. CASE s = << >>
  BY <1>5 DEF Rightmost
<1>6. CASE s # << >>
  <2>1. Len(s) \in DOMAIN s /\ Last(s) = s[Len(s)]
    BY <1>4, <1>6 DEF Last
  <2>2. Last(s) \in Range(View[id].entries)
    BY <1>3, <2>1 DEF Range
  <2>3. Last(s) \in Chosen(View, id, AnyToken[n])
    <3>1. AnyToken[n] = Nat
      BY <1>1 DEF AnyToken
    <3>2. Last(s).token \in Nat
      BY <1>2, <2>2, EntriesAre
    <3> QED
      BY <2>2, <3>1, <3>2 DEF Chosen
  <2>4. id + 1 + Last(s).link \in Kids(View, Level(View, root, n), AnyToken[n])
    BY <2>3, KidsLed DEF Leads, Child
  <2>5. Level(View, root, n + 1) = Kids(View, Level(View, root, n), AnyToken[n])
    BY WalkIs DEF Level
  <2> QED
    BY <1>6, <2>4, <2>5 DEF Rightmost
<1> QED
  BY <1>5, <1>6

\* The last node that DeleteArray() reads is an inner node of the tree.
LEMMA LastReadIs ==
  ASSUME NodesGood(View), NEW tree, RootID[tree] \in Nat, RealSize > 1
  PROVE  LastRead(tree) \in Inner(tree)
<1> PICK root, m : root = RootID[tree] /\ m = RealSize - 1
  OBVIOUS
<1> DEFINE step == [n \in 2..m |-> [id \in Nat |-> Rightmost(id)]]
<1>1. RealSize \in Nat /\ m \in Nat /\ m >= 1 /\ 1 \in Nat /\ root \in Nat /\ 1 + 1 = 2
  BY RadixAssumption
<1>2. \A id \in Nat : Rightmost(id) \in Nat
  <2> TAKE id \in Nat
  <2>1. View[id] = NodeNow(id)
    BY DEF View
  <2> PICK s : s = NodeNow(id).entries
    OBVIOUS
  <2>2. s \in Seq(Entries) /\ Len(s) \in Nat
    BY NowGood
  <2>3. CASE s = << >>
    BY <2>3 DEF Rightmost
  <2>4. CASE s # << >>
    <3>1. Last(s) \in Entries
      BY <2>2, <2>4 DEF Last
    <3>2. Last(s).link \in Nat
      BY <3>1 DEF Entries
    <3> QED
      BY <2>4, <3>2 DEF Rightmost
  <2> QED
    BY <2>3, <2>4
<1>3. PICK f : Follows(f, 1, m, root, step)
  <2>1. \A n \in 1 + 1..m : \A id \in Nat : step[n][id] \in Nat
    BY <1>1, <1>2
  <2>2. m \in Nat /\ 1 \in Nat /\ root \in Nat
    BY <1>1
  <2> HIDE DEF step
  <2>3. \E f : Follows(f, 1, m, root, step) /\ \A n \in 1..m : f[n] \in Nat
    BY <2>1, <2>2, FollowerExists, Zenon
  <2> QED
    BY <2>3
<1>4. \A n \in 1..m : f[n] \in Nat
  <2> DEFINE Bad == {n \in 1..m : f[n] \notin Nat}
  <2> SUFFICES ASSUME Bad # {} PROVE FALSE
    OBVIOUS
  <2>1. PICK n \in Bad : \A c \in Bad : n <= c
    <3>1. Bad \subseteq Nat
      OBVIOUS
    <3> QED
      BY <3>1, LeastExists
  <2>2. n # 1 /\ n \in 1..m /\ f[n] \notin Nat
    BY <1>1, <1>3, <2>1 DEF Follows
  <2>3. n \in 2..m /\ n - 1 \in 1..m /\ n - 1 \notin Bad
    BY <1>1, <2>1, <2>2
  <2>4. f[n - 1] \in Nat
    BY <2>3
  <2>5. f[n] = step[n][f[n - 1]]
    <3> HIDE DEF step
    <3> QED
      BY <1>3, <2>2 DEF Follows
  <2>6. step[n][f[n - 1]] = Rightmost(f[n - 1])
    BY <2>3, <2>4
  <2> QED
    BY <1>2, <2>2, <2>4, <2>5, <2>6
<1>5. IsPath(f, tree)
  <2>1. \A n \in 1..m : n # 1 => n \in 2..m /\ f[n - 1] \in Nat
    BY <1>1, <1>4
  <2>2. \A n \in 1..m : n # 1 => step[n][f[n - 1]] = Rightmost(f[n - 1])
    BY <2>1
  <2> HIDE DEF step
  <2> QED
    BY <1>3, <2>2 DEF Follows, IsPath
<1> PICK path : path = CHOOSE p : IsPath(p, tree)
  OBVIOUS
<1>6. IsPath(path, tree)
  BY <1>5
<1>7. LastRead(tree) = path[m]
  BY DEF LastRead, IsPath, Rightmost
<1>8. \A n \in 1..m : path[n] \in Inner(tree)
  <2>1. Inner(tree) = UNION {Level(View, root, n) : n \in 1..m}
    BY NodesAre
  <2> DEFINE Bad == {n \in 1..m : ~ \E k \in 1..n : path[n] \in Level(View, root, k)}
  <2>2. Bad = {}
    <3> SUFFICES ASSUME Bad # {} PROVE FALSE
      OBVIOUS
    <3>1. PICK n \in Bad : \A c \in Bad : n <= c
      <4>1. Bad \subseteq Nat
        OBVIOUS
      <4> QED
        BY <4>1, LeastExists
    <3>2. root \in Level(View, root, 1)
      BY <1>1, WalkIs DEF Level
    <3>3. n # 1 /\ n \in 1..m
      <4>1. 1 \in 1..RealSize - 1
        BY <1>1
      <4>2. path[1] = RootID[tree]
        BY <1>6, <4>1, Zenon DEF IsPath
      <4>3. \E k \in 1..1 : path[1] \in Level(View, root, k)
        BY <3>2, <4>2
      <4> QED
        BY <3>1, <4>3
    <3>4. n - 1 \in 1..m /\ n - 1 \notin Bad /\ n - 1 <= n /\ n \in Nat
      BY <3>1, <3>3
    <3>5. PICK k \in 1..n - 1 : path[n - 1] \in Level(View, root, k)
      BY <3>4
    <3>6. k \in 1..RealSize - 1 /\ k \in 1..n /\ k + 1 \in 1..n
      BY <1>1, <3>3, <3>5
    <3>7. path[n] = Rightmost(path[n - 1])
      BY <1>6, <3>3 DEF IsPath
    <3>8. path[n] = path[n - 1] \/ path[n] \in Level(View, root, k + 1)
      BY <1>1, <3>5, <3>6, <3>7, RightmostIs
    <3>9. \E j \in 1..n : path[n] \in Level(View, root, j)
      BY <3>5, <3>6, <3>8
    <3> QED
      BY <3>1, <3>9
  <2> TAKE n \in 1..m
  <2>3. PICK k \in 1..n : path[n] \in Level(View, root, k)
    BY <2>2
  <2>4. k \in 1..m
    BY <1>1, <2>3
  <2> HIDE DEF Bad
  <2> QED
    BY <2>1, <2>3, <2>4
<1>9. m \in 1..m
  BY <1>1
<1> QED
  BY <1>7, <1>8, <1>9
-----------------------------------------------------------------------------
\* Who works on the trees, and the locks.

\* Where a thread can be, and what it can be doing there.
Places == [op : {"peek", "check", "add", "ensure"}, tree : Nat, key : TokenKeys, gates : Nat,
           cur : Nat, level : 1..RealSize, found : Nat]

Labels == {"idle", "read", "write", "own", "load", "search", "answer", "lock", "deleted"}

ControlTypes ==
  /\ pc \in [Threads -> Labels] /\ at \in [Threads -> Places]
  /\ DOMAIN RootID \subseteq Trees /\ RootID \in [DOMAIN RootID -> Nat]
  /\ Size \in [DOMAIN RootID -> Nat]
  /\ \A t \in Threads : pc[t] # "idle" => at[t].tree \in DOMAIN RootID

\* t goes through the nodes, t waits for an answer or has it, t holds a lock.
Walks(t)   == pc[t] \in {"read", "write", "own", "load", "search"}
Walking(t) == Walks(t) \/ pc[t] = "answer"
Peeks(t)   == Walking(t) /\ at[t].op = "peek"
Writes(t)  == pc[t] = "deleted" \/ (Walking(t) /\ at[t].op # "peek")

\* The locks are held by those that think they hold them.
LockInv ==
  /\ readers = {t \in Threads : Peeks(t)}
  /\ writer \in Threads \cup {NoThread} /\ \A t \in Threads : writer = t <=> Writes(t)
  /\ writer # NoThread => readers = {}
  /\ \A a, b \in readers : a = b

\* No other thread is at work.
Alone(t) == \A u \in Threads : u # t => pc[u] \in {"idle", "lock"}

\* The locks, as t has them when it is alone.
LocksOf(t) ==
  /\ readers = IF Peeks(t) THEN {t} ELSE {}
  /\ writer = IF Writes(t) THEN t ELSE NoThread

LocksAlone == \A t \in Threads : Alone(t) => (LockInv <=> LocksOf(t))

\* LockInv says no more and no less than that.
LEMMA AloneLocks == LocksAlone
<1> SUFFICES ASSUME NEW t \in Threads, Alone(t)
             PROVE  LockInv <=> LocksOf(t)
  BY DEF LocksAlone
<1>1. \A u \in Threads : u # t => ~Peeks(u) /\ ~Writes(u)
  BY DEF Alone, Peeks, Writes, Walking, Walks
<1>2. ~ (Peeks(t) /\ Writes(t)) /\ NoThread \notin Threads
  BY RadixAssumption DEF Peeks, Writes, Walking, Walks
<1>3. {u \in Threads : Peeks(u)} = IF Peeks(t) THEN {t} ELSE {}
  BY <1>1
<1> QED
  BY <1>1, <1>2, <1>3 DEF LockInv, LocksOf

\* Who works is alone.
LEMMA WorkerAlone ==
  ASSUME LockInv, NEW t \in Threads, Peeks(t) \/ Writes(t), pc \in [Threads -> Labels]
  PROVE  Alone(t) /\ LocksOf(t)
<1>1. Alone(t)
  <2> SUFFICES ASSUME NEW u \in Threads, u # t, pc[u] \notin {"idle", "lock"}
               PROVE  FALSE
    BY DEF Alone
  <2>1. Peeks(u) \/ Writes(u)
    BY DEF Peeks, Writes, Walking, Walks, Labels
  <2>2. NoThread \notin Threads
    BY RadixAssumption
  <2> QED
    BY <2>1, <2>2 DEF LockInv
<1> QED
  BY <1>1, AloneLocks DEF LocksAlone

\* With no lock held nobody is at work.
LEMMA NobodyWorks ==
  ASSUME LockInv, writer = NoThread, readers = {}, pc \in [Threads -> Labels], NEW t \in Threads
  PROVE  Alone(t) /\ LocksOf(t) /\ pc[t] \in {"idle", "lock"}
<1>1. \A u \in Threads : pc[u] \in {"idle", "lock"}
  <2> SUFFICES ASSUME NEW u \in Threads, pc[u] \notin {"idle", "lock"}
               PROVE  FALSE
    OBVIOUS
  <2>1. Peeks(u) \/ Writes(u)
    BY DEF Peeks, Writes, Walking, Walks, Labels
  <2>2. NoThread \notin Threads
    BY RadixAssumption
  <2> QED
    BY <2>1, <2>2 DEF LockInv
<1>2. Alone(t)
  BY <1>1 DEF Alone
<1> QED
  BY <1>1, <1>2, AloneLocks DEF LocksAlone

\* The steps of a thread.
Steps(t) ==
  \/ \E tree \in DOMAIN RootID : DeleteRoot(t, tree)
  \/ \E tree \in DOMAIN RootID, key \in Keys, gates \in Gates : Offer(t, tree, key, gates)
  \/ Seek(t) \/ WriteBack(t) \/ TakeOver(t) \/ Load(t) \/ Descend(t) \/ Found(t)
  \/ Peeked(t) \/ Lock(t) \/ RaceEvaded(t) \/ Store(t)
  \/ Update(t) \/ AddLeaf(t) \/ AddInner(t)
  \/ Recreate(t)

\* Without two look-ups at the same time, the thread that takes a step is alone.
LEMMA StepperAlone ==
  ASSUME ~overlapped', ControlTypes, LockInv, NEW t \in Threads, Steps(t)
  PROVE  Alone(t) /\ LocksOf(t)
<1> USE DEF ControlTypes
<1>1. ASSUME writer = NoThread, readers = {}
      PROVE  Alone(t) /\ LocksOf(t)
  BY <1>1, NobodyWorks
<1>2. ASSUME Peeks(t) \/ Writes(t)
      PROVE  Alone(t) /\ LocksOf(t)
  BY <1>2, WorkerAlone
<1>3. ASSUME NEW tree, DeleteRoot(t, tree)
      PROVE  Alone(t) /\ LocksOf(t)
  BY <1>1, <1>3 DEF DeleteRoot
<1>4. ASSUME NEW tree, NEW key, NEW gates, Offer(t, tree, key, gates)
      PROVE  Alone(t) /\ LocksOf(t)
  <2>1. writer = NoThread /\ readers = {}
    BY <1>4 DEF Offer
  <2> QED
    BY <1>1, <2>1
<1>5. CASE Lock(t)
  BY <1>1, <1>5 DEF Lock
<1>6. CASE pc[t] \in {"read", "write", "own", "load", "search", "answer", "deleted"}
  <2>1. Peeks(t) \/ Writes(t)
    BY <1>6 DEF Peeks, Writes, Walking, Walks
  <2> QED
    BY <1>2, <2>1
<1>7. CASE Seek(t) \/ WriteBack(t) \/ TakeOver(t) \/ Load(t) \/ Descend(t) \/ Found(t)
  BY <1>6, <1>7 DEF Seek, WriteBack, TakeOver, Load, Descend, Found
<1>8. CASE Peeked(t) \/ RaceEvaded(t) \/ Store(t)
  BY <1>6, <1>8 DEF Peeked, RaceEvaded, Store
<1>9. CASE Update(t) \/ AddLeaf(t) \/ AddInner(t) \/ Recreate(t)
  BY <1>6, <1>9 DEF Update, AddLeaf, AddInner, Recreate
<1> QED
  BY <1>3, <1>4, <1>5, <1>7, <1>8, <1>9 DEF Steps

\* Nodes that are in order.
NodeInv ==
  /\ IInv /\ Buf.changed \in BOOLEAN /\ GoodNode(Buf.node)
  /\ \A p \in DOMAIN storage : GoodNode(storage[p])

\* What a thread that searches the buffer finds.
LEMMA FocusIs ==
  ASSUME ControlTypes, NodeInv, NEW t \in Threads
  PROVE  /\ Want(t) \in Nat /\ Sorted(Buf.node.entries) /\ Len(Buf.node.entries) \in Nat
         /\ Focus(t) = First(Buf.node.entries, Want(t))
         /\ Focus(t) \in 1..Len(Buf.node.entries) + 1
         /\ Hit(t) => /\ Focus(t) \in 1..Len(Buf.node.entries)
                      /\ Buf.node.entries[Focus(t)] \in Entries
                      /\ Buf.node.entries[Focus(t)].link \in Nat
                      /\ Buf.node.entries[Focus(t)].token = Want(t)
<1> PICK s : s = Buf.node.entries
  OBVIOUS
<1>1. Sorted(s) /\ s \in Seq(Entries) /\ Len(s) \in Nat
  BY DEF NodeInv, GoodNode, Sorted
<1>2. Want(t) \in Nat
  BY DEF Want, ControlTypes, Places, TokenKeys
<1>3. Focus(t) = First(s, Want(t))
  BY DEF Focus, First
<1>4. Focus(t) \in 1..Len(s) + 1
  BY <1>1, <1>2, <1>3, FirstFound
<1>5. ASSUME Hit(t)
      PROVE  /\ Focus(t) \in 1..Len(s) /\ s[Focus(t)] \in Entries /\ s[Focus(t)].link \in Nat
             /\ s[Focus(t)].token = Want(t)
  <2>1. Focus(t) \in 1..Len(s) /\ s[Focus(t)].token = Want(t)
    BY <1>1, <1>4, <1>5 DEF Hit
  <2>2. s[Focus(t)] \in Entries
    BY <1>1, <2>1
  <2> QED
    BY <2>1, <2>2 DEF Entries
<1> QED
  BY <1>1, <1>2, <1>3, <1>4, <1>5

\* It leaves the others as they are.
Moves(t, label, place) ==
  pc' = [pc EXCEPT ![t] = label] /\ at' = [at EXCEPT ![t] = place]

\* Where a thread is before it begins is a place as well.
LEMMA NowhereIsPlace == Nowhere \in Places
<1>1. RealSize \in Nat /\ 1 \in 1..RealSize
  BY RadixAssumption
<1>2. [n \in 1..RealSize |-> 0] \in TokenKeys
  BY <1>1 DEF TokenKeys
<1> QED
  BY <1>1, <1>2 DEF Nowhere, Places, None

\* Every step leads to a place.
LEMMA StepMoves ==
  ASSUME ControlTypes, NodeInv, NEW t \in Threads, Steps(t)
  PROVE  \E label \in Labels, place \in Places : Moves(t, label, place)
<1>1. /\ at[t] \in Places /\ RealSize \in Nat /\ 1 \in 1..RealSize /\ RealSize >= 1
      /\ at \in [Threads -> Places]
      /\ at[t].level \in 1..RealSize /\ at[t].cur \in Nat /\ at[t].tree \in Nat
  <2>1. RealSize \in Nat /\ 1 \in 1..RealSize /\ RealSize >= 1
    BY RadixAssumption
  <2>2. at \in [Threads -> Places] /\ at[t] \in Places
    BY DEF ControlTypes
  <2>3. at[t].level \in 1..RealSize /\ at[t].cur \in Nat /\ at[t].tree \in Nat
    BY <2>2 DEF Places
  <2> QED
    BY <2>1, <2>2, <2>3
<1>2. \A tree \in DOMAIN RootID : tree \in Nat /\ RootID[tree] \in Nat
  BY RadixAssumption DEF ControlTypes, Trees
<1>3. ASSUME NEW tree \in DOMAIN RootID, DeleteRoot(t, tree)
      PROVE  \E label \in Labels, place \in Places : Moves(t, label, place)
  <2>1. [at[t] EXCEPT !.tree = tree] \in Places
    BY <1>1, <1>2 DEF Places
  <2>2. Moves(t, "deleted", [at[t] EXCEPT !.tree = tree])
    BY <1>3 DEF DeleteRoot, Moves
  <2> QED
    BY <2>1, <2>2 DEF Labels
<1>4. ASSUME NEW tree \in DOMAIN RootID, NEW key \in Keys, NEW gates \in Gates,
             Offer(t, tree, key, gates)
      PROVE  \E label \in Labels, place \in Places : Moves(t, label, place)
  <2>1. [Nowhere EXCEPT !.tree = tree, !.key = key, !.gates = gates,
                      !.cur = RootID[tree]] \in Places
    <3>1. key \in TokenKeys /\ gates \in Nat
      BY RadixAssumption DEF TokenKeys
    <3> QED
      BY <1>2, <3>1, NowhereIsPlace DEF Places
  <2>2. Moves(t, "read", [Nowhere EXCEPT !.tree = tree, !.key = key, !.gates = gates,
                                         !.cur = RootID[tree]])
    BY <1>4 DEF Offer, Moves
  <2> QED
    BY <2>1, <2>2 DEF Labels
<1>5. at = [at EXCEPT ![t] = at[t]]
  BY <1>1
<1>6. CASE Seek(t) \/ WriteBack(t) \/ TakeOver(t) \/ Load(t)
  <2>1. PICK label \in {"write", "own", "load", "search"} :
          pc' = [pc EXCEPT ![t] = label] /\ at' = at
    BY <1>6 DEF Seek, WriteBack, TakeOver, Load
  <2>2. Moves(t, label, at[t])
    BY <1>5, <2>1 DEF Moves
  <2> QED
    BY <1>1, <2>2 DEF Labels
<1>7. CASE Descend(t)
  <2> PICK link : link = Buf.node.entries[Focus(t)].link
    OBVIOUS
  <2>1. link \in Nat /\ at[t].level # RealSize
    BY <1>7, FocusIs DEF Descend, AtLeaf
  <2>2. Moves(t, "read", [at[t] EXCEPT !.cur = @ + 1 + link, !.level = @ + 1])
    BY <1>7 DEF Descend, Moves
  <2>3. at[t].cur + 1 + link \in Nat /\ at[t].level + 1 \in 1..RealSize
    BY <1>1, <2>1
  <2>4. [at[t] EXCEPT !.cur = @ + 1 + link, !.level = @ + 1] \in Places
    BY <1>1, <2>3 DEF Places
  <2> QED
    BY <2>2, <2>4 DEF Labels
<1>8. CASE Found(t)
  <2>1. PICK found \in Nat : at' = [at EXCEPT ![t].found = found]
    BY <1>8, FocusIs DEF Found, None
  <2>2. Moves(t, "answer", [at[t] EXCEPT !.found = found])
    BY <1>8, <2>1 DEF Found, Moves
  <2>3. [at[t] EXCEPT !.found = found] \in Places
    BY <1>1 DEF Places
  <2> QED
    BY <2>2, <2>3 DEF Labels
<1>9. CASE Peeked(t)
  <2>1. Moves(t, "idle", Nowhere) \/ Moves(t, "lock", at[t])
    BY <1>5, <1>9 DEF Peeked, Moves
  <2> QED
    BY <1>1, <2>1, NowhereIsPlace DEF Labels
<1>10. CASE RaceEvaded(t) \/ Update(t) \/ AddLeaf(t) \/ Recreate(t)
  <2>1. Moves(t, "idle", Nowhere)
    BY <1>10 DEF RaceEvaded, Update, AddLeaf, Recreate, Leave, Moves
  <2> QED
    BY <2>1, NowhereIsPlace DEF Labels
<1>11. CASE Lock(t) \/ Store(t)
  <2>1. at[t].tree \in DOMAIN RootID
    BY <1>11 DEF Lock, Store, ControlTypes
  <2>2. PICK op \in {"check", "add", "ensure"} : Walk(t, op)
    BY <1>11 DEF Lock, Store
  <2>3. Moves(t, "read", [at[t] EXCEPT !.op = op, !.cur = RootID[at[t].tree], !.level = 1])
    BY <2>2 DEF Walk, Moves
  <2>4. [at[t] EXCEPT !.op = op, !.cur = RootID[at[t].tree], !.level = 1] \in Places
    BY <1>1, <1>2, <2>1 DEF Places
  <2> QED
    BY <2>3, <2>4 DEF Labels
<1>12. CASE AddInner(t)
  <2>1. at[t].level # RealSize /\ ID \in Nat
    BY <1>12 DEF AddInner, AtLeaf, NodeInv, IInv
  <2>2. Moves(t, "read", [at[t] EXCEPT !.cur = ID, !.level = @ + 1])
    BY <1>12 DEF AddInner, Moves
  <2>3. at[t].level + 1 \in 1..RealSize
    BY <1>1, <2>1
  <2>4. [at[t] EXCEPT !.cur = ID, !.level = @ + 1] \in Places
    BY <1>1, <2>1, <2>3 DEF Places
  <2> QED
    BY <2>2, <2>4 DEF Labels
<1> QED
  BY <1>3, <1>4, <1>6, <1>7, <1>8, <1>9, <1>10, <1>11, <1>12 DEF Steps
\* The others stay where they are.
LEMMA MoveKeeps ==
  ASSUME ControlTypes, NEW t \in Threads, Alone(t),
         NEW label \in Labels, NEW place \in Places, Moves(t, label, place)
  PROVE  /\ pc' \in [Threads -> Labels] /\ at' \in [Threads -> Places]
         /\ pc'[t] = label /\ at'[t] = place
         /\ \A u \in Threads : u # t => pc'[u] = pc[u] /\ at'[u] = at[u]
         /\ Alone(t)'
<1>1. /\ pc' \in [Threads -> Labels] /\ at' \in [Threads -> Places]
      /\ pc'[t] = label /\ at'[t] = place
      /\ \A u \in Threads : u # t => pc'[u] = pc[u] /\ at'[u] = at[u]
  BY DEF ControlTypes, Moves
<1> QED
  BY <1>1 DEF Alone
-----------------------------------------------------------------------------
\* Room for the new nodes.

\* The threads that may add nodes, and how many that may be.
Busy    == {t \in Threads : pc[t] # "idle"}
Pending == (RealSize - 1) * Cardinality(Busy)

\* The nodes that t has already made of those it may add.
Spare(t) == IF pc[t] = "deleted" THEN RealSize - 2
            ELSE IF Walks(t) /\ at[t].op \in {"add", "ensure"} THEN at[t].level - 1 ELSE 0

\* There is room for what the threads may add.
RoomInv ==
  /\ ID <= MaxID
  /\ \A t \in Threads : Alone(t) => ID + Pending <= MaxID + Spare(t)

\* The step of t changes its label and its place only.
LEMMA StepKeepsTypes ==
  ASSUME ControlTypes, NodeInv, NEW t \in Threads, Alone(t), Steps(t)
  PROVE  /\ ControlTypes' /\ Alone(t)' /\ DOMAIN RootID' = DOMAIN RootID
         /\ \A u \in Threads : u # t => pc'[u] = pc[u] /\ at'[u] = at[u]
<1>1. PICK label \in Labels, place \in Places : Moves(t, label, place)
  BY StepMoves
<1>2. /\ pc' \in [Threads -> Labels] /\ at' \in [Threads -> Places]
      /\ pc'[t] = label /\ at'[t] = place
      /\ \A u \in Threads : u # t => pc'[u] = pc[u] /\ at'[u] = at[u]
      /\ Alone(t)'
  BY <1>1, MoveKeeps
<1>3. /\ DOMAIN RootID' = DOMAIN RootID /\ RootID' \in [DOMAIN RootID -> Nat]
      /\ Size' \in [DOMAIN RootID -> Nat]
  <2>1. CASE UNCHANGED trees
    BY <2>1 DEF trees, ControlTypes
  <2>2. CASE AddLeaf(t)
    <3>1. RootID' = RootID /\ Size' = [Size EXCEPT ![at[t].tree] = @ + 1]
      BY <2>2 DEF AddLeaf
    <3>2. at[t].tree \in DOMAIN RootID
      BY <2>2 DEF AddLeaf, ControlTypes
    <3> QED
      BY <3>1, <3>2 DEF ControlTypes
  <2>3. CASE Recreate(t)
    <3>1. /\ RootID' = [RootID EXCEPT ![at[t].tree] = ID] /\ ID \in Nat
          /\ Size' = [Size EXCEPT ![at[t].tree] = 0]
      BY <2>3 DEF Recreate, NodeInv, IInv
    <3> QED
      BY <3>1 DEF ControlTypes
  <2> QED
    BY <2>1, <2>2, <2>3 DEF Steps, DeleteRoot, Offer, Seek, WriteBack, TakeOver, Load, Descend,
      Found, Peeked, Lock, RaceEvaded, Store, Update, AddInner, trees
<1>4. pc'[t] # "idle" => at'[t].tree \in DOMAIN RootID
  <2>1. at[t] \in Places /\ at \in [Threads -> Places]
    BY DEF ControlTypes
  <2>2. ASSUME NEW tree \in DOMAIN RootID, DeleteRoot(t, tree)
        PROVE  at'[t].tree \in DOMAIN RootID
    BY <2>1, <2>2 DEF DeleteRoot, Places
  <2>3. ASSUME NEW tree \in DOMAIN RootID, NEW key, NEW gates, Offer(t, tree, key, gates)
        PROVE  at'[t].tree \in DOMAIN RootID
    BY <2>1, <2>3 DEF Offer, Nowhere
  <2>4. CASE pc[t] # "idle"
    <3>1. at[t].tree \in DOMAIN RootID
      BY <2>4 DEF ControlTypes
    <3>2. CASE Seek(t) \/ WriteBack(t) \/ TakeOver(t) \/ Load(t) \/ Peeked(t)
      BY <3>1, <3>2, <1>2 DEF Seek, WriteBack, TakeOver, Load, Peeked, ControlTypes
    <3>3. CASE Descend(t) \/ AddInner(t)
      <4>1. PICK cur, level : at' = [at EXCEPT ![t].cur = cur, ![t].level = level]
        BY <3>3 DEF Descend, AddInner
      <4> QED
        BY <2>1, <3>1, <4>1 DEF Places
    <3>6. CASE Found(t)
      <4>1. PICK found : at' = [at EXCEPT ![t].found = found]
        BY <3>6 DEF Found
      <4> QED
        BY <2>1, <3>1, <4>1 DEF Places
    <3>4. CASE Lock(t) \/ Store(t)
      BY <2>1, <3>1, <3>4 DEF Lock, Store, Walk, Places
    <3>5. CASE RaceEvaded(t) \/ Update(t) \/ AddLeaf(t) \/ Recreate(t)
      BY <3>5 DEF RaceEvaded, Update, AddLeaf, Recreate, Leave, ControlTypes
    <3> QED
      BY <2>2, <2>3, <3>2, <3>3, <3>4, <3>5, <3>6 DEF Steps
  <2>5. CASE pc[t] = "idle"
    BY <2>2, <2>3, <2>5 DEF Steps, Seek, WriteBack, TakeOver, Load, Peeked, Descend, Found,
      AddInner, Lock, Store, RaceEvaded, Update, AddLeaf, Recreate
  <2> QED
    BY <2>4, <2>5
<1>5. \A u \in Threads : pc'[u] # "idle" => at'[u].tree \in DOMAIN RootID
  BY <1>2, <1>4 DEF ControlTypes
<1> QED
  BY <1>2, <1>3, <1>5 DEF ControlTypes

\* The locks.
LEMMA StepKeepsLocks ==
  ASSUME ControlTypes, NodeInv, LockInv, NEW t \in Threads, Alone(t), LocksOf(t), Steps(t)
  PROVE  LockInv'
<1>1. /\ ControlTypes' /\ Alone(t)'
  BY StepKeepsTypes
<1>2. LocksAlone'
  BY AloneLocks, PTL
<1> SUFFICES LocksOf(t)'
  BY <1>1, <1>2 DEF LocksAlone
<1> USE DEF LocksOf, Peeks, Writes, Walking, Walks
<1>3. at[t] \in Places /\ at \in [Threads -> Places] /\ pc \in [Threads -> Labels]
  BY DEF ControlTypes
<1>4. ASSUME NEW tree, DeleteRoot(t, tree)
      PROVE  LocksOf(t)'
  BY <1>3, <1>4 DEF DeleteRoot
<1>5. ASSUME NEW tree, NEW key, NEW gates, Offer(t, tree, key, gates)
      PROVE  LocksOf(t)'
  BY <1>3, <1>5 DEF Offer, Nowhere
<1>6. ASSUME pc[t] \in {"read", "write", "own", "load", "search", "answer"},
             pc'[t] \in {"read", "write", "own", "load", "search", "answer"},
             at'[t].op = "peek" <=> at[t].op = "peek", UNCHANGED <<readers, writer>>
      PROVE  LocksOf(t)'
  BY <1>6
<1>7. CASE Seek(t) \/ WriteBack(t) \/ TakeOver(t) \/ Load(t)
  <2>1. /\ pc[t] \in {"read", "write", "own", "load"}
        /\ pc'[t] \in {"write", "own", "load", "search"} /\ at' = at
        /\ UNCHANGED <<readers, writer>>
    BY <1>3, <1>7 DEF Seek, WriteBack, TakeOver, Load, locks
  <2> QED
    BY <1>6, <2>1
<1>8. CASE Descend(t) \/ AddInner(t) \/ Found(t)
  <2>1. pc[t] = "search" /\ pc'[t] \in {"read", "answer"} /\ at'[t].op = at[t].op
        /\ UNCHANGED <<readers, writer>>
    BY <1>3, <1>8 DEF Descend, AddInner, Found, Places, locks
  <2> QED
    BY <1>6, <2>1
<1>9. CASE Peeked(t)
  <2>1. readers = {t} /\ writer = NoThread
    BY <1>9 DEF Peeked
  <2>2. readers' = {} /\ writer' = NoThread /\ pc'[t] \in {"idle", "lock"}
    BY <1>3, <1>9, <2>1 DEF Peeked
  <2> QED
    BY <2>2
<1>10. CASE Lock(t)
  <2>1. /\ readers' = {} /\ writer' = t /\ pc'[t] = "read" /\ at'[t].op = "check"
    BY <1>3, <1>10 DEF Lock, Walk, Places
  <2> QED
    BY <2>1
<1>11. CASE Store(t)
  <2>1. /\ pc[t] = "answer" /\ at[t].op = "check" /\ UNCHANGED <<readers, writer>>
        /\ pc'[t] = "read" /\ at'[t].op # "peek"
    BY <1>3, <1>11 DEF Store, Walk, Places, locks
  <2> QED
    BY <1>6, <2>1
<1>12. CASE RaceEvaded(t) \/ Update(t) \/ AddLeaf(t) \/ Recreate(t)
  <2>1. Leave(t)
    BY <1>12 DEF RaceEvaded, Update, AddLeaf, Recreate
  <2>2. pc[t] = "deleted" \/ at[t].op # "peek"
    BY <1>12 DEF RaceEvaded, Update, AddLeaf, Recreate, IsFind
  <2>3. readers = {}
    BY <2>2
  <2>4. readers' = {} /\ writer' = NoThread /\ pc'[t] = "idle"
    BY <1>3, <2>1, <2>3 DEF Leave
  <2> QED
    BY <2>4
<1> QED
  BY <1>1, <1>2, <1>4, <1>5, <1>7, <1>8, <1>9, <1>10, <1>12, <1>11 DEF Steps

\* A thread that begins makes one more that may add nodes.
LEMMA Begins ==
  ASSUME ControlTypes, ControlTypes', NEW t \in Threads, pc[t] = "idle", pc'[t] # "idle",
         \A u \in Threads : u # t => pc'[u] = pc[u]
  PROVE  Pending \in Nat /\ Pending' = Pending + (RealSize - 1)
<1>1. IsFiniteSet(Busy) /\ Cardinality(Busy) \in Nat
  <2>1. Busy \subseteq Threads /\ IsFiniteSet(Threads)
    BY RadixAssumption DEF Busy
  <2> QED
    BY <2>1, FS_Subset, FS_CardinalityType
<1>2. Busy' = Busy \cup {t} /\ t \notin Busy
  BY DEF Busy
<1>3. Cardinality(Busy') = Cardinality(Busy) + 1
  BY <1>1, <1>2, FS_AddElement
<1> PICK n, c : n = RealSize - 1 /\ c = Cardinality(Busy)
  OBVIOUS
<1>4. n \in Nat /\ c \in Nat
  BY <1>1, RadixAssumption
<1>5. n * (c + 1) = n * c + n /\ n * c \in Nat
  BY <1>4
<1> QED
  BY <1>3, <1>5 DEF Pending

\* A thread that is done makes one less.
LEMMA Ends ==
  ASSUME ControlTypes, ControlTypes', NEW t \in Threads, pc[t] # "idle", pc'[t] = "idle",
         \A u \in Threads : u # t => pc'[u] = pc[u]
  PROVE  Pending' \in Nat /\ Pending = Pending' + (RealSize - 1)
<1>1. IsFiniteSet(Busy') /\ Cardinality(Busy') \in Nat
  <2>1. Busy' \subseteq Threads /\ IsFiniteSet(Threads)
    BY RadixAssumption DEF Busy
  <2> QED
    BY <2>1, FS_Subset, FS_CardinalityType
<1>2. Busy = Busy' \cup {t} /\ t \notin Busy'
  BY DEF Busy
<1>3. Cardinality(Busy) = Cardinality(Busy') + 1
  BY <1>1, <1>2, FS_AddElement
<1> PICK n, c : n = RealSize - 1 /\ c = Cardinality(Busy')
  OBVIOUS
<1>4. n \in Nat /\ c \in Nat
  BY <1>1, RadixAssumption
<1>5. n * (c + 1) = n * c + n /\ n * c \in Nat
  BY <1>4
<1> QED
  BY <1>3, <1>5 DEF Pending

\* Otherwise there are as many as before.
LEMMA GoesOn ==
  ASSUME ControlTypes, ControlTypes', NEW t \in Threads, pc[t] # "idle", pc'[t] # "idle",
         \A u \in Threads : u # t => pc'[u] = pc[u]
  PROVE  Pending \in Nat /\ Pending' = Pending /\ Pending >= RealSize - 1
<1>1. IsFiniteSet(Busy) /\ Cardinality(Busy) \in Nat
  <2>1. Busy \subseteq Threads /\ IsFiniteSet(Threads)
    BY RadixAssumption DEF Busy
  <2> QED
    BY <2>1, FS_Subset, FS_CardinalityType
<1>2. Busy' = Busy /\ t \in Busy
  BY DEF Busy
<1>3. Cardinality(Busy) # 0
  BY <1>1, <1>2, FS_EmptySet
<1> PICK n, c : n = RealSize - 1 /\ c = Cardinality(Busy)
  OBVIOUS
<1>4. n \in Nat /\ c \in Nat /\ c >= 1
  BY <1>1, <1>3, RadixAssumption
<1>5. n * c \in Nat /\ n * c >= n
  BY <1>4
<1> QED
  BY <1>2, <1>5 DEF Pending

\* It is enough to have room for the one that is alone.
LEMMA RoomOf ==
  ASSUME NEW t \in Threads, Alone(t)', ID' <= MaxID, ID' + Pending' <= MaxID + Spare(t)'
  PROVE  RoomInv'
<1> SUFFICES ASSUME NEW u \in Threads, u # t, Alone(u)'
             PROVE  ID' + Pending' <= MaxID + Spare(u)'
  BY DEF RoomInv
<1>1. pc'[t] \in {"idle", "lock"} /\ pc'[u] \in {"idle", "lock"}
  BY DEF Alone
<1>2. Spare(t)' = 0 /\ Spare(u)' = 0
  BY <1>1 DEF Spare, Walks
<1> QED
  BY <1>2

\* There is room for the nodes to come.
LEMMA StepKeepsRoom ==
  ASSUME ControlTypes, NodeInv, NEW t \in Threads, Alone(t), Steps(t), RoomInv
  PROVE  RoomInv'
<1>1. /\ ControlTypes' /\ Alone(t)' /\ \A u \in Threads : u # t => pc'[u] = pc[u]
  BY StepKeepsTypes
<1> SUFFICES ID' <= MaxID /\ ID' + Pending' <= MaxID + Spare(t)'
  BY <1>1, RoomOf
<1>2. /\ RealSize \in Nat /\ RealSize >= 1 /\ MaxID \in Nat /\ ID \in Nat
      /\ ID <= MaxID /\ ID + Pending <= MaxID + Spare(t)
      /\ at[t].level \in 1..RealSize /\ at[t] \in Places
      /\ at \in [Threads -> Places] /\ pc \in [Threads -> Labels]
  <2>1. RealSize \in Nat /\ RealSize >= 1 /\ MaxID \in Nat
    BY RadixAssumption
  <2>2. ID \in Nat
    BY DEF NodeInv, IInv
  <2>3. ID <= MaxID /\ ID + Pending <= MaxID + Spare(t)
    BY DEF RoomInv
  <2>4. at \in [Threads -> Places] /\ pc \in [Threads -> Labels] /\ at[t] \in Places
    BY DEF ControlTypes
  <2>5. at[t].level \in 1..RealSize
    BY <2>4 DEF Places
  <2> QED
    BY <2>1, <2>2, <2>3, <2>4, <2>5
<1>3. /\ pc[t] = "idle" /\ pc'[t] # "idle" => Pending \in Nat /\ Pending' = Pending + (RealSize - 1)
      /\ pc[t] # "idle" /\ pc'[t] = "idle" =>
           Pending' \in Nat /\ Pending = Pending' + (RealSize - 1)
      /\ pc[t] # "idle" /\ pc'[t] # "idle" =>
           Pending \in Nat /\ Pending' = Pending /\ Pending >= RealSize - 1
  BY <1>1, Begins, Ends, GoesOn
<1>4. Spare(t) <= RealSize - 1 /\ Spare(t) \in Int /\ Spare(t)' \in Int
  <2>1. at'[t].level \in 1..RealSize
    BY <1>1 DEF ControlTypes, Places
  <2> QED
    BY <1>2, <2>1 DEF Spare
<1>5. ASSUME NEW tree, DeleteRoot(t, tree)
      PROVE  ID' <= MaxID /\ ID' + Pending' <= MaxID + Spare(t)'
  <2>1. pc[t] = "idle" /\ pc'[t] = "deleted" /\ Room(1)
    BY <1>2, <1>5 DEF DeleteRoot
  <2>2. ID + 1 + Pending <= MaxID
    BY <2>1 DEF Room, Pending, Busy
  <2>3. ID' = ID \/ ID' = 0
    BY <1>5 DEF DeleteRoot, Wipe, ReadInner
  <2>4. Spare(t)' = RealSize - 2
    BY <2>1 DEF Spare
  <2> QED
    BY <1>2, <1>3, <2>1, <2>2, <2>3, <2>4
<1>6. ASSUME NEW tree, NEW key, NEW gates, Offer(t, tree, key, gates)
      PROVE  ID' <= MaxID /\ ID' + Pending' <= MaxID + Spare(t)'
  <2>1. pc[t] = "idle" /\ pc'[t] = "read" /\ Room(RealSize - 1) /\ ID' = ID /\ at'[t].op = "peek"
    BY <1>2, <1>6 DEF Offer, vectors, Nowhere
  <2>2. ID + (RealSize - 1) + Pending <= MaxID
    BY <2>1 DEF Room, Pending, Busy
  <2>3. Spare(t)' = 0
    BY <2>1 DEF Spare
  <2> QED
    BY <1>2, <1>3, <2>1, <2>2, <2>3
<1>7. ASSUME ID' = ID, pc[t] # "idle", pc'[t] = "idle"
      PROVE  ID' <= MaxID /\ ID' + Pending' <= MaxID + Spare(t)'
  <2>1. Spare(t)' = 0
    BY <1>7 DEF Spare, Walks
  <2> QED
    BY <1>2, <1>3, <1>4, <1>7, <2>1
<1>8. ASSUME ID' = ID, pc[t] # "idle", pc'[t] # "idle", Spare(t)' >= Spare(t)
      PROVE  ID' <= MaxID /\ ID' + Pending' <= MaxID + Spare(t)'
  BY <1>2, <1>3, <1>4, <1>8
<1>9. CASE Seek(t) \/ WriteBack(t) \/ TakeOver(t) \/ Load(t)
  <2>1. /\ pc[t] \in {"read", "write", "own", "load"}
        /\ pc'[t] \in {"write", "own", "load", "search"} /\ ID' = ID /\ at' = at
    BY <1>2, <1>9 DEF Seek, WriteBack, TakeOver, Load, vectors
  <2>2. Spare(t)' = Spare(t)
    BY <2>1 DEF Spare, Walks
  <2> QED
    BY <1>4, <1>8, <2>1, <2>2
<1>10. CASE Descend(t)
  <2>1. /\ pc[t] = "search" /\ pc'[t] = "read" /\ ID' = ID
        /\ at'[t].op = at[t].op /\ at'[t].level = at[t].level + 1
    BY <1>2, <1>10 DEF Descend, vectors, Places
  <2>2. Spare(t)' >= Spare(t)
    BY <1>2, <2>1 DEF Spare, Walks
  <2> QED
    BY <1>8, <2>1, <2>2
<1>11. CASE Found(t)
  <2>1. /\ pc[t] = "search" /\ pc'[t] = "answer" /\ ID' = ID /\ IsFind(t)
    BY <1>2, <1>11 DEF Found, vectors
  <2>2. Spare(t)' = 0 /\ Spare(t) = 0
    BY <2>1 DEF Spare, Walks, IsFind
  <2> QED
    BY <1>8, <2>1, <2>2
<1>12. CASE Peeked(t)
  <2>1. /\ pc[t] = "answer" /\ pc'[t] \in {"idle", "lock"} /\ ID' = ID
    BY <1>2, <1>12 DEF Peeked, vectors
  <2>2. Spare(t)' = 0 /\ Spare(t) = 0
    BY <2>1 DEF Spare, Walks
  <2> QED
    BY <1>7, <1>8, <2>1, <2>2
<1>13. CASE Lock(t) \/ Store(t)
  <2>1. /\ pc[t] \in {"lock", "answer"} /\ pc'[t] = "read" /\ ID' = ID /\ at'[t].level = 1
    BY <1>2, <1>13 DEF Lock, Store, Walk, vectors, Places
  <2>2. Spare(t)' = 0 /\ Spare(t) = 0
    BY <2>1 DEF Spare, Walks
  <2> QED
    BY <1>8, <2>1, <2>2
<1>14. CASE RaceEvaded(t) \/ Update(t) \/ AddLeaf(t)
  <2>1. pc[t] \in {"answer", "search"} /\ pc'[t] = "idle" /\ ID' = ID
    BY <1>2, <1>14 DEF RaceEvaded, Update, AddLeaf, Leave, vectors
  <2> QED
    BY <1>7, <2>1
<1>15. CASE AddInner(t)
  <2>1. /\ pc[t] = "search" /\ pc'[t] = "read" /\ ID' = ID + 1 /\ ~IsFind(t)
        /\ at'[t].op = at[t].op /\ at'[t].level = at[t].level + 1 /\ at[t].level # RealSize
    BY <1>2, <1>15 DEF AddInner, Places, AtLeaf
  <2>2. at[t].op \in {"add", "ensure"}
    BY <1>2, <2>1 DEF IsFind, Places
  <2>3. Spare(t) = at[t].level - 1 /\ Spare(t)' = at[t].level
    BY <1>2, <2>1, <2>2 DEF Spare, Walks
  <2> QED
    BY <1>2, <1>3, <2>1, <2>3
<1>16. CASE Recreate(t)
  <2>1. pc[t] = "deleted" /\ pc'[t] = "idle" /\ ID' = ID + 1
    BY <1>2, <1>16 DEF Recreate, Leave
  <2>2. Spare(t) = RealSize - 2 /\ Spare(t)' = 0
    BY <2>1 DEF Spare, Walks
  <2> QED
    BY <1>2, <1>3, <2>1, <2>2
<1> QED
  BY <1>5, <1>6, <1>9, <1>10, <1>11, <1>12, <1>13, <1>14, <1>15, <1>16 DEF Steps

\* The buffer: whose it is, and what is in it.
Settled == \A t \in Threads : pc[t] # "load"

BufferInv ==
  /\ BufOwner \in Nat
  /\ \/ BufOwner < ID
     \/ BufOwner = 0 /\ ID = 0 /\ Buf.node = Empty /\ \E t \in Threads : pc[t] = "deleted"
  /\ Settled /\ ~Buf.changed => Buf.node = Stored(BufOwner)

\* All nodes are in order.
LEMMA ViewGood ==
  ASSUME NodeInv
  PROVE  /\ NodesGood(View) /\ \A id : GoodNode(Stored(id))
         /\ \A id \in Nat : id >= ID => Stored(id) = Empty
<1>1. ASSUME NEW id
      PROVE  GoodNode(Stored(id))
  <2>1. CASE PtrOf(id).Length = 0
    BY <2>1, EmptyIsGood DEF Stored
  <2>2. CASE PtrOf(id).Length # 0
    <3>1. id \in DOMAIN ptrs /\ PtrOf(id) = ptrs[id]
      BY <2>2 DEF PtrOf, NoPtr
    <3>2. ptrs[id].Length > 0
      BY <2>2, <3>1 DEF NodeInv, IInv, StorageInv, Layout, Pointers
    <3>3. ptrs[id].Ptr \in DOMAIN storage
      BY <3>1, <3>2 DEF NodeInv, IInv, StorageInv, Readable
    <3> QED
      BY <2>2, <3>1, <3>3 DEF NodeInv, Stored
  <2> QED
    BY <2>1, <2>2
<1>2. ASSUME NEW id \in Nat, id >= ID
      PROVE  Stored(id) = Empty
  <2>1. id \notin DOMAIN ptrs
    BY <1>2 DEF NodeInv, IInv
  <2> QED
    BY <2>1 DEF Stored, PtrOf, NoPtr
<1>3. ASSUME NEW id \in Nat
      PROVE  GoodNode(View[id])
  <2>1. View[id] = NodeNow(id)
    BY DEF View
  <2> QED
    BY <1>1, <2>1 DEF NodeNow, NodeInv
<1> QED
  BY <1>1, <1>2, <1>3 DEF NodesGood
-----------------------------------------------------------------------------
\* What a step does to the nodes: reading.

\* What the view is of, when nobody is loading, and when somebody is.
ViewHas ==
  /\ Settled => \A id \in Nat : View[id] = IF id = BufOwner THEN Buf.node ELSE Stored(id)
  /\ ~Settled => \A id \in Nat : View[id] = Stored(id)

\* That is how the view is defined.
LEMMA ViewIs == ViewHas
BY DEF ViewHas, View, NodeNow, Settled

\* Who is alone tells whether somebody is loading.
SettledAlone == \A t \in Threads : Alone(t) => (Settled <=> pc[t] # "load")

\* The others are idle, or wait for the lock.
LEMMA AloneSettled == SettledAlone
BY DEF SettledAlone, Settled, Alone

\* Two views are the same if all nodes are.
LEMMA SameView ==
  ASSUME \A id \in Nat : View'[id] = View[id]
  PROVE  View' = View
<1>1. View = [id \in Nat |-> View[id]] /\ View' = [id \in Nat |-> View'[id]]
  BY DEF View
<1> QED
  BY <1>1

\* Without a clear() that has wiped the storage, the buffer is of a node.
LEMMA OwnerIs ==
  ASSUME NodeInv, BufferInv, NEW t \in Threads, Alone(t), pc[t] # "deleted"
  PROVE  ID \in Nat /\ BufOwner \in Nat /\ BufOwner < ID /\ BufOwner \in DOMAIN ptrs
<1>1. \A u \in Threads : pc[u] # "deleted"
  BY DEF Alone
<1>2. ID \in Nat /\ BufOwner \in Nat /\ BufOwner < ID
  BY <1>1 DEF BufferInv, NodeInv, IInv
<1> QED
  BY <1>2 DEF NodeInv, IInv

\* Nothing in the storage changes, and nobody loads.
LEMMA VectorsSame ==
  ASSUME NodeInv, BufferInv, Settled, Settled', UNCHANGED vectors, BufOwner < ID
  PROVE  NodeInv' /\ BufferInv' /\ View' = View
<1>1. NodeInv'
  BY VectorsKeep DEF NodeInv, vectors
<1>2. \A id : Stored(id)' = Stored(id)
  BY DEF vectors, Stored, PtrOf
<1>3. BufferInv'
  BY <1>2 DEF BufferInv, vectors
<1>4. \A id : NodeNow(id)' = NodeNow(id)
  BY <1>2 DEF NodeNow, Settled, vectors
<1>5. View' = View
  BY <1>4 DEF View
<1> QED
  BY <1>1, <1>3, <1>5

\* The node that is written can be read.
LEMMA ReassignStores ==
  ASSUME NodeInv, NEW id \in DOMAIN ptrs, NEW node, GoodNode(node), IsNode(node), Reassign(id, node)
  PROVE  /\ \A p \in DOMAIN storage' : GoodNode(storage'[p])
         /\ Stored(id)' = node
<1>1. PICK ptr, alloc : PlacedAt(id, node, ptr, alloc)
  BY ReassignKeeps DEF NodeInv, IInv
<1>2. /\ ptrs' = [ptrs EXCEPT ![id] = [Ptr |-> ptr, Length |-> Bytes(node), AllocLength |-> alloc]]
      /\ node = Empty => storage' = storage
      /\ node # Empty => storage' = [p \in DOMAIN storage \cup {ptr} |->
                                       IF p = ptr THEN node ELSE storage[p]]
  BY <1>1 DEF PlacedAt
<1>3. \A p \in DOMAIN storage' : GoodNode(storage'[p])
  <2>1. CASE node = Empty
    BY <1>2, <2>1 DEF NodeInv
  <2>2. CASE node # Empty
    BY <1>2, <2>2 DEF NodeInv
  <2> QED
    BY <2>1, <2>2
<1> PICK v : v = [Ptr |-> ptr, Length |-> Bytes(node), AllocLength |-> alloc]
  OBVIOUS
<1>4. PtrOf(id)' = v
  BY <1>2 DEF PtrOf
<1>5. v.Ptr = ptr /\ v.Length = Bytes(node)
  OBVIOUS
<1>6. CASE node = Empty
  BY <1>3, <1>4, <1>5, <1>6, EmptyIsNode DEF Stored
<1>7. CASE node # Empty
  <2>1. Bytes(node) # 0
    BY <1>7, NoBytes
  <2>2. storage'[ptr] = node
    BY <1>2, <1>7
  <2> QED
    BY <1>3, <1>4, <1>5, <2>1, <2>2 DEF Stored
<1> QED
  BY <1>3, <1>6, <1>7

\* Once the buffer is written back, all nodes are in the storage.
LEMMA FlushStores ==
  ASSUME NodeInv, BufferInv, Settled, BufOwner \in DOMAIN ptrs, Flush
  PROVE  /\ StorageInv' /\ DOMAIN ptrs' = DOMAIN ptrs
         /\ \A p \in DOMAIN storage' : GoodNode(storage'[p])
         /\ \A id \in Nat : Stored(id)' = View[id]
<1>1. IsNode(Buf.node) /\ GoodNode(Buf.node) /\ StorageInv
  BY DEF NodeInv, IInv
<1> PICK owner : owner = BufOwner
  OBVIOUS
<1>2. /\ StorageInv' /\ DOMAIN ptrs' = DOMAIN ptrs
      /\ \A a \in DOMAIN ptrs : a # owner => Stored(a)' = Stored(a)
  BY <1>1, FlushKeeps
<1>3. /\ \A p \in DOMAIN storage' : GoodNode(storage'[p])
      /\ Stored(owner)' = Buf.node
  <2>1. CASE Buf.changed
    <3>1. Reassign(owner, Buf.node) /\ owner \in DOMAIN ptrs
      BY <2>1 DEF Flush
    <3> PICK node : node = Buf.node
      OBVIOUS
    <3> QED
      BY <1>1, <3>1, ReassignStores
  <2>2. CASE ~Buf.changed
    <3>1. UNCHANGED <<ptrs, storage>>
      BY <2>2 DEF Flush
    <3>2. Stored(owner)' = Stored(owner)
      <4>1. PtrOf(owner)' = ptrs[owner] /\ PtrOf(owner) = ptrs[owner]
        BY <3>1 DEF PtrOf
      <4> QED
        BY <3>1, <4>1 DEF Stored
    <3> QED
      BY <2>2, <3>1, <3>2 DEF BufferInv, NodeInv
  <2> QED
    BY <2>1, <2>2
<1>4. ASSUME NEW id \in Nat
      PROVE  Stored(id)' = View[id]
  <2>1. View[id] = IF id = BufOwner THEN Buf.node ELSE Stored(id)
    BY ViewIs DEF ViewHas
  <2>2. CASE id = BufOwner
    BY <1>3, <2>1, <2>2
  <2>3. CASE id # BufOwner /\ id \in DOMAIN ptrs
    BY <1>2, <2>1, <2>3
  <2>4. CASE id # BufOwner /\ id \notin DOMAIN ptrs
    <3>1. PtrOf(id)' = NoPtr /\ PtrOf(id) = NoPtr
      BY <1>2, <2>4 DEF PtrOf
    <3>2. Stored(id)' = Empty /\ Stored(id) = Empty
      BY <3>1 DEF Stored, NoPtr
    <3> QED
      BY <2>1, <2>4, <3>2
  <2> QED
    BY <2>2, <2>3, <2>4
<1> QED
  BY <1>2, <1>3, <1>4

\* Reading: the node in the buffer is written back.
LEMMA WriteBackView ==
  ASSUME ControlTypes, NodeInv, BufferInv, NEW t \in Threads, Alone(t), Alone(t)',
         WriteBack(t), Buf.changed
  PROVE  NodeInv' /\ BufferInv' /\ View' = View /\ Stored(BufOwner)' = Buf.node
<1>1. pc[t] = "write" /\ pc'[t] = "own" /\ UNCHANGED <<ID, Buf, BufOwner>>
  BY DEF WriteBack, ControlTypes
<1>2. SettledAlone'
  BY AloneSettled, PTL
<1>3. Settled /\ Settled'
  BY <1>1, <1>2, AloneSettled DEF SettledAlone
<1>4. BufOwner \in Nat /\ BufOwner < ID /\ BufOwner \in DOMAIN ptrs
  BY <1>1, OwnerIs
<1>5. Flush
  BY DEF WriteBack, Flush
<1>6. /\ \A p \in DOMAIN storage' : GoodNode(storage'[p])
      /\ \A id \in Nat : Stored(id)' = View[id]
  BY <1>3, <1>4, <1>5, FlushStores
<1>7. IInv'
  BY WriteBackKeeps DEF NodeInv
<1>8. NodeInv'
  BY <1>1, <1>6, <1>7 DEF NodeInv
<1>9. BufferInv'
  BY <1>1, <1>4 DEF BufferInv
<1>10. ViewHas /\ ViewHas'
  BY ViewIs, PTL
<1>11. \A id \in Nat : View[id] = IF id = BufOwner THEN Buf.node ELSE Stored(id)
  BY <1>3, <1>10 DEF ViewHas
<1>12. \A id \in Nat : View'[id] = IF id = BufOwner THEN Buf.node ELSE Stored(id)'
  BY <1>1, <1>3, <1>10 DEF ViewHas
<1>13. \A id \in Nat : View'[id] = View[id]
  BY <1>6, <1>11, <1>12
<1>14. Stored(BufOwner)' = Buf.node
  <2>1. PICK owner : owner = BufOwner
    OBVIOUS
  <2>2. BufOwner' = owner /\ owner \in Nat
    BY <1>1, <1>4, <2>1
  <2>3. Stored(owner)' = View[owner] /\ View[owner] = Buf.node
    BY <1>6, <1>11, <2>1, <2>2
  <2> QED
    BY <2>2, <2>3 DEF Stored, PtrOf
<1> QED
  BY <1>8, <1>9, <1>13, <1>14, SameView

\* Reading: the buffer changes hands, when all nodes are in the storage.
LEMMA TakeOverView ==
  ASSUME ControlTypes, NodeInv, BufferInv, NEW t \in Threads, Alone(t), Alone(t)',
         TakeOver(t), at[t].cur < ID, Stored(BufOwner) = Buf.node
  PROVE  NodeInv' /\ BufferInv' /\ View' = View
<1>1. /\ pc[t] = "own" /\ pc'[t] = "load" /\ BufOwner' = at[t].cur
      /\ UNCHANGED <<ID, Buf, ptrs, storage, storage_size, holes>>
  BY DEF TakeOver, ControlTypes
<1>2. SettledAlone'
  BY AloneSettled, PTL
<1>3. Settled /\ ~Settled'
  BY <1>1, <1>2, AloneSettled DEF SettledAlone
<1>4. NodeInv'
  <2>1. IInv'
    BY TakeOverKeeps DEF NodeInv
  <2> QED
    BY <1>1, <2>1 DEF NodeInv
<1>5. BufferInv'
  <2>1. BufOwner' \in Nat
    BY <1>1 DEF ControlTypes, Places
  <2> QED
    BY <1>1, <1>3, <2>1 DEF BufferInv
<1>6. ViewHas /\ ViewHas'
  BY ViewIs, PTL
<1>7. \A id \in Nat : View[id] = IF id = BufOwner THEN Buf.node ELSE Stored(id)
  BY <1>3, <1>6 DEF ViewHas
<1>8. \A id \in Nat : View'[id] = Stored(id)'
  BY <1>3, <1>6 DEF ViewHas
<1>9. \A id : Stored(id)' = Stored(id)
  BY <1>1 DEF Stored, PtrOf
<1>10. \A id \in Nat : View'[id] = View[id]
  BY <1>7, <1>8, <1>9
<1> QED
  BY <1>4, <1>5, <1>10, SameView

\* The elements of a sequence of entries.
LEMMA RangeIs ==
  ASSUME NEW s \in Seq(Entries), NEW e
  PROVE  e \in Range(s) <=> \E n \in 1..Len(s) : e = s[n]
<1>1. DOMAIN s = 1..Len(s)
  OBVIOUS
<1> QED
  BY <1>1 DEF Range

\* The entry with a token is the first one that is not below it, or there is none.
LEMMA EntryFound ==
  ASSUME NEW s, Sorted(s), NEW x \in Nat
  PROVE  /\ First(s, x) <= Len(s) /\ s[First(s, x)].token = x =>
              {e \in Range(s) : e.token \in {x}} = {s[First(s, x)]}
         /\ ~ (First(s, x) <= Len(s) /\ s[First(s, x)].token = x) =>
              {e \in Range(s) : e.token \in {x}} = {}
<1> PICK k : k = First(s, x)
  OBVIOUS
<1>1. s \in Seq(Entries) /\ Len(s) \in Nat
  BY DEF Sorted
<1>2. k \in 1..Len(s) + 1 /\ \A n \in 1..Len(s) : s[n].token < x <=> n < k
  BY FirstFound
<1>3. ASSUME NEW n \in 1..Len(s), s[n].token = x
      PROVE  n = k /\ k <= Len(s) /\ s[k].token = x
  <2>1. ~ (n < k)
    BY <1>2, <1>3
  <2>2. k \in 1..Len(s) /\ k <= n
    BY <1>1, <1>2, <2>1
  <2>3. s[k] \in Entries
    BY <1>1, <2>2
  <2>4. s[k].token \in Nat /\ ~ (s[k].token < x)
    BY <1>2, <2>2, <2>3 DEF Entries
  <2>5. ~ (k < n)
    <3> SUFFICES ASSUME k < n PROVE FALSE
      OBVIOUS
    <3>1. s[k].token < s[n].token
      BY <2>2 DEF Sorted
    <3> QED
      BY <1>3, <2>4, <3>1
  <2>6. n = k
    BY <1>1, <2>2, <2>5
  <2> QED
    BY <1>3, <2>2, <2>6
<1>4. CASE k <= Len(s) /\ s[k].token = x
  <2>1. k \in 1..Len(s)
    BY <1>1, <1>2, <1>4
  <2>2. s[k] \in Range(s)
    BY <1>1, <2>1, RangeIs
  <2>3. \A e \in Range(s) : e.token = x => e = s[k]
    BY <1>1, <1>3, RangeIs
  <2> QED
    BY <1>4, <2>2, <2>3
<1>5. CASE ~ (k <= Len(s) /\ s[k].token = x)
  <2>1. \A e \in Range(s) : e.token # x
    BY <1>1, <1>3, <1>5, RangeIs
  <2> QED
    BY <1>5, <2>1
<1> QED
  BY <1>4, <1>5

\* What a search in the buffer tells of the node.
LEMMA SearchTells ==
  ASSUME ControlTypes, NodeInv, Settled, NEW t \in Threads, at[t].cur = BufOwner
  PROVE  /\ View[at[t].cur] = Buf.node
         /\ Hit(t) => Chosen(View, at[t].cur, {Want(t)}) = {Buf.node.entries[Focus(t)]}
         /\ ~Hit(t) => Chosen(View, at[t].cur, {Want(t)}) = {}
<1> PICK s, x, k : s = Buf.node.entries /\ x = Want(t) /\ k = Focus(t)
  OBVIOUS
<1>1. at[t].cur \in Nat
  BY DEF ControlTypes, Places
<1>2. View[at[t].cur] = Buf.node
  BY <1>1, ViewIs DEF ViewHas
<1>3. x \in Nat /\ Sorted(s) /\ k = First(s, x)
  BY FocusIs
<1>4. Hit(t) <=> k <= Len(s) /\ s[k].token = x
  BY DEF Hit
<1>5. Chosen(View, at[t].cur, {x}) = {e \in Range(s) : e.token \in {x}}
  BY <1>2 DEF Chosen
<1>6. /\ k <= Len(s) /\ s[k].token = x => {e \in Range(s) : e.token \in {x}} = {s[k]}
      /\ ~ (k <= Len(s) /\ s[k].token = x) => {e \in Range(s) : e.token \in {x}} = {}
  BY <1>3, EntryFound
<1> HIDE DEF Chosen
<1>7. /\ Hit(t) => Chosen(View, at[t].cur, {x}) = {s[k]}
      /\ ~Hit(t) => Chosen(View, at[t].cur, {x}) = {}
  BY <1>4, <1>5, <1>6, Zenon
<1> QED
  BY <1>2, <1>7

\* The second half of a read.
LEMMA LoadView ==
  ASSUME ControlTypes, NodeInv, BufferInv, NEW t \in Threads, Alone(t), Alone(t)', Load(t),
         at[t].cur = BufOwner
  PROVE  NodeInv' /\ BufferInv' /\ View' = View
<1>1. pc[t] = "load" /\ pc'[t] = "search"
  BY DEF Load, ControlTypes
<1>2. SettledAlone'
  BY AloneSettled, PTL
<1>3. ~Settled /\ Settled'
  BY <1>1, <1>2, AloneSettled DEF SettledAlone
<1>4. ID \in Nat /\ BufOwner < ID
  BY <1>1, OwnerIs
<1> PICK owner : owner = BufOwner
  OBVIOUS
<1>5. /\ Buf' = [node |-> Stored(owner), changed |-> FALSE] /\ BufOwner' = owner
      /\ UNCHANGED <<ID, ptrs, storage>>
  BY DEF Load
<1>6. \A id : Stored(id)' = Stored(id)
  BY <1>5 DEF Stored, PtrOf
<1>7. IInv'
  BY LoadKeeps DEF NodeInv
<1>8. Buf'.node = Stored(owner) /\ Buf'.changed = FALSE
  BY <1>5
<1>9. NodeInv'
  <2>1. GoodNode(Stored(owner))
    BY ViewGood
  <2> QED
    BY <1>5, <1>7, <1>8, <2>1 DEF NodeInv
<1>10. BufferInv'
  <2>1. BufOwner' \in Nat /\ BufOwner' < ID'
    BY <1>4, <1>5 DEF BufferInv
  <2>2. Stored(owner)' = Stored(owner)
    BY <1>6
  <2> QED
    BY <1>5, <1>8, <2>1, <2>2 DEF BufferInv
<1>11. ViewHas'
  BY ViewIs, PTL
<1>12. \A id \in Nat : View'[id] = View[id]
  BY <1>3, <1>5, <1>6, <1>8, <1>11, ViewIs DEF ViewHas
<1> QED
  BY <1>9, <1>10, <1>12, SameView

\* What the view becomes when only the node in the buffer changes.
LEMMA BufferChanges ==
  ASSUME Settled, Settled', NEW owner, owner = BufOwner, BufOwner' = owner,
         \A id \in Nat : id # owner => Stored(id)' = Stored(id)
  PROVE  /\ \A id \in Nat : id # owner => View'[id] = View[id]
         /\ owner \in Nat => View'[owner] = Buf'.node
<1>1. ViewHas'
  BY ViewIs, PTL
<1> QED
  BY <1>1, ViewIs DEF ViewHas
-----------------------------------------------------------------------------
\* What a step does to the nodes: writing.

\* With e in place of what s has for its token, nothing else changes.
HasNow(u, s, token, e) ==
  /\ {f \in Range(u) : f.token \in {token}} = {e}
  /\ \A x : x # token => {f \in Range(u) : f.token \in {x}} = {f \in Range(s) : f.token \in {x}}

\* Another link in an entry changes what there is for its token only.
LEMMA RelinkFound ==
  ASSUME NEW s, Sorted(s), NEW k \in 1..Len(s), NEW link \in Nat,
         NEW u, u = [s EXCEPT ![k].link = link]
  PROVE  HasNow(u, s, s[k].token, Entry(s[k].token, link))
<1>1. /\ Sorted(u) /\ Len(u) = Len(s) /\ Len(s) \in Nat
      /\ \A m \in 1..Len(s) : u[m] = IF m = k THEN Entry(s[k].token, link) ELSE s[m]
  <2>1. Len(s) \in Nat
    BY DEF Sorted
  <2>2. /\ Sorted(Relinked(s, k, link)) /\ Len(Relinked(s, k, link)) = Len(s)
        /\ \A m \in 1..Len(s) :
             Relinked(s, k, link)[m] = IF m = k THEN Entry(s[k].token, link) ELSE s[m]
    BY RelinkSorts
  <2> QED
    BY <2>1, <2>2 DEF Relinked
<1>2. u \in Seq(Entries) /\ s \in Seq(Entries)
  BY <1>1 DEF Sorted
<1>3. Entry(s[k].token, link).token = s[k].token
  BY DEF Entry
<1>4. \A m \in 1..Len(s) : u[m].token = s[m].token
  BY <1>1, <1>3
<1>5. \A m \in 1..Len(s) : s[m].token = s[k].token => m = k
  BY TokenOnce
<1>6. {e \in Range(u) : e.token \in {s[k].token}} = {Entry(s[k].token, link)}
  <2>1. ASSUME NEW e \in Range(u), e.token = s[k].token
        PROVE  e = Entry(s[k].token, link)
    <3>1. u \in Seq(Entries) /\ e \in Range(u)
      BY <1>2
    <3>2. \E m \in 1..Len(u) : e = u[m]
      BY <3>1, RangeIs
    <3>3. PICK m \in 1..Len(s) : e = u[m]
      BY <1>1, <3>2
    <3> QED
      BY <1>1, <1>4, <1>5, <2>1, <3>3
  <2>2. Entry(s[k].token, link) \in Range(u)
    BY <1>1, <1>2, RangeIs
  <2> QED
    BY <1>3, <2>1, <2>2
<1>7. ASSUME NEW x, x # s[k].token
      PROVE  {e \in Range(u) : e.token \in {x}} = {e \in Range(s) : e.token \in {x}}
  <2>1. ASSUME NEW e \in Range(u), e.token = x
        PROVE  e \in Range(s)
    <3>1. u \in Seq(Entries) /\ e \in Range(u)
      BY <1>2
    <3>2. \E m \in 1..Len(u) : e = u[m]
      BY <3>1, RangeIs
    <3>3. PICK m \in 1..Len(s) : e = u[m]
      BY <1>1, <3>2
    <3>4. m # k
      BY <1>4, <1>7, <2>1, <3>3
    <3>5. e = s[m]
      BY <1>1, <3>3, <3>4
    <3> QED
      BY <1>2, <3>5, RangeIs
  <2>2. ASSUME NEW e \in Range(s), e.token = x
        PROVE  e \in Range(u)
    <3>1. PICK m \in 1..Len(s) : e = s[m]
      BY <1>2, RangeIs
    <3>2. m # k
      BY <1>7, <2>2, <3>1
    <3>3. e = u[m]
      BY <1>1, <3>1, <3>2
    <3> QED
      BY <1>1, <1>2, <3>3, RangeIs
  <2> QED
    BY <2>1, <2>2
<1> QED
  BY <1>6, <1>7 DEF HasNow

\* So does another entry.
LEMMA InsertionFound ==
  ASSUME NEW s, Sorted(s), NEW e \in Entries, NEW u, Range(u) = Range(s) \cup {e},
         {f \in Range(s) : f.token \in {e.token}} = {}
  PROVE  HasNow(u, s, e.token, e)
<1>1. {f \in Range(u) : f.token \in {e.token}} = {e}
  OBVIOUS
<1>2. \A x : x # e.token =>
              {f \in Range(u) : f.token \in {x}} = {f \in Range(s) : f.token \in {x}}
  OBVIOUS
<1> QED
  BY <1>1, <1>2 DEF HasNow

\* The leaf that t writes to is the one in the buffer.
LeafOf(t, owner, token) ==
  /\ pc[t] = "search" /\ BufOwner = owner /\ at[t].cur = owner /\ Want(t) = token
  /\ Buf.node.width = 0

\* What is written to a leaf.
LEMMA AddLeafView ==
  ASSUME ControlTypes, NodeInv, BufferInv, NEW t \in Threads, Alone(t), Alone(t)', AddLeaf(t),
         NEW owner, NEW token, LeafOf(t, owner, token), NEW gates \in Nat, gates = at[t].gates
  PROVE  /\ NodeInv' /\ BufferInv'
         /\ LeafChanges(View', View, owner, token)
         /\ Chosen(View', owner, {token}) = {Entry(token, gates)}
<1> PICK s, k, e : s = Buf.node.entries /\ k = Focus(t) /\ e = Entry(token, gates)
  OBVIOUS
<1> PICK u : u = InsertAt(s, k, e)
  OBVIOUS
<1>1. /\ pc[t] = "search" /\ BufOwner = owner /\ at[t].cur = owner /\ Want(t) = token
      /\ Buf.node.width = 0 /\ owner \in Nat /\ ~Hit(t) /\ pc'[t] = "idle"
  BY DEF LeafOf, AddLeaf, ControlTypes, Places, Leave
<1>2. SettledAlone'
  BY AloneSettled, PTL
<1>3. Settled /\ Settled'
  BY <1>1, <1>2, AloneSettled DEF SettledAlone
<1>4. ID \in Nat /\ BufOwner < ID
  BY <1>1, OwnerIs
<1>5. /\ Buf' = [node |-> [Buf.node EXCEPT !.entries = u], changed |-> TRUE]
      /\ UNCHANGED <<ID, ptrs, storage, BufOwner>>
  BY <1>1 DEF AddLeaf
<1>6. token \in Nat /\ Sorted(s) /\ k = First(s, token) /\ k \in 1..Len(s) + 1
  BY <1>1, FocusIs
<1>7. e \in Entries /\ e.token = token
  BY <1>6 DEF Entries, Entry
<1>8. ~ (k <= Len(s) /\ s[k].token = token)
  BY <1>1 DEF Hit
<1>9. Sorted(u)
  BY <1>6, <1>7, <1>8, InsertionSorts
<1>10. Range(u) = Range(s) \cup {e}
  BY <1>6, <1>7, InsertionAdds DEF Sorted
<1>11. Buf'.node = [width |-> 0, entries |-> u] /\ Buf'.changed = TRUE
  <2>1. Buf.node = [width |-> 0, entries |-> s]
    BY <1>1 DEF NodeInv, GoodNode
  <2> QED
    BY <1>5, <2>1
<1>12. NodeInv'
  <2>1. IInv'
    BY AddLeafKeeps DEF NodeInv
  <2>2. GoodNode(Buf'.node)
    BY <1>9, <1>11, RadixAssumption DEF GoodNode
  <2> QED
    BY <1>5, <1>11, <2>1, <2>2 DEF NodeInv
<1>13. BufferInv'
  BY <1>4, <1>5, <1>11 DEF BufferInv
<1>14. \A id : Stored(id)' = Stored(id)
  BY <1>5 DEF Stored, PtrOf
<1>15. /\ \A id \in Nat : id # owner => View'[id] = View[id]
       /\ View'[owner] = Buf'.node
  BY <1>1, <1>3, <1>5, <1>14, BufferChanges
<1>16. View[owner] = Buf.node /\ Chosen(View, owner, {token}) = {}
  BY <1>1, <1>3, SearchTells
<1>17. {f \in Range(s) : f.token \in {e.token}} = {}
  BY <1>7, <1>16 DEF Chosen
<1>18. HasNow(u, s, e.token, e)
  BY <1>6, <1>7, <1>10, <1>17, InsertionFound
<1>19. View'[owner].entries = u /\ View'[owner].width = 0 /\ View[owner].entries = s
  BY <1>11, <1>15, <1>16
<1>20. \A x : /\ Chosen(View', owner, {x}) = {f \in Range(u) : f.token \in {x}}
              /\ Chosen(View, owner, {x}) = {f \in Range(s) : f.token \in {x}}
  BY <1>19 DEF Chosen
<1>21. Chosen(View', owner, {token}) = {Entry(token, gates)}
  BY <1>7, <1>18, <1>20 DEF HasNow
<1>22. LeafChanges(View', View, owner, token)
  <2>1. View'[owner].width = 0 /\ \A id \in Nat : id # owner => View'[id] = View[id]
    BY <1>15, <1>19
  <2>2. ASSUME NEW x \in Nat, x # token
        PROVE  Chosen(View', owner, {x}) = Chosen(View, owner, {x})
    <3>1. {f \in Range(u) : f.token \in {x}} = {f \in Range(s) : f.token \in {x}}
      BY <1>7, <1>18, <2>2 DEF HasNow
    <3> QED
      BY <1>19, <3>1 DEF Chosen
  <2> QED
    BY <2>1, <2>2 DEF LeafChanges
<1> QED
  BY <1>12, <1>13, <1>21, <1>22

\* A number of gates is written over in the buffer, and in the storage if that is
\* where the buffer has it from.
LEMMA OverwriteStores ==
  ASSUME NodeInv, BufferInv, Settled, NEW owner, owner = BufOwner, owner < ID,
         Buf.node.entries # << >>, NEW node, UNCHANGED <<ptrs, BufOwner>>,
         storage' = IF Buf.changed THEN storage
                    ELSE [storage EXCEPT ![PtrOf(BufOwner).Ptr] = node]
  PROVE  ~Buf.changed => Stored(owner)' = node
<1> SUFFICES ASSUME ~Buf.changed PROVE Stored(owner)' = node
  OBVIOUS
<1>1. Buf.node = Stored(owner) /\ owner \in Nat
  BY DEF BufferInv
<1>2. Stored(owner) # Empty
  BY <1>1 DEF Empty
<1>3. PtrOf(owner).Length # 0
  BY <1>2 DEF Stored
<1>4. owner \in DOMAIN ptrs /\ PtrOf(owner) = ptrs[owner]
  BY <1>3 DEF PtrOf, NoPtr
<1>5. ptrs[owner] \in Pointers /\ Readable(ptrs, storage)
  BY <1>4 DEF NodeInv, IInv, StorageInv, Layout
<1>6. ptrs[owner].Ptr \in DOMAIN storage
  BY <1>3, <1>4, <1>5 DEF Readable, Pointers
<1>7. PtrOf(owner)' = PtrOf(owner)
  BY <1>4 DEF PtrOf
<1>8. storage'[PtrOf(owner).Ptr] = node
  BY <1>4, <1>6
<1> QED
  BY <1>3, <1>7, <1>8 DEF Stored

\* t writes over a number of gates.
Overwrites(t, gates) == at[t].op = "ensure" /\ at[t].gates = gates

\* What is written over a number of gates.
LEMMA UpdateView ==
  ASSUME ControlTypes, NodeInv, BufferInv, NEW t \in Threads, Alone(t), Alone(t)', Update(t),
         NEW owner, NEW token, LeafOf(t, owner, token), NEW gates \in Nat, Overwrites(t, gates)
  PROVE  /\ NodeInv' /\ BufferInv'
         /\ LeafChanges(View', View, owner, token)
         /\ Chosen(View', owner, {token}) = {Entry(token, gates)}
<1> PICK s, k : s = Buf.node.entries /\ k = Focus(t)
  OBVIOUS
<1> PICK u : u = [s EXCEPT ![k].link = gates]
  OBVIOUS
<1> PICK node : node = [Buf.node EXCEPT !.entries[k].link = gates]
  OBVIOUS
<1>1. /\ pc[t] = "search" /\ BufOwner = owner /\ at[t].cur = owner /\ Want(t) = token
      /\ Buf.node.width = 0 /\ owner \in Nat /\ Hit(t) /\ pc'[t] = "idle"
  BY DEF LeafOf, Update, ControlTypes, Places, Leave
<1>2. SettledAlone'
  BY AloneSettled, PTL
<1>3. Settled /\ Settled'
  BY <1>1, <1>2, AloneSettled DEF SettledAlone
<1>4. ID \in Nat /\ BufOwner < ID
  BY <1>1, OwnerIs
<1>5. /\ Buf' = [Buf EXCEPT !.node = node]
      /\ storage' = IF Buf.changed THEN storage
                    ELSE [storage EXCEPT ![PtrOf(BufOwner).Ptr] = node]
      /\ UNCHANGED <<ID, ptrs, BufOwner>>
  BY <1>1 DEF Update, Overwrites
<1>6. /\ token \in Nat /\ Sorted(s) /\ k \in 1..Len(s) /\ Len(s) \in Nat
      /\ s[k] \in Entries /\ s[k].token = token
  BY <1>1, FocusIs
<1>7. /\ Buf.node = [width |-> 0, entries |-> s]
      /\ Buf = [node |-> Buf.node, changed |-> Buf.changed]
  BY <1>1 DEF NodeInv, GoodNode, IInv
<1>8. node = [width |-> 0, entries |-> u]
  BY <1>7
<1>9. Sorted(u)
  <2>1. Sorted(Relinked(s, k, gates))
    BY <1>6, RelinkSorts
  <2> QED
    BY <2>1 DEF Relinked
<1>10. HasNow(u, s, token, Entry(token, gates))
  <2>1. HasNow(u, s, s[k].token, Entry(s[k].token, gates))
    BY <1>6, RelinkFound
  <2> QED
    BY <1>6, <2>1
<1>11. GoodNode(node)
  BY <1>8, <1>9, RadixAssumption DEF GoodNode
<1>12. Buf'.node = node /\ Buf'.changed = Buf.changed
  BY <1>5, <1>7
<1>13. NodeInv'
  <2>1. IInv'
    BY UpdateKeeps DEF NodeInv
  <2>2. \A p \in DOMAIN storage' : GoodNode(storage'[p])
    BY <1>5, <1>11 DEF NodeInv
  <2> QED
    BY <1>11, <1>12, <2>1, <2>2 DEF NodeInv
<1>14. ~Buf.changed => Stored(owner)' = node
  <2>1. s # << >>
    BY <1>6
  <2> QED
    BY <1>1, <1>3, <1>4, <1>5, <2>1, OverwriteStores
<1>15. BufferInv'
  <2>1. Stored(owner)' = Stored(BufOwner)'
    BY <1>1, <1>5 DEF Stored, PtrOf
  <2> QED
    BY <1>1, <1>4, <1>5, <1>12, <1>14, <2>1 DEF BufferInv
<1>16. \A id \in Nat : id # owner => Stored(id)' = Stored(id)
  <2> TAKE id \in Nat
  <2> SUFFICES ASSUME id # owner PROVE Stored(id)' = Stored(id)
    OBVIOUS
  <2>1. CASE id \in 0..ID - 1 /\ storage' # storage
    <3>1. OthersStay
      BY UpdateKeeps DEF NodeInv
    <3>2. ~Buf.changed /\ PtrOf(owner).Length # 0
      <4>1. Stored(owner) = Buf.node /\ ~Buf.changed
        BY <1>1, <1>3, <1>5, <2>1 DEF BufferInv
      <4>2. Buf.node # Empty
        BY <1>6, <1>7 DEF Empty
      <4> QED
        BY <4>1, <4>2 DEF Stored
    <3>3. owner \in DOMAIN ptrs /\ PtrOf(owner) = ptrs[owner] /\ ptrs[owner].Length # 0
      BY <3>2 DEF PtrOf, NoPtr
    <3>4. PtrOf(BufOwner).AllocLength > 0
      BY <1>1, <3>3 DEF NodeInv, IInv, StorageInv, Layout, Readable, Pointers
    <3>5. ID' # 0
      BY <1>1, <1>4, <1>5
    <3> QED
      BY <1>1, <2>1, <3>1, <3>4, <3>5 DEF OthersStay
  <2>2. CASE storage' = storage
    BY <1>5, <2>2 DEF Stored, PtrOf
  <2>3. CASE id \notin 0..ID - 1
    <3>1. id \notin DOMAIN ptrs
      BY <2>3 DEF NodeInv, IInv
    <3> QED
      BY <1>5, <3>1 DEF Stored, PtrOf, NoPtr
  <2> QED
    BY <2>1, <2>2, <2>3
<1>17. /\ \A id \in Nat : id # owner => View'[id] = View[id]
       /\ View'[owner] = Buf'.node
  BY <1>1, <1>3, <1>5, <1>16, BufferChanges
<1>18. View[owner] = Buf.node
  BY <1>1, <1>3, SearchTells
<1>19. View'[owner].entries = u /\ View'[owner].width = 0 /\ View[owner].entries = s
  BY <1>8, <1>12, <1>17, <1>18
<1>20. \A x : /\ Chosen(View', owner, {x}) = {f \in Range(u) : f.token \in {x}}
              /\ Chosen(View, owner, {x}) = {f \in Range(s) : f.token \in {x}}
  BY <1>19 DEF Chosen
<1>21. Chosen(View', owner, {token}) = {Entry(token, gates)}
  BY <1>10, <1>20 DEF HasNow
<1>22. LeafChanges(View', View, owner, token)
  BY <1>10, <1>17, <1>19, <1>20 DEF LeafChanges, HasNow
<1> QED
  BY <1>13, <1>15, <1>21, <1>22

\* A number below another is what is left when it is divided.
LEMMA SmallRest ==
  ASSUME NEW p \in Nat, NEW a \in 0..p - 1
  PROVE  a % p = a
OBVIOUS

\* The inner node that t adds to is the one in the buffer.
InnerOf(t, owner, token) ==
  /\ pc[t] = "search" /\ BufOwner = owner /\ at[t].cur = owner /\ Want(t) = token
  /\ Buf.node.width = 0 => Buf.node.entries = << >>

\* An entry for the new node is in the buffer.
LEMMA AddInnerView ==
  ASSUME ControlTypes, NodeInv, BufferInv, NEW t \in Threads, Alone(t), Alone(t)', AddInner(t),
         NEW owner, NEW token, InnerOf(t, owner, token), ID <= MaxID
  PROVE  /\ NodeInv' /\ BufferInv' /\ View'[owner].width # 0
         /\ Chosen(View, owner, {token}) = {}
         /\ \E e \in Entries : e.token = token /\ Grows(View', View, owner, e, ID)
         /\ View[ID] = Empty
<1> PICK s, k, link : s = Buf.node.entries /\ k = Focus(t) /\ link = ID - at[t].cur - 1
  OBVIOUS
<1>1. PICK w : w = IF LinkBytes(link) > Buf.node.width THEN LinkBytes(link) ELSE Buf.node.width
  OBVIOUS
<1>2. PICK e : e = Entry(token, link % Power[w])
  OBVIOUS
<1> PICK u : u = InsertAt(s, k, e)
  OBVIOUS
<1>3. /\ pc[t] = "search" /\ BufOwner = owner /\ at[t].cur = owner /\ Want(t) = token
      /\ owner \in Nat /\ ~Hit(t) /\ pc'[t] = "read"
  BY DEF InnerOf, AddInner, ControlTypes, Places
<1>4. SettledAlone'
  BY AloneSettled, PTL
<1>5. Settled /\ Settled'
  BY <1>3, <1>4, AloneSettled DEF SettledAlone
<1>6. ID \in Nat /\ BufOwner < ID
  BY <1>3, OwnerIs
<1>7. /\ Buf' = [node |-> [width |-> w, entries |-> u], changed |-> TRUE]
      /\ ID' = ID + 1 /\ ptrs' = [id \in 0..ID |-> PtrOf(id)]
      /\ UNCHANGED <<storage, BufOwner>>
  BY <1>1, <1>2, <1>3 DEF AddInner
<1>8. token \in Nat /\ Sorted(s) /\ k = First(s, token) /\ k \in 1..Len(s) + 1
  BY <1>3, FocusIs
<1>9. /\ MaxID \in Nat /\ link \in 0..MaxID /\ link = ID - owner - 1
  BY <1>3, <1>6, RadixAssumption
<1>10. /\ LinkBytes(link) \in 1..MaxID + 1
      /\ \A n \in LinkBytes(link)..MaxID + 1 : link < Power[n]
  BY <1>9, LinkFits
<1>11. Buf.node.width \in 0..MaxID + 1
  BY DEF NodeInv, GoodNode
<1>12. /\ w \in 1..MaxID + 1 /\ w \in LinkBytes(link)..MaxID + 1
       /\ w >= Buf.node.width
  BY <1>1, <1>9, <1>10, <1>11
<1>13. link < Power[w] /\ Power[w] \in Nat
  BY <1>9, <1>10, <1>12, Powers
<1>14. link % Power[w] = link
  BY <1>9, <1>13, SmallRest
<1>15. e = Entry(token, link) /\ e \in Entries /\ e.token = token /\ e.link = link
  BY <1>2, <1>8, <1>9, <1>14 DEF Entries, Entry
<1>16. ~ (k <= Len(s) /\ s[k].token = token)
  BY <1>3 DEF Hit
<1>17. Sorted(u)
  BY <1>8, <1>15, <1>16, InsertionSorts
<1>18. Range(u) = Range(s) \cup {e}
  <2>1. s \in Seq(Entries) /\ k \in 1..Len(s) + 1 /\ e \in Entries
    BY <1>8, <1>15 DEF Sorted
  <2>2. Range(InsertAt(s, k, e)) = Range(s) \cup {e}
    BY <2>1, InsertionAdds
  <2> QED
    BY <2>2
<1>19. Buf'.node = [width |-> w, entries |-> u] /\ Buf'.changed = TRUE
  BY <1>7
<1>20. \A f \in Range(s) : f.link < Power[w]
  <2> SUFFICES ASSUME NEW f \in Range(s) PROVE f.link < Power[w]
    OBVIOUS
  <2>1. s \in Seq(Entries)
    BY <1>8 DEF Sorted
  <2>2. PICK n \in 1..Len(s) : f = s[n]
    BY <2>1, RangeIs
  <2>3. s # << >>
    BY <2>1, <2>2
  <2>4. Buf.node.width > 0
    BY <1>11, <2>3 DEF InnerOf
  <2>5. f.link < Power[Buf.node.width]
    BY <2>2, <2>4 DEF NodeInv, GoodNode
  <2>6. Power[Buf.node.width] <= Power[w] /\ Power[Buf.node.width] \in Nat
    <3>1. /\ Buf.node.width \in 0..MaxID + 1 /\ w \in 0..MaxID + 1
          /\ Buf.node.width <= w
      BY <1>9, <1>11, <1>12
    <3> QED
      BY <3>1, PowersGrow, Powers
  <2>7. f.link \in Nat
    <3>1. s[n] \in Entries
      BY <2>1, <2>2
    <3> QED
      BY <2>2, <3>1 DEF Entries
  <2> QED
    BY <1>13, <2>5, <2>6, <2>7
<1>21. GoodNode([width |-> w, entries |-> u])
  <2>1. ASSUME NEW n \in 1..Len(u)
        PROVE  u[n].link < Power[w]
    <3>1. u \in Seq(Entries)
      BY <1>17 DEF Sorted
    <3>2. u[n] \in Range(u)
      BY <3>1, RangeIs
    <3> QED
      BY <1>13, <1>15, <1>18, <1>20, <3>2
  <2>2. w \in 0..MaxID + 1
    BY <1>9, <1>12
  <2> PICK node : node = [width |-> w, entries |-> u]
    OBVIOUS
  <2>3. node.width = w /\ node.entries = u
    OBVIOUS
  <2>4. GoodNode(node)
    BY <1>17, <2>1, <2>2, <2>3 DEF GoodNode
  <2> QED
    BY <2>4
<1>22. NodeInv'
  <2>1. IInv'
    BY AddInnerKeeps DEF NodeInv
  <2> QED
    BY <1>7, <1>19, <1>21, <2>1 DEF NodeInv
<1>23. BufferInv'
  BY <1>6, <1>7, <1>19 DEF BufferInv
<1>24. \A id \in Nat : Stored(id)' = Stored(id)
  <2>1. \A id \in Nat : PtrOf(id)' = PtrOf(id)
    BY <1>6, <1>7 DEF PtrOf, NodeInv, IInv
  <2> QED
    BY <1>7, <2>1 DEF Stored
<1>25. /\ \A id \in Nat : id # owner => View'[id] = View[id]
       /\ View'[owner] = Buf'.node
  BY <1>3, <1>5, <1>7, <1>24, BufferChanges
<1>26. View[owner] = Buf.node /\ Chosen(View, owner, {token}) = {}
  BY <1>3, <1>5, SearchTells
<1>27. View'[owner].width = w /\ View'[owner].entries = u /\ View[owner].entries = s
  BY <1>19, <1>25, <1>26
<1>28. View[ID] = Empty
  <2>1. ViewHas /\ Stored(ID) = Empty
    BY <1>6, ViewIs, ViewGood
  <2> QED
    BY <1>3, <1>5, <1>6, <2>1 DEF ViewHas
<1>29. Grows(View', View, owner, e, ID)
  <2>1. Range(View[ID].entries) = {}
    BY <1>28, EmptyIsGood
  <2>2. ID = owner + 1 + e.link /\ ID # owner
    BY <1>3, <1>6, <1>9, <1>15
  <2> QED
    BY <1>18, <1>25, <1>27, <2>1, <2>2 DEF Grows
<1> QED
  <2>1. w # 0
    BY <1>9, <1>12
  <2> QED
    BY <1>15, <1>22, <1>23, <1>26, <1>27, <1>28, <1>29, <2>1
-----------------------------------------------------------------------------
\* What a step does to the nodes: clear().

\* The storage and the buffer hold what they did.
LEMMA StoredSame ==
  ASSUME NodeInv, BufferInv, IInv', Settled, Settled', UNCHANGED <<storage, Buf, BufOwner>>,
         BufOwner < ID', \A id \in Nat : Stored(id)' = Stored(id)
  PROVE  NodeInv' /\ BufferInv' /\ View' = View
<1>1. BufOwner \in Nat
  BY DEF BufferInv
<1>2. PICK owner \in Nat : owner = BufOwner
  BY <1>1
<1>3. BufOwner' = owner /\ Stored(owner)' = Stored(owner)
  BY <1>2
<1>4. NodeInv'
  BY DEF NodeInv
<1>5. BufferInv'
  <2>1. ~Buf.changed => Buf.node = Stored(owner)
    BY <1>2 DEF BufferInv
  <2>2. Stored(BufOwner)' = Stored(owner)'
    BY <1>3 DEF Stored, PtrOf
  <2> QED
    BY <1>1, <1>3, <2>1, <2>2 DEF BufferInv
<1>6. /\ \A id \in Nat : id # owner => View'[id] = View[id]
      /\ View'[owner] = Buf'.node
  BY <1>2, <1>3, BufferChanges
<1>7. View[owner] = Buf.node
  BY <1>2, ViewIs DEF ViewHas
<1> QED
  BY <1>4, <1>5, <1>6, <1>7, SameView

\* DeleteArray() reads an inner node, and the buffer changes hands.
LEMMA DeleteView ==
  ASSUME ControlTypes, NodeInv, BufferInv, NEW t \in Threads, Alone(t), Alone(t)',
         NEW tree \in DOMAIN RootID, DeleteRoot(t, tree), ReadInner(tree),
         Nodes(tree) \subseteq 0..ID - 1
  PROVE  NodeInv' /\ BufferInv' /\ View' = View /\ ID' = ID
<1>1. pc[t] = "idle" /\ pc'[t] = "deleted" /\ ID' = ID
  BY DEF DeleteRoot, ReadInner, ControlTypes
<1>2. SettledAlone'
  BY AloneSettled, PTL
<1>3. Settled /\ Settled'
  BY <1>1, <1>2, AloneSettled DEF SettledAlone
<1>4. ID \in Nat /\ BufOwner \in Nat /\ BufOwner < ID /\ BufOwner \in DOMAIN ptrs
  BY <1>1, OwnerIs
<1>5. IInv'
  BY DeleteRootKeeps DEF NodeInv
<1>6. CASE Inner(tree) \subseteq {BufOwner}
  <2>1. UNCHANGED <<ptrs, storage, storage_size, holes, Buf, BufOwner>>
    BY <1>6 DEF ReadInner
  <2>2. \A id : Stored(id)' = Stored(id)
    BY <2>1 DEF Stored, PtrOf
  <2> QED
    BY <1>1, <1>3, <1>4, <1>5, <2>1, <2>2, StoredSame
<1>7. CASE ~ (Inner(tree) \subseteq {BufOwner})
  <2>1. /\ Flush /\ Buf' = [node |-> NodeNow(LastRead(tree)), changed |-> FALSE]
        /\ BufOwner' = LastRead(tree)
    BY <1>7 DEF ReadInner
  <2>2. NodesGood(View) /\ RootID[tree] \in Nat
    BY ViewGood DEF ControlTypes
  <2>3. RealSize > 1
    <3> SUFFICES ASSUME ~ (RealSize > 1) PROVE FALSE
      OBVIOUS
    <3>1. 1..RealSize - 1 = {}
      BY RadixAssumption
    <3>2. Inner(tree) = {}
      BY <2>2, <3>1, NodesAre
    <3> QED
      BY <1>7, <3>2
  <2>4. LastRead(tree) \in Nodes(tree)
    BY <2>2, <2>3, LastReadIs, NodesAre
  <2>5. PICK owner \in 0..ID - 1 : owner = LastRead(tree)
    BY <2>4
  <2>6. owner \in Nat /\ owner < ID /\ BufOwner' = owner
    BY <1>4, <2>1, <2>5
  <2>7. /\ \A p \in DOMAIN storage' : GoodNode(storage'[p])
        /\ \A id \in Nat : Stored(id)' = View[id]
    BY <1>3, <1>4, <2>1, FlushStores
  <2>8. View[owner] = NodeNow(owner) /\ GoodNode(NodeNow(owner))
    BY <2>2, <2>6, NowGood
  <2>9. Buf'.node = View[owner] /\ Buf'.changed = FALSE /\ GoodNode(Buf'.node)
    BY <2>1, <2>5, <2>8
  <2>10. NodeInv'
    BY <1>5, <2>7, <2>9 DEF NodeInv
  <2>11. BufferInv'
    <3>1. Stored(BufOwner)' = Stored(owner)'
      BY <2>6 DEF Stored, PtrOf
    <3> QED
      BY <1>1, <2>6, <2>7, <2>9, <3>1 DEF BufferInv
  <2>12. ViewHas'
    BY ViewIs, PTL
  <2>13. \A id \in Nat : View'[id] = View[id]
    BY <1>3, <2>6, <2>7, <2>9, <2>12 DEF ViewHas
  <2> QED
    BY <1>1, <2>10, <2>11, <2>13, SameView
<1> QED
  BY <1>6, <1>7

\* With the last node everything goes.
LEMMA WipeView ==
  ASSUME ControlTypes, NodeInv, NEW t \in Threads, Alone(t), Alone(t)',
         NEW tree \in DOMAIN RootID, DeleteRoot(t, tree), Wipe
  PROVE  NodeInv' /\ BufferInv' /\ ID' = 0
<1>1. /\ pc'[t] = "deleted" /\ ID' = 0 /\ ptrs' = << >> /\ storage' = << >>
      /\ Buf' = [node |-> Empty, changed |-> TRUE] /\ BufOwner' = 0
  BY DEF DeleteRoot, Wipe, ControlTypes
<1>2. IInv'
  BY DeleteRootKeeps DEF NodeInv
<1>3. Buf'.node = Empty /\ Buf'.changed = TRUE /\ DOMAIN storage' = {}
  BY <1>1
<1>4. NodeInv'
  BY <1>2, <1>3, EmptyIsGood DEF NodeInv
<1>5. BufferInv'
  BY <1>1, <1>3 DEF BufferInv
<1> QED
  BY <1>1, <1>4, <1>5

\* A new root.
LEMMA RecreateView ==
  ASSUME ControlTypes, NodeInv, BufferInv, NEW t \in Threads, Alone(t), Alone(t)', Recreate(t)
  PROVE  NodeInv' /\ BufferInv' /\ View' = View /\ View[ID] = Empty /\ ID' = ID + 1
<1>1. /\ pc[t] = "deleted" /\ pc'[t] = "idle" /\ ID' = ID + 1 /\ ID \in Nat
      /\ ptrs' = [id \in 0..ID |-> IF id = ID THEN NoPtr ELSE ptrs[id]]
      /\ UNCHANGED <<storage, Buf, BufOwner>> /\ DOMAIN ptrs = 0..ID - 1
  BY DEF Recreate, Leave, ControlTypes, NodeInv, IInv
<1>2. SettledAlone'
  BY AloneSettled, PTL
<1>3. Settled /\ Settled'
  BY <1>1, <1>2, AloneSettled DEF SettledAlone
<1>4. IInv'
  BY RecreateKeeps DEF NodeInv
<1>5. \A id \in Nat : Stored(id)' = Stored(id)
  <2>1. \A id \in Nat : PtrOf(id)' = PtrOf(id)
    BY <1>1 DEF PtrOf
  <2> QED
    BY <1>1, <2>1 DEF Stored
<1>6. BufOwner < ID'
  BY <1>1 DEF BufferInv
<1>7. View[ID] = Empty
  <2>1. ViewHas /\ Stored(ID) = Empty
    BY <1>1, ViewIs, ViewGood
  <2>2. ID = BufOwner => Buf.node = Empty
    BY <1>1 DEF BufferInv
  <2> QED
    BY <1>1, <1>3, <2>1, <2>2 DEF ViewHas
<1> QED
  BY <1>1, <1>3, <1>4, <1>5, <1>6, <1>7, StoredSame
-----------------------------------------------------------------------------
\* The invariant.

\* The trees that are not being cleared.
LiveTrees == {tree \in DOMAIN RootID : Exists(tree)}

\* The nodes that are not freed are those of the trees.
ForestInv ==
  /\ Forest(View, RootID, LiveTrees, ID)
  /\ used = Cardinality(ForestIds(View, RootID, LiveTrees))

\* What there is for the key of t.
Holds(t) == ContentOf(View, RootID[at[t].tree], at[t].key)

\* t is where its key leads to, and has the answer that is there; the buffer it is
\* about to take over has been written back; who is about to write over a number
\* of gates has found a larger one.
PlaceOf(t) ==
  /\ pc[t] \notin {"idle", "deleted"} => at[t].key \in Keys /\ at[t].gates \in Gates
  /\ Walks(t) => Along(View, RootID[at[t].tree], at[t].key, at[t].level) = {at[t].cur}
  /\ pc[t] = "write" => Buf.changed
  /\ pc[t] = "own" => Stored(BufOwner) = Buf.node
  /\ pc[t] \in {"load", "search"} => at[t].cur = BufOwner
  /\ pc[t] = "answer" => at[t].op \in {"peek", "check"} /\ at[t].found = Holds(t)
  /\ Walks(t) /\ at[t].op = "ensure" => Holds(t) # None /\ Holds(t) > at[t].gates

PlaceInv == \A t \in Threads : PlaceOf(t)

RInv ==
  ControlTypes /\ NodeInv /\ LockInv /\ RoomInv /\ BufferInv /\ ForestInv /\ PlaceInv

\* Who is alone is the only one that may be clearing a tree.
LiveAlone == \A t \in Threads : Alone(t) =>
  LiveTrees = IF pc[t] = "deleted" THEN DOMAIN RootID \ {at[t].tree} ELSE DOMAIN RootID

\* The others are idle, or wait for the lock.
LEMMA AloneLive == LiveAlone
<1> SUFFICES ASSUME NEW t \in Threads, Alone(t)
             PROVE  LiveTrees = IF pc[t] = "deleted" THEN DOMAIN RootID \ {at[t].tree}
                                ELSE DOMAIN RootID
  BY DEF LiveAlone
<1>1. \A u \in Threads : u # t => pc[u] # "deleted"
  BY DEF Alone
<1>2. \A tree \in DOMAIN RootID : Exists(tree) <=> (pc[t] = "deleted" => at[t].tree # tree)
  BY <1>1 DEF Exists
<1> QED
  BY <1>2 DEF LiveTrees

\* What the maps are, as the abstract specification has them.
MapsAre ==
  NodesGood(View) /\ ControlTypes =>
    /\ contents = [tree \in Trees |-> [key \in Keys |->
                     IF tree \in LiveTrees THEN ContentOf(View, RootID[tree], key) ELSE None]]
    /\ sizes = [tree \in Trees |-> IF tree \in LiveTrees THEN Size[tree] ELSE 0]

\* The way through the nodes leads to what contents has.
LEMMA MapsAreThat == MapsAre
<1> SUFFICES ASSUME NodesGood(View), ControlTypes
             PROVE  /\ contents = [tree \in Trees |-> [key \in Keys |->
                        IF tree \in LiveTrees THEN ContentOf(View, RootID[tree], key) ELSE None]]
                    /\ sizes = [tree \in Trees |-> IF tree \in LiveTrees THEN Size[tree] ELSE 0]
  BY DEF MapsAre
<1>1. \A tree : tree \in LiveTrees <=> Exists(tree)
  BY DEF LiveTrees, Exists
<1>2. \A tree \in LiveTrees : RootID[tree] \in Nat
  BY DEF LiveTrees, ControlTypes
<1>3. \A key \in Keys : key \in TokenKeys
  BY RadixAssumption DEF TokenKeys
<1>4. \A tree \in LiveTrees : \A key \in Keys :
        Content(tree, key) = ContentOf(View, RootID[tree], key)
  BY <1>2, <1>3, ContentIs
<1>5. contents = [tree \in Trees |-> [key \in Keys |->
                        IF tree \in LiveTrees THEN ContentOf(View, RootID[tree], key) ELSE None]]
  BY <1>1, <1>4 DEF contents
<1>6. sizes = [tree \in Trees |-> IF tree \in LiveTrees THEN Size[tree] ELSE 0]
  BY <1>1 DEF sizes
<1> QED
  BY <1>5, <1>6

\* Who goes through the nodes of a tree is in it.
LEMMA WayIs ==
  ASSUME ControlTypes, NodeInv, ForestInv, NEW t \in Threads, PlaceOf(t), Alone(t), Walks(t)
  PROVE  /\ NodesGood(View) /\ ID \in Nat
         /\ at[t].tree \in LiveTrees /\ at[t].tree \in DOMAIN RootID /\ RootID[at[t].tree] \in Nat
         /\ at[t].key \in TokenKeys /\ at[t].key \in Keys
         /\ at[t].gates \in Gates /\ at[t].gates \in Nat
         /\ at[t].level \in 1..RealSize /\ Want(t) = at[t].key[at[t].level]
         /\ Along(View, RootID[at[t].tree], at[t].key, at[t].level) = {at[t].cur}
         /\ at[t].cur \in Level(View, RootID[at[t].tree], at[t].level)
         /\ at[t].cur \in 0..ID - 1
<1>1. /\ pc[t] # "idle" /\ pc[t] # "deleted" /\ at[t] \in Places
      /\ at[t].tree \in DOMAIN RootID /\ RootID[at[t].tree] \in Nat
  BY DEF Walks, ControlTypes
<1>2. NodesGood(View) /\ ID \in Nat
  BY ViewGood DEF NodeInv, IInv
<1>3. at[t].tree \in LiveTrees
  BY <1>1, AloneLive DEF LiveAlone
<1>4. /\ at[t].key \in Keys /\ at[t].gates \in Gates
      /\ Along(View, RootID[at[t].tree], at[t].key, at[t].level) = {at[t].cur}
  BY <1>1 DEF PlaceOf
<1>5. at[t].key \in TokenKeys /\ at[t].gates \in Nat /\ at[t].level \in 1..RealSize
  BY <1>1 DEF Places
<1>6. at[t].cur \in Level(View, RootID[at[t].tree], at[t].level)
  BY <1>1, <1>2, <1>4, <1>5, AlongInTree
<1>7. at[t].cur \in 0..ID - 1
  BY <1>3, <1>5, <1>6 DEF ForestInv, Forest
<1> QED
  BY <1>1, <1>2, <1>3, <1>4, <1>5, <1>6, <1>7 DEF Want

\* No tree changes, whatever becomes of the buffer.
Quiet == View' = View /\ LiveTrees' = LiveTrees /\ UNCHANGED <<ID, used, trees>>

\* The trees stay in order then.
LEMMA QuietKeeps ==
  ASSUME ForestInv, Quiet
  PROVE  ForestInv'
BY DEF ForestInv, Quiet, trees

\* The steps that change nothing in the trees.
LooksOn(t) ==
  \/ \E tree \in DOMAIN RootID, key \in Keys, gates \in Gates : Offer(t, tree, key, gates)
  \/ Seek(t) \/ WriteBack(t) \/ TakeOver(t) \/ Load(t) \/ Descend(t) \/ Found(t)
  \/ Peeked(t) \/ Lock(t) \/ RaceEvaded(t) \/ Store(t)
  \/ (Update(t) /\ at[t].op # "ensure")

\* They leave the nodes as they are.
LEMMA LooksOnView ==
  ASSUME ControlTypes, NodeInv, BufferInv, ForestInv, ControlTypes',
         NEW t \in Threads, PlaceOf(t), Alone(t), Alone(t)', LooksOn(t)
  PROVE  NodeInv' /\ BufferInv' /\ Quiet
<1>1. pc[t] # "deleted" /\ pc'[t] # "deleted" /\ UNCHANGED <<ID, used, trees>>
  BY DEF LooksOn, Offer, Seek, WriteBack, TakeOver, Load, Descend, Found, Peeked, Lock,
         RaceEvaded, Store, Update, Leave, Walk, ControlTypes, vectors, trees
<1>2. LiveTrees' = LiveTrees
  <2>1. LiveAlone /\ LiveAlone'
    BY AloneLive, PTL
  <2> QED
    BY <1>1, <2>1 DEF LiveAlone, trees
<1>3. CASE WriteBack(t)
  <2>1. Buf.changed
    BY <1>3 DEF WriteBack, PlaceOf
  <2> QED
    BY <1>1, <1>2, <1>3, <2>1, WriteBackView DEF Quiet
<1>6. CASE TakeOver(t)
  <2>1. at[t].cur \in 0..ID - 1 /\ ID \in Nat
    <3>1. Walks(t)
      BY <1>6 DEF TakeOver, Walks
    <3> QED
      BY <3>1, WayIs
  <2>2. at[t].cur < ID
    BY <2>1
  <2>3. Stored(BufOwner) = Buf.node
    BY <1>6 DEF TakeOver, PlaceOf
  <2> QED
    BY <1>1, <1>2, <1>6, <2>2, <2>3, TakeOverView DEF Quiet
<1>4. CASE Load(t)
  <2>1. at[t].cur = BufOwner
    BY <1>4 DEF Load, PlaceOf
  <2> QED
    BY <1>1, <1>2, <1>4, <2>1, LoadView DEF Quiet
<1>5. CASE ~WriteBack(t) /\ ~TakeOver(t) /\ ~Load(t)
  <2>1. pc[t] # "load" /\ pc'[t] # "load" /\ UNCHANGED vectors
    BY <1>5 DEF LooksOn, Offer, Seek, Descend, Found, Peeked, Lock, RaceEvaded, Store, Update,
                Leave, Walk, ControlTypes, vectors, trees
  <2>2. SettledAlone'
    BY AloneSettled, PTL
  <2>3. Settled /\ Settled'
    BY <2>1, <2>2, AloneSettled DEF SettledAlone
  <2>4. BufOwner < ID
    BY <1>1, OwnerIs
  <2> QED
    BY <1>1, <1>2, <2>1, <2>3, <2>4, VectorsSame DEF Quiet
<1> QED
  BY <1>3, <1>4, <1>5, <1>6
-----------------------------------------------------------------------------
\* A step of the one that is alone keeps the trees in order.

\* What there is for a key is found on the way through the nodes.
LEMMA Finds ==
  ASSUME ControlTypes, NodeInv, BufferInv, ForestInv, NEW t \in Threads, PlaceOf(t), Alone(t),
         pc[t] = "search"
  PROVE  /\ View[at[t].cur] = Buf.node
         /\ ~Hit(t) => Holds(t) = None /\ Chosen(View, at[t].cur, {Want(t)}) = {}
         /\ Hit(t) /\ AtLeaf(t) => Holds(t) = Buf.node.entries[Focus(t)].link
         /\ Hit(t) /\ ~AtLeaf(t) =>
              /\ at[t].level + 1 \in 1..RealSize
              /\ Along(View, RootID[at[t].tree], at[t].key, at[t].level + 1)
                   = {at[t].cur + 1 + Buf.node.entries[Focus(t)].link}
<1>1. Walks(t) /\ at[t].cur = BufOwner
  BY DEF Walks, PlaceOf
<1>2. /\ NodesGood(View) /\ RootID[at[t].tree] \in Nat
      /\ at[t].key \in TokenKeys /\ at[t].level \in 1..RealSize
      /\ Want(t) = at[t].key[at[t].level]
      /\ Along(View, RootID[at[t].tree], at[t].key, at[t].level) = {at[t].cur}
  BY <1>1, WayIs
<1>3. Settled
  BY AloneSettled DEF SettledAlone
<1>4. /\ View[at[t].cur] = Buf.node
      /\ Hit(t) => Chosen(View, at[t].cur, {Want(t)}) = {Buf.node.entries[Focus(t)]}
      /\ ~Hit(t) => Chosen(View, at[t].cur, {Want(t)}) = {}
  BY <1>1, <1>3, SearchTells
<1> PICK root, key, level, cur : /\ root = RootID[at[t].tree] /\ key = at[t].key
                                 /\ level = at[t].level /\ cur = at[t].cur
  OBVIOUS
<1> PICK e : e = Buf.node.entries[Focus(t)]
  OBVIOUS
<1>5. ~Hit(t) => Holds(t) = None
  <2> SUFFICES ASSUME ~Hit(t) PROVE ContentOf(View, root, key) = None
    BY DEF Holds
  <2>1. Chosen(View, cur, {key[level]}) = {}
    BY <1>2, <1>4
  <2> QED
    BY <1>2, <2>1, NotThere
<1>6. Hit(t) /\ AtLeaf(t) => Holds(t) = e.link
  <2> SUFFICES ASSUME Hit(t), AtLeaf(t) PROVE ContentOf(View, root, key) = e.link
    BY DEF Holds
  <2>1. level = RealSize
    BY DEF AtLeaf
  <2>2. Chosen(View, cur, {key[RealSize]}) = {e} /\ Along(View, root, key, RealSize) = {cur}
    BY <1>2, <1>4, <2>1
  <2> QED
    BY <2>2, There
<1>7. Hit(t) /\ ~AtLeaf(t) =>
        /\ level + 1 \in 1..RealSize
        /\ Along(View, root, key, level + 1) = {cur + 1 + e.link}
  <2> SUFFICES ASSUME Hit(t), ~AtLeaf(t)
               PROVE  /\ level + 1 \in 1..RealSize
                      /\ Along(View, root, key, level + 1) = {cur + 1 + e.link}
    OBVIOUS
  <2>1. level \in 1..RealSize - 1 /\ level + 1 \in 1..RealSize
    BY <1>2, RadixAssumption DEF AtLeaf
  <2>2. Chosen(View, cur, {key[level]}) = {e} /\ Along(View, root, key, level) = {cur}
    BY <1>2, <1>4
  <2> QED
    BY <1>2, <2>1, <2>2, OneFurther
<1> QED
  BY <1>4, <1>5, <1>6, <1>7

\* At the root every key is on its way.
LEMMA RootIsWay ==
  ASSUME NodesGood(View), NEW root \in Nat, NEW key
  PROVE  Along(View, root, key, 1) = {root}
BY WalkIs DEF Along

\* Who looks on is where its key leads to.
LEMMA LooksOnPlace ==
  ASSUME ControlTypes, NodeInv, BufferInv, ForestInv, ControlTypes', Quiet,
         NEW t \in Threads, PlaceOf(t), Alone(t), Alone(t)', LooksOn(t)
  PROVE  PlaceOf(t)'
<1>1. View' = View /\ RootID' = RootID /\ NodesGood(View)
  BY ViewGood DEF Quiet, trees
<1>2. CASE \E tree \in DOMAIN RootID, key \in Keys, gates \in Gates : Offer(t, tree, key, gates)
  <2> PICK tree \in DOMAIN RootID, key \in Keys, gates \in Gates : Offer(t, tree, key, gates)
    BY <1>2
  <2>1. /\ pc'[t] = "read" /\ at'[t].op = "peek" /\ at'[t].tree = tree /\ at'[t].key = key
        /\ at'[t].gates = gates /\ at'[t].cur = RootID[tree] /\ at'[t].level = 1
    BY DEF Offer, ControlTypes, Nowhere
  <2>2. Along(View, RootID[tree], key, 1) = {RootID[tree]}
    BY <1>1, RootIsWay DEF ControlTypes
  <2> QED
    BY <1>1, <2>1, <2>2 DEF PlaceOf, Walks
<1>3. CASE Seek(t)
  <2>1. pc[t] = "read" /\ at'[t] = at[t] /\ UNCHANGED <<ptrs, storage, Buf, BufOwner>>
    BY <1>3 DEF Seek, ControlTypes, vectors
  <2>2. /\ pc'[t] \in {"write", "own", "search"}
        /\ pc'[t] = "write" => Buf.changed
        /\ pc'[t] = "own" => ~Buf.changed
        /\ pc'[t] = "search" => at[t].cur = BufOwner
    BY <1>3 DEF Seek, ControlTypes
  <2>3. Settled
    BY <2>1, AloneSettled DEF SettledAlone
  <2>4. Buf.node = Stored(BufOwner) \/ Buf.changed
    BY <2>3 DEF BufferInv
  <2>5. Stored(BufOwner)' = Stored(BufOwner)
    BY <2>1 DEF Stored, PtrOf
  <2>6. Holds(t)' = Holds(t)
    BY <1>1, <2>1 DEF Holds
  <2> QED
    BY <1>1, <2>1, <2>2, <2>4, <2>5, <2>6 DEF PlaceOf, Walks
<1>12. CASE WriteBack(t)
  <2>1. pc[t] = "write" /\ pc'[t] = "own" /\ at'[t] = at[t] /\ Buf' = Buf
    BY <1>12 DEF WriteBack, ControlTypes
  <2>2. Buf.changed
    BY <2>1 DEF PlaceOf
  <2>3. Stored(BufOwner)' = Buf.node
    BY <1>12, <2>2, WriteBackView
  <2>4. Holds(t)' = Holds(t)
    BY <1>1, <2>1 DEF Holds
  <2> QED
    BY <1>1, <2>1, <2>3, <2>4 DEF PlaceOf, Walks
<1>13. CASE TakeOver(t)
  <2>1. pc[t] = "own" /\ pc'[t] = "load" /\ at'[t] = at[t] /\ BufOwner' = at[t].cur
    BY <1>13 DEF TakeOver, ControlTypes
  <2>2. Holds(t)' = Holds(t)
    BY <1>1, <2>1 DEF Holds
  <2> QED
    BY <1>1, <2>1, <2>2 DEF PlaceOf, Walks
<1>4. CASE Load(t)
  <2>1. pc[t] = "load" /\ pc'[t] = "search" /\ at'[t] = at[t] /\ BufOwner' = BufOwner
    BY <1>4 DEF Load, ControlTypes
  <2> QED
    BY <1>1, <2>1 DEF PlaceOf, Walks, Holds
<1>5. CASE Descend(t)
  <2>1. pc[t] = "search" /\ pc'[t] = "read" /\ ~AtLeaf(t) /\ Hit(t)
    BY <1>5 DEF Descend, ControlTypes
  <2>2. /\ at'[t].op = at[t].op /\ at'[t].tree = at[t].tree /\ at'[t].key = at[t].key
        /\ at'[t].gates = at[t].gates /\ at'[t].level = at[t].level + 1
        /\ at'[t].cur = at[t].cur + 1 + Buf.node.entries[Focus(t)].link
    <3>1. at[t] \in Places /\ at \in [Threads -> Places]
      BY DEF ControlTypes
    <3>2. PICK cur, level : /\ cur = at[t].cur + 1 + Buf.node.entries[Focus(t)].link
                            /\ level = at[t].level + 1
      OBVIOUS
    <3>3. at'[t] = [at[t] EXCEPT !.cur = cur, !.level = level]
      BY <1>5, <3>1, <3>2 DEF Descend
    <3> QED
      BY <3>1, <3>2, <3>3 DEF Places
  <2>3. Along(View, RootID[at[t].tree], at[t].key, at[t].level + 1)
          = {at[t].cur + 1 + Buf.node.entries[Focus(t)].link}
    BY <2>1, Finds
  <2>4. Holds(t)' = Holds(t)
    BY <1>1, <2>2 DEF Holds
  <2> QED
    BY <1>1, <2>1, <2>2, <2>3, <2>4 DEF PlaceOf, Walks
<1>6. CASE Found(t)
  <2>1. pc[t] = "search" /\ pc'[t] = "answer" /\ at[t].op \in {"peek", "check"}
    BY <1>6 DEF Found, IsFind, ControlTypes
  <2>2. /\ at'[t].op = at[t].op /\ at'[t].tree = at[t].tree /\ at'[t].key = at[t].key
        /\ at'[t].gates = at[t].gates
        /\ \/ Hit(t) /\ AtLeaf(t) /\ at'[t].found = Buf.node.entries[Focus(t)].link
           \/ ~Hit(t) /\ at'[t].found = None
    BY <1>6 DEF Found, ControlTypes, Places
  <2>3. at'[t].found = Holds(t)
    BY <2>1, <2>2, Finds
  <2>4. Holds(t)' = Holds(t)
    BY <1>1, <2>2 DEF Holds
  <2> QED
    BY <2>1, <2>2, <2>3, <2>4 DEF PlaceOf, Walks
<1>7. CASE Peeked(t)
  <2>1. /\ pc[t] = "answer"
        /\ pc'[t] = "idle" \/ (pc'[t] = "lock" /\ at'[t] = at[t])
    BY <1>7 DEF Peeked, ControlTypes
  <2> QED
    BY <2>1 DEF PlaceOf, Walks
<1>8. ASSUME NEW op \in {"check", "add", "ensure"}, Walk(t, op), pc[t] \in {"lock", "answer"},
             op = "ensure" => Holds(t) # None /\ Holds(t) > at[t].gates
      PROVE  PlaceOf(t)'
  <2>1. /\ pc'[t] = "read" /\ at'[t].op = op /\ at'[t].tree = at[t].tree
        /\ at'[t].key = at[t].key /\ at'[t].gates = at[t].gates
        /\ at'[t].cur = RootID[at[t].tree] /\ at'[t].level = 1
    BY <1>8 DEF Walk, ControlTypes, Places
  <2>2. RootID[at[t].tree] \in Nat
    BY <1>8 DEF ControlTypes
  <2>3. Along(View, RootID[at[t].tree], at[t].key, 1) = {RootID[at[t].tree]}
    BY <1>1, <2>2, RootIsWay
  <2>4. Holds(t)' = Holds(t)
    BY <1>1, <2>1 DEF Holds
  <2> QED
    BY <1>1, <1>8, <2>1, <2>3, <2>4 DEF PlaceOf, Walks
<1>9. CASE Lock(t)
  BY <1>8, <1>9 DEF Lock
<1>10. CASE RaceEvaded(t) \/ (Update(t) /\ at[t].op # "ensure")
  <2>1. pc'[t] = "idle"
    BY <1>10 DEF RaceEvaded, Update, Leave, ControlTypes
  <2> QED
    BY <2>1 DEF PlaceOf, Walks
<1>11. CASE Store(t)
  <2>1. pc[t] = "answer" /\ at[t].found = Holds(t) /\ ~GoodEnough(t)
    BY <1>11 DEF Store, PlaceOf
  <2>2. at[t].found \in Nat /\ at[t].gates \in Nat
    BY DEF ControlTypes, Places
  <2>3. CASE at[t].found = None
    <3>1. Walk(t, "add")
      BY <1>11, <2>3 DEF Store
    <3> QED
      BY <1>8, <2>1, <3>1
  <2>4. CASE at[t].found # None
    <3>1. Walk(t, "ensure")
      BY <1>11, <2>4 DEF Store
    <3>2. Holds(t) # None /\ Holds(t) > at[t].gates
      BY <2>1, <2>2, <2>4 DEF GoodEnough
    <3> QED
      BY <1>8, <2>1, <3>1, <3>2
  <2> QED
    BY <2>3, <2>4
<1> QED
  BY <1>2, <1>3, <1>4, <1>5, <1>6, <1>7, <1>9, <1>10, <1>11, <1>12, <1>13 DEF LooksOn

\* All nodes are in order, now as after a step.
ViewInOrder == NodeInv => NodesGood(View)

\* The view has no nodes but those of the storage and the one in the buffer.
LEMMA ViewOrdered == ViewInOrder
BY ViewGood DEF ViewInOrder

\* t writes the leaf in the buffer.
LEMMA LeafIsHere ==
  ASSUME ControlTypes, NodeInv, BufferInv, ForestInv, NEW t \in Threads, PlaceOf(t), Alone(t),
         pc[t] = "search", AtLeaf(t)
  PROVE  /\ LeafOf(t, at[t].cur, Want(t))
         /\ at[t].level = RealSize /\ Walks(t)
<1>1. Walks(t) /\ at[t].cur = BufOwner /\ at[t].level = RealSize
  BY DEF Walks, PlaceOf, AtLeaf
<1>2. at[t].tree \in LiveTrees /\ at[t].cur \in Level(View, RootID[at[t].tree], RealSize)
  BY <1>1, WayIs
<1>3. View[at[t].cur].width = 0
  BY <1>2 DEF ForestInv, Forest, WidthsFit
<1>4. View[at[t].cur] = Buf.node
  BY Finds
<1> QED
  BY <1>1, <1>3, <1>4 DEF LeafOf

\* What is written to a leaf is in the map, and changes nothing else.
LEMMA LeafWritten ==
  ASSUME ControlTypes, ControlTypes', NodeInv, NodeInv', BufferInv, ForestInv,
         NEW t \in Threads, PlaceOf(t), Alone(t), Alone(t)',
         pc[t] = "search", AtLeaf(t), pc'[t] = "idle", UNCHANGED <<ID, used, RootID>>,
         LeafChanges(View', View, at[t].cur, Want(t)),
         Chosen(View', at[t].cur, {Want(t)}) = {Entry(Want(t), at[t].gates)}
  PROVE  /\ ForestInv' /\ PlaceOf(t)' /\ LiveTrees' = LiveTrees
         /\ contents' = [contents EXCEPT ![at[t].tree][at[t].key] = at[t].gates]
<1> PICK M, N, live, tree, key, cur, gates :
      /\ M = View' /\ N = View /\ live = LiveTrees /\ tree = at[t].tree /\ key = at[t].key
      /\ cur = at[t].cur /\ gates = at[t].gates
  OBVIOUS
<1>1. Walks(t) /\ at[t].level = RealSize
  BY LeafIsHere
<1>2. /\ NodesGood(N) /\ ID \in Nat /\ tree \in live /\ tree \in DOMAIN RootID
      /\ RootID[tree] \in Nat /\ key \in TokenKeys /\ key \in Keys /\ Want(t) = key[RealSize]
      /\ Along(N, RootID[tree], key, RealSize) = {cur}
      /\ cur \in Level(N, RootID[tree], RealSize)
  BY <1>1, WayIs
<1>3. NodesGood(M)
  <2>1. ViewInOrder'
    BY ViewOrdered, PTL
  <2> QED
    BY <2>1 DEF ViewInOrder
<1>4. LeafChanges(M, N, cur, key[RealSize])
  BY <1>2
<1>5. PICK f : f = Entry(key[RealSize], gates) /\ f.link = gates
  <2>1. Entry(key[RealSize], gates).link = gates
    BY DEF Entry
  <2> QED
    BY <2>1
<1>6. Chosen(M, cur, {key[RealSize]}) = {f}
  BY <1>2, <1>5
<1>7. live' = live /\ LiveTrees' = live
  <2>1. LiveAlone /\ LiveAlone'
    BY AloneLive, PTL
  <2> QED
    BY <2>1 DEF LiveAlone
<1>8. Forest(N, RootID, live, ID) /\ used = Cardinality(ForestIds(N, RootID, live))
  BY DEF ForestInv
<1>9. Forest(M, RootID, live, ID) /\ ForestIds(M, RootID, live) = ForestIds(N, RootID, live)
  BY <1>2, <1>3, <1>4, <1>8, ForestStays
<1>10. ForestInv'
  BY <1>7, <1>8, <1>9 DEF ForestInv
<1>11. PlaceOf(t)'
  BY DEF PlaceOf, Walks
<1>12. /\ ContentOf(M, RootID[tree], key) = gates
       /\ \A a \in live : \A other \in TokenKeys : a # tree \/ other # key =>
            ContentOf(M, RootID[a], other) = ContentOf(N, RootID[a], other)
  BY <1>2, <1>3, <1>4, <1>5, <1>6, <1>8, ContentChanges
<1>13. /\ contents = [a \in Trees |-> [other \in Keys |->
                        IF a \in live THEN ContentOf(N, RootID[a], other) ELSE None]]
       /\ contents' = [a \in Trees |-> [other \in Keys |->
                        IF a \in live THEN ContentOf(M, RootID[a], other) ELSE None]]
  <2>1. MapsAre /\ MapsAre'
    BY MapsAreThat, PTL
  <2> QED
    BY <1>2, <1>3, <1>7, <2>1 DEF MapsAre
<1>14. tree \in Trees /\ \A other \in Keys : other \in TokenKeys
  BY <1>2, RadixAssumption DEF ControlTypes, TokenKeys
<1>15. contents' = [contents EXCEPT ![tree][key] = gates]
  <2>1. ASSUME NEW a \in Trees, NEW other \in Keys
        PROVE  (IF a \in live THEN ContentOf(M, RootID[a], other) ELSE None)
                 = IF a = tree /\ other = key THEN gates ELSE contents[a][other]
    BY <1>2, <1>12, <1>13, <1>14
  <2>2. [contents EXCEPT ![tree][key] = gates]
          = [a \in Trees |-> [other \in Keys |->
               IF a = tree /\ other = key THEN gates ELSE contents[a][other]]]
    <3>1. /\ contents = [a \in Trees |-> contents[a]]
          /\ contents[tree] = [other \in Keys |-> contents[tree][other]]
      BY <1>13, <1>14
    <3>2. \A a \in Trees : contents[a] = [other \in Keys |-> contents[a][other]]
      BY <1>13
    <3>3. \A a \in Trees : [contents EXCEPT ![tree][key] = gates][a]
            = [other \in Keys |-> IF a = tree /\ other = key THEN gates ELSE contents[a][other]]
      BY <1>2, <1>14, <3>1, <3>2
    <3> QED
      BY <3>1, <3>3
  <2> QED
    BY <1>13, <2>1, <2>2
<1> QED
  BY <1>7, <1>10, <1>11, <1>15

\* The key that comes by at the new entry leads on to the new node.
LeadsOn(M, N, root, l, cur, e, key, top) ==
  key[l] = e.token /\ Along(N, root, key, l) = {cur} => Along(M, root, key, l + 1) = {top}

\* The way of the key takes the new entry, and no other one at that node.
LEMMA GrowsAlong ==
  ASSUME NEW N, NodesGood(N), NEW M, NodesGood(M), NEW R, NEW live, NEW top \in Nat,
         Forest(N, R, live, top), NEW tree \in live, NEW l \in 1..RealSize - 1,
         NEW cur \in Level(N, R[tree], l), NEW e \in Entries, Grows(M, N, cur, e, top),
         Chosen(N, cur, {e.token}) = {}, NEW a \in live, NEW key \in TokenKeys
  PROVE  LeadsOn(M, N, R[a], l, cur, e, key, top)
<1>1. ContentOf(M, R[a], key) = ContentOf(N, R[a], key)
      /\ (key[l] = e.token /\ Along(N, R[a], key, l) = {cur}
            => Along(M, R[a], key, l + 1) = {top})
  BY ContentGrows
<1> QED
  BY <1>1 DEF LeadsOn

\* A new inner node is one of the forest, and no map changes.
LEMMA InnerAdded ==
  ASSUME ControlTypes, ControlTypes', NodeInv, BufferInv, ForestInv, ID <= MaxID,
         NEW t \in Threads, PlaceOf(t), Alone(t), Alone(t)', AddInner(t)
  PROVE  /\ NodeInv' /\ BufferInv' /\ ForestInv' /\ PlaceOf(t)'
         /\ contents' = contents
<1>1. PICK M, N, live : M = View' /\ N = View /\ live = LiveTrees
  OBVIOUS
<1>2. PICK tree, key, cur, level, token :
        /\ tree = at[t].tree /\ key = at[t].key
        /\ cur = at[t].cur /\ level = at[t].level /\ token = Want(t)
  OBVIOUS
<1>3. /\ pc[t] = "search" /\ pc'[t] = "read" /\ ~AtLeaf(t) /\ Walks(t) /\ cur = BufOwner
      /\ ID' = ID + 1 /\ used' = used + 1 /\ UNCHANGED trees
  BY <1>1, <1>2 DEF AddInner, Walks, ControlTypes, PlaceOf
<1>4. /\ NodesGood(N) /\ ID \in Nat /\ tree \in live /\ tree \in DOMAIN RootID
      /\ RootID[tree] \in Nat /\ key \in TokenKeys /\ key \in Keys
      /\ level \in 1..RealSize /\ Want(t) = key[level]
      /\ Along(N, RootID[tree], key, level) = {cur} /\ cur \in Level(N, RootID[tree], level)
  BY <1>1, <1>2, <1>3, WayIs
<1>5. level \in 1..RealSize - 1 /\ level + 1 \in 1..RealSize
  BY <1>1, <1>2, <1>3, <1>4, RadixAssumption DEF AtLeaf
<1>6. InnerOf(t, cur, token)
  <2>1. View[cur].width = 0 => View[cur].entries = << >>
    BY <1>1, <1>2, <1>4, <1>5 DEF ForestInv, Forest, WidthsFit
  <2>2. View[cur] = Buf.node
    BY <1>1, <1>2, <1>3, Finds
  <2> QED
    BY <1>1, <1>2, <1>3, <2>1, <2>2 DEF InnerOf
<1>7. /\ NodeInv' /\ BufferInv' /\ M[cur].width # 0
      /\ Chosen(N, cur, {token}) = {}
      /\ \E e \in Entries : e.token = token /\ Grows(M, N, cur, e, ID)
      /\ N[ID] = Empty
  <2>1. /\ NodeInv' /\ BufferInv' /\ View'[cur].width # 0
        /\ Chosen(View, cur, {token}) = {}
        /\ \E e \in Entries : e.token = token /\ Grows(View', View, cur, e, ID)
        /\ View[ID] = Empty
    BY <1>6, AddInnerView
  <2> QED
    BY <1>1, <1>2, <2>1
<1>8. PICK e \in Entries : e.token = token /\ Grows(M, N, cur, e, ID)
  BY <1>1, <1>2, <1>7
<1>9. NodesGood(M)
  <2>1. ViewInOrder'
    BY ViewOrdered, PTL
  <2> QED
    BY <1>1, <1>2, <1>7, <2>1 DEF ViewInOrder
<1>10. LiveTrees' = live /\ RootID' = RootID
  <2>1. LiveAlone /\ LiveAlone'
    BY AloneLive, PTL
  <2> QED
    BY <1>1, <1>2, <1>3, <2>1 DEF LiveAlone, trees
<1>11. Forest(N, RootID, live, ID) /\ used = Cardinality(ForestIds(N, RootID, live))
  BY <1>1, <1>2 DEF ForestInv
<1>12. /\ Forest(M, RootID, live, ID + 1)
       /\ ForestIds(M, RootID, live) = ForestIds(N, RootID, live) \cup {ID}
  BY <1>4, <1>5, <1>7, <1>8, <1>9, <1>11, ForestGrows
<1>13. Cardinality(ForestIds(M, RootID, live)) = used + 1
  <2>1. ForestIds(N, RootID, live) \subseteq 0..ID - 1 /\ IsFiniteSet(ForestIds(N, RootID, live))
    BY <1>4, <1>11, ForestCounts
  <2>2. ID \notin ForestIds(N, RootID, live)
    BY <1>1, <1>2, <1>4, <2>1
  <2>3. Cardinality(ForestIds(N, RootID, live) \cup {ID})
          = Cardinality(ForestIds(N, RootID, live)) + 1
    BY <2>1, <2>2, FS_AddElement
  <2> QED
    BY <1>1, <1>2, <1>11, <1>12, <2>3
<1>14. ForestInv'
  BY <1>1, <1>2, <1>3, <1>10, <1>12, <1>13 DEF ForestInv
<1>15. \A a \in live : \A other \in TokenKeys :
         /\ ContentOf(M, RootID[a], other) = ContentOf(N, RootID[a], other)
         /\ other[level] = e.token /\ Along(N, RootID[a], other, level) = {cur}
              => Along(M, RootID[a], other, level + 1) = {ID}
  <2>1. Chosen(N, cur, {e.token}) = {}
    BY <1>1, <1>2, <1>7, <1>8
  <2> SUFFICES ASSUME NEW a \in live, NEW other \in TokenKeys
               PROVE  /\ ContentOf(M, RootID[a], other) = ContentOf(N, RootID[a], other)
                      /\ other[level] = e.token /\ Along(N, RootID[a], other, level) = {cur}
                           => Along(M, RootID[a], other, level + 1) = {ID}
    OBVIOUS
  <2>2. ContentOf(M, RootID[a], other) = ContentOf(N, RootID[a], other)
    BY <1>4, <1>5, <1>8, <1>9, <1>11, <2>1, ContentGrows
  <2>3. LeadsOn(M, N, RootID[a], level, cur, e, other, ID)
    BY <1>4, <1>5, <1>8, <1>9, <1>11, <2>1, GrowsAlong
  <2> QED
    BY <2>2, <2>3 DEF LeadsOn
<1>16. PlaceOf(t)'
  <2>1. /\ at'[t].op = at[t].op /\ at'[t].tree = tree /\ at'[t].key = key
        /\ at'[t].gates = at[t].gates /\ at'[t].cur = ID /\ at'[t].level = level + 1
    BY <1>1, <1>2 DEF AddInner, ControlTypes, Places
  <2>2. Along(M, RootID[tree], key, level + 1) = {ID}
    BY <1>1, <1>2, <1>4, <1>8, <1>15
  <2>3. Holds(t)' = Holds(t)
    BY <1>1, <1>2, <1>4, <1>10, <1>15, <2>1 DEF Holds
  <2> QED
    BY <1>1, <1>2, <1>3, <1>10, <2>1, <2>2, <2>3 DEF PlaceOf, Walks
<1>17. contents' = contents
  <2>1. MapsAre /\ MapsAre'
    BY MapsAreThat, PTL
  <2>2. /\ contents = [a \in Trees |-> [other \in Keys |->
                        IF a \in live THEN ContentOf(N, RootID[a], other) ELSE None]]
        /\ contents' = [a \in Trees |-> [other \in Keys |->
                        IF a \in live THEN ContentOf(M, RootID[a], other) ELSE None]]
    BY <1>1, <1>2, <1>4, <1>9, <1>10, <2>1 DEF MapsAre
  <2>3. \A other \in Keys : other \in TokenKeys
    BY RadixAssumption DEF TokenKeys
  <2> QED
    BY <1>1, <1>2, <1>15, <2>2, <2>3
<1> QED
  BY <1>1, <1>2, <1>7, <1>14, <1>16, <1>17

\* The nodes of a tree that is cleared are not of the forest any more.
LEMMA RootDeleted ==
  ASSUME ControlTypes, ControlTypes', NodeInv, BufferInv, ForestInv,
         NEW t \in Threads, Alone(t), Alone(t)', NEW tree \in DOMAIN RootID, DeleteRoot(t, tree)
  PROVE  /\ NodeInv' /\ BufferInv' /\ ForestInv' /\ PlaceOf(t)'
         /\ contents' = [contents EXCEPT ![tree] = [key \in Keys |-> None]]
         /\ sizes' = [sizes EXCEPT ![tree] = 0]
<1>1. PICK M, N : M = View' /\ N = View
  OBVIOUS
<1> PICK live, left : live = LiveTrees /\ left = LiveTrees \ {tree}
  OBVIOUS
<1>2. /\ pc[t] = "idle" /\ pc'[t] = "deleted" /\ at'[t].tree = tree /\ UNCHANGED trees
      /\ used' = used - Cardinality(Nodes(tree))
  BY DEF DeleteRoot, ControlTypes
<1>3. live = DOMAIN RootID /\ LiveTrees' = left /\ RootID' = RootID
  <2>1. LiveAlone /\ LiveAlone'
    BY AloneLive, PTL
  <2> QED
    BY <1>2, <2>1 DEF LiveAlone, trees
<1>4. NodesGood(N) /\ ID \in Nat /\ RootID[tree] \in Nat /\ tree \in live
  BY <1>1, <1>3, ViewGood DEF NodeInv, IInv, ControlTypes
<1>5. Forest(N, RootID, live, ID) /\ used = Cardinality(ForestIds(N, RootID, live))
  BY <1>1 DEF ForestInv
<1>6. /\ Forest(N, RootID, left, ID)
      /\ ForestIds(N, RootID, live) = ForestIds(N, RootID, left) \cup TreeIds(N, RootID[tree])
      /\ ForestIds(N, RootID, left) \cap TreeIds(N, RootID[tree]) = {}
  BY <1>4, <1>5, ForestLess
<1>7. Nodes(tree) = TreeIds(N, RootID[tree]) /\ Nodes(tree) \subseteq 0..ID - 1
  BY <1>1, <1>4, <1>5, NodesAre, ForestCounts
<1>8. /\ IsFiniteSet(ForestIds(N, RootID, left)) /\ IsFiniteSet(Nodes(tree))
      /\ Cardinality(ForestIds(N, RootID, left)) \in Nat
      /\ \A a \in left : RootID[a] \in ForestIds(N, RootID, left)
  <2>1. /\ IsFiniteSet(ForestIds(N, RootID, left))
        /\ \A a \in left : RootID[a] \in ForestIds(N, RootID, left)
    BY <1>4, <1>6, ForestCounts
  <2>2. IsFiniteSet(Nodes(tree))
    <3>1. IsFiniteSet(0..ID - 1)
      BY <1>4, FS_Interval
    <3> QED
      BY <1>7, <3>1, FS_Subset
  <2> QED
    BY <2>1, <2>2, FS_CardinalityType
<1>9. used' = Cardinality(ForestIds(N, RootID, left))
  <2>1. Cardinality({}) = 0
    BY FS_EmptySet
  <2>2. Cardinality(Nodes(tree)) \in Nat
    BY <1>8, FS_CardinalityType
  <2>3. used = Cardinality(ForestIds(N, RootID, left)) + Cardinality(Nodes(tree))
    <3>1. ForestIds(N, RootID, left) \cap Nodes(tree) = {}
      BY <1>6, <1>7
    <3>2. Cardinality(ForestIds(N, RootID, left) \cup Nodes(tree))
            = Cardinality(ForestIds(N, RootID, left)) + Cardinality(Nodes(tree)) - 0
      BY <1>8, <2>1, <3>1, FS_Union
    <3> QED
      BY <1>5, <1>6, <1>7, <1>8, <2>2, <3>2
  <2> QED
    BY <1>2, <1>8, <2>2, <2>3
<1>10. NodeInv' /\ BufferInv' /\ ForestInv'
  <2>1. CASE used' = 0
    <3>1. Wipe
      BY <2>1 DEF DeleteRoot
    <3>2. NodeInv' /\ BufferInv' /\ ID' = 0
      BY <3>1, WipeView
    <3>3. ForestIds(N, RootID, left) = {}
      BY <1>8, <1>9, <2>1, FS_EmptySet
    <3>4. left = {}
      BY <1>8, <3>3
    <3>5. Forest(M, RootID, {}, 0) /\ ForestIds(M, RootID, {}) = {}
      BY DEF Forest, LevelsApart, ForestIds
    <3> QED
      BY <1>1, <1>3, <2>1, <3>2, <3>4, <3>5, FS_EmptySet DEF ForestInv
  <2>2. CASE used' # 0
    <3>1. ReadInner(tree)
      BY <2>2 DEF DeleteRoot
    <3>2. NodeInv' /\ BufferInv' /\ M = N /\ ID' = ID
      BY <1>1, <1>7, <3>1, DeleteView
    <3> QED
      BY <1>1, <1>3, <1>6, <1>9, <3>2 DEF ForestInv
  <2> QED
    BY <2>1, <2>2
<1>11. PlaceOf(t)'
  BY <1>2 DEF PlaceOf, Walks
<1>12. NodesGood(M)
  <2>1. ViewInOrder'
    BY ViewOrdered, PTL
  <2> QED
    BY <1>1, <1>10, <2>1 DEF ViewInOrder
<1>13. \A a \in left : \A key \in Keys :
         ContentOf(M, RootID[a], key) = ContentOf(N, RootID[a], key)
  <2>1. CASE used' = 0
    <3>1. ForestIds(N, RootID, left) = {}
      BY <1>8, <1>9, <2>1, FS_EmptySet
    <3> QED
      BY <1>8, <3>1
  <2>2. CASE used' # 0
    <3>1. ReadInner(tree)
      BY <2>2 DEF DeleteRoot
    <3>2. M = N
      BY <1>1, <1>7, <3>1, DeleteView
    <3> QED
      BY <3>2
  <2> QED
    BY <2>1, <2>2
<1>14. /\ contents = [a \in Trees |-> [key \in Keys |->
                        IF a \in live THEN ContentOf(N, RootID[a], key) ELSE None]]
       /\ contents' = [a \in Trees |-> [key \in Keys |->
                        IF a \in left THEN ContentOf(M, RootID[a], key) ELSE None]]
       /\ sizes = [a \in Trees |-> IF a \in live THEN Size[a] ELSE 0]
       /\ sizes' = [a \in Trees |-> IF a \in left THEN Size[a] ELSE 0]
  <2>1. MapsAre /\ MapsAre'
    BY MapsAreThat, PTL
  <2>2. Size' = Size
    BY <1>2 DEF trees
  <2>3. NodesGood(View) /\ NodesGood(View)'
    BY <1>1, <1>4, <1>12
  <2>4. /\ contents = [a \in Trees |-> [key \in Keys |->
                        IF a \in live THEN ContentOf(N, RootID[a], key) ELSE None]]
        /\ sizes = [a \in Trees |-> IF a \in live THEN Size[a] ELSE 0]
    BY <1>1, <2>1, <2>3 DEF MapsAre
  <2>5. contents' = [a \in Trees |-> [key \in Keys |->
                        IF a \in left THEN ContentOf(M, RootID[a], key) ELSE None]]
    <3>1. contents' = [a \in Trees |-> [key \in Keys |->
                        IF a \in LiveTrees' THEN ContentOf(View', RootID'[a], key) ELSE None]]
      BY <2>1, <2>3 DEF MapsAre
    <3> QED
      BY <1>1, <1>3, <3>1
  <2>6. sizes' = [a \in Trees |-> IF a \in left THEN Size[a] ELSE 0]
    BY <1>1, <1>3, <2>1, <2>2, <2>3 DEF MapsAre
  <2> QED
    BY <2>4, <2>5, <2>6
<1>15. contents' = [contents EXCEPT ![tree] = [key \in Keys |-> None]]
  <2>1. ASSUME NEW a \in Trees
        PROVE  [key \in Keys |-> IF a \in left THEN ContentOf(M, RootID[a], key) ELSE None]
                 = IF a = tree THEN [key \in Keys |-> None] ELSE contents[a]
    BY <1>13, <1>14
  <2>2. [contents EXCEPT ![tree] = [key \in Keys |-> None]]
          = [a \in Trees |-> IF a = tree THEN [key \in Keys |-> None] ELSE contents[a]]
    BY <1>14
  <2> QED
    BY <1>14, <2>1, <2>2
<1>16. sizes' = [sizes EXCEPT ![tree] = 0]
  BY <1>14
<1> QED
  BY <1>10, <1>11, <1>15, <1>16

\* The new root is one of the forest, and its tree is an empty map as before.
LEMMA RootMade ==
  ASSUME ControlTypes, ControlTypes', NodeInv, BufferInv, ForestInv,
         NEW t \in Threads, Alone(t), Alone(t)', Recreate(t)
  PROVE  /\ NodeInv' /\ BufferInv' /\ ForestInv' /\ PlaceOf(t)'
         /\ contents' = contents /\ sizes' = sizes
<1>1. PICK N : N = View
  OBVIOUS
<1> PICK live, tree : live = LiveTrees /\ tree = at[t].tree
  OBVIOUS
<1>2. /\ pc[t] = "deleted" /\ pc'[t] = "idle" /\ used' = used + 1
      /\ Size' = [Size EXCEPT ![tree] = 0] /\ RootID' = [RootID EXCEPT ![tree] = ID]
  BY DEF Recreate, Leave, ControlTypes
<1>3. tree \in DOMAIN RootID /\ tree \in DOMAIN Size
  BY <1>2 DEF ControlTypes
<1>4. live = DOMAIN RootID \ {tree} /\ LiveTrees' = live \cup {tree}
  <2>1. LiveAlone /\ LiveAlone'
    BY AloneLive, PTL
  <2> QED
    BY <1>2, <1>3, <2>1 DEF LiveAlone
<1>5. NodesGood(N) /\ ID \in Nat
  BY <1>1, ViewGood DEF NodeInv, IInv
<1>6. /\ NodeInv' /\ BufferInv' /\ View' = N /\ N[ID] = Empty /\ ID' = ID + 1
  BY <1>1, RecreateView
<1>7. Forest(N, RootID, live, ID) /\ used = Cardinality(ForestIds(N, RootID, live))
  BY <1>1 DEF ForestInv
<1>8. tree \notin live /\ RootID'[tree] = ID /\ \A a \in live : RootID'[a] = RootID[a]
  BY <1>2, <1>3, <1>4
<1>9. /\ Forest(N, RootID', live \cup {tree}, ID + 1)
      /\ ForestIds(N, RootID', live \cup {tree}) = ForestIds(N, RootID, live) \cup {ID}
      /\ \A key \in TokenKeys : ContentOf(N, ID, key) = None
  BY <1>5, <1>6, <1>7, <1>8, ForestRoot
<1>10. Cardinality(ForestIds(N, RootID', live \cup {tree})) = used + 1
  <2>1. ForestIds(N, RootID, live) \subseteq 0..ID - 1 /\ IsFiniteSet(ForestIds(N, RootID, live))
    BY <1>5, <1>7, ForestCounts
  <2>2. ID \notin ForestIds(N, RootID, live)
    BY <1>5, <2>1
  <2>3. Cardinality(ForestIds(N, RootID, live) \cup {ID})
          = Cardinality(ForestIds(N, RootID, live)) + 1
    BY <2>1, <2>2, FS_AddElement
  <2> QED
    BY <1>7, <1>9, <2>3
<1>11. ForestInv'
  BY <1>2, <1>4, <1>6, <1>9, <1>10 DEF ForestInv
<1>12. PlaceOf(t)'
  BY <1>2 DEF PlaceOf, Walks
<1>13. /\ contents = [a \in Trees |-> [key \in Keys |->
                        IF a \in live THEN ContentOf(N, RootID[a], key) ELSE None]]
       /\ contents' = [a \in Trees |-> [key \in Keys |->
                        IF a \in live \cup {tree} THEN ContentOf(N, RootID'[a], key) ELSE None]]
       /\ sizes = [a \in Trees |-> IF a \in live THEN Size[a] ELSE 0]
       /\ sizes' = [a \in Trees |-> IF a \in live \cup {tree} THEN Size'[a] ELSE 0]
  <2>1. MapsAre /\ MapsAre'
    BY MapsAreThat, PTL
  <2>2. NodesGood(View) /\ NodesGood(View)'
    BY <1>1, <1>5, <1>6
  <2>3. /\ contents = [a \in Trees |-> [key \in Keys |->
                        IF a \in live THEN ContentOf(N, RootID[a], key) ELSE None]]
        /\ sizes = [a \in Trees |-> IF a \in live THEN Size[a] ELSE 0]
    BY <1>1, <2>1, <2>2 DEF MapsAre
  <2>4. contents' = [a \in Trees |-> [key \in Keys |->
                        IF a \in LiveTrees' THEN ContentOf(View', RootID'[a], key) ELSE None]]
    BY <2>1, <2>2 DEF MapsAre
  <2>5. sizes' = [a \in Trees |-> IF a \in LiveTrees' THEN Size'[a] ELSE 0]
    BY <2>1, <2>2 DEF MapsAre
  <2> QED
    BY <1>4, <1>6, <2>3, <2>4, <2>5
<1>14. \A key \in Keys : key \in TokenKeys
  BY RadixAssumption DEF TokenKeys
<1>15. contents' = contents
  <2>1. ASSUME NEW a \in Trees, NEW key \in Keys
        PROVE  (IF a \in live \cup {tree} THEN ContentOf(N, RootID'[a], key) ELSE None)
                 = IF a \in live THEN ContentOf(N, RootID[a], key) ELSE None
    BY <1>8, <1>9, <1>14
  <2> QED
    BY <1>13, <2>1
<1>16. sizes' = sizes
  <2>1. Size'[tree] = 0 /\ \A a \in live : Size'[a] = Size[a]
    BY <1>2, <1>3, <1>4
  <2> QED
    BY <1>8, <1>13, <2>1
<1> QED
  BY <1>6, <1>11, <1>12, <1>15, <1>16

\* A key that has not been there is added.
LEMMA LeafAdded ==
  ASSUME ControlTypes, ControlTypes', NodeInv, BufferInv, ForestInv,
         NEW t \in Threads, PlaceOf(t), Alone(t), Alone(t)', AddLeaf(t)
  PROVE  /\ NodeInv' /\ BufferInv' /\ ForestInv' /\ PlaceOf(t)'
         /\ contents[at[t].tree][at[t].key] = None
         /\ contents' = [contents EXCEPT ![at[t].tree][at[t].key] = at[t].gates]
         /\ sizes' = [sizes EXCEPT ![at[t].tree] = @ + 1]
<1>1. PICK tree, key, cur, token :
        tree = at[t].tree /\ key = at[t].key /\ cur = at[t].cur /\ token = Want(t)
  OBVIOUS
<1>2. PICK gates : gates = at[t].gates
  OBVIOUS
<1>3. /\ pc[t] = "search" /\ pc'[t] = "idle" /\ AtLeaf(t) /\ ~Hit(t)
      /\ UNCHANGED <<ID, used, RootID>> /\ Size' = [Size EXCEPT ![tree] = @ + 1]
  BY <1>1, <1>2 DEF AddLeaf, Leave, ControlTypes
<1>4. LeafOf(t, cur, token) /\ Walks(t)
  BY <1>1, <1>2, <1>3, LeafIsHere
<1>5. /\ tree \in LiveTrees /\ tree \in DOMAIN RootID /\ key \in Keys /\ gates \in Nat
      /\ NodesGood(View)
  BY <1>1, <1>2, <1>4, WayIs
<1>6. /\ NodeInv' /\ BufferInv'
      /\ LeafChanges(View', View, cur, token)
      /\ Chosen(View', cur, {token}) = {Entry(token, gates)}
  BY <1>2, <1>4, <1>5, AddLeafView
<1>7. /\ LeafChanges(View', View, at[t].cur, Want(t))
      /\ Chosen(View', at[t].cur, {Want(t)}) = {Entry(Want(t), at[t].gates)}
  BY <1>1, <1>2, <1>6
<1>8. /\ ForestInv' /\ PlaceOf(t)' /\ LiveTrees' = LiveTrees
      /\ contents' = [contents EXCEPT ![at[t].tree][at[t].key] = at[t].gates]
  BY <1>1, <1>2, <1>3, <1>6, <1>7, LeafWritten
<1>9. tree \in Trees /\ tree \in DOMAIN Size
  BY <1>1, <1>2, <1>5 DEF ControlTypes
<1>10. MapsAre /\ MapsAre'
  BY MapsAreThat, PTL
<1>11. NodesGood(View)'
  <2>1. ViewInOrder'
    BY ViewOrdered, PTL
  <2> QED
    BY <1>6, <2>1 DEF ViewInOrder
<1>12. contents[tree][key] = None
  <2>1. contents[tree][key] = ContentOf(View, RootID[tree], key)
    BY <1>1, <1>2, <1>5, <1>9, <1>10 DEF MapsAre
  <2>2. Holds(t) = None
    BY <1>1, <1>2, <1>3, Finds
  <2> QED
    BY <1>1, <1>2, <2>1, <2>2 DEF Holds
<1>13. sizes' = [sizes EXCEPT ![tree] = @ + 1]
  <2>1. sizes = [a \in Trees |-> IF a \in LiveTrees THEN Size[a] ELSE 0]
    BY <1>1, <1>2, <1>5, <1>10 DEF MapsAre
  <2>2. sizes' = [a \in Trees |-> IF a \in LiveTrees' THEN Size'[a] ELSE 0]
    BY <1>1, <1>2, <1>10, <1>11 DEF MapsAre
  <2>3. Size'[tree] = Size[tree] + 1 /\ \A a : a # tree => Size'[a] = Size[a]
    BY <1>1, <1>2, <1>3, <1>9
  <2>4. sizes' = [a \in Trees |-> IF a \in LiveTrees THEN Size'[a] ELSE 0]
    BY <1>8, <2>2
  <2> QED
    BY <1>5, <1>9, <2>1, <2>3, <2>4
<1> QED
  BY <1>1, <1>2, <1>6, <1>8, <1>12, <1>13

\* A number of gates becomes smaller.
LEMMA LeafUpdated ==
  ASSUME ControlTypes, ControlTypes', NodeInv, BufferInv, ForestInv,
         NEW t \in Threads, PlaceOf(t), Alone(t), Alone(t)', Update(t), at[t].op = "ensure"
  PROVE  /\ NodeInv' /\ BufferInv' /\ ForestInv' /\ PlaceOf(t)'
         /\ contents[at[t].tree][at[t].key] # None
         /\ at[t].gates < contents[at[t].tree][at[t].key]
         /\ contents' = [contents EXCEPT ![at[t].tree][at[t].key] = at[t].gates]
         /\ sizes' = sizes
<1>1. PICK tree, key, cur, token :
        tree = at[t].tree /\ key = at[t].key /\ cur = at[t].cur /\ token = Want(t)
  OBVIOUS
<1>2. PICK gates : gates = at[t].gates
  OBVIOUS
<1>3. /\ pc[t] = "search" /\ pc'[t] = "idle" /\ AtLeaf(t) /\ Hit(t)
      /\ UNCHANGED <<ID, used, RootID, Size>>
  BY <1>1, <1>2 DEF Update, Leave, ControlTypes, trees
<1>4. LeafOf(t, cur, token) /\ Walks(t)
  BY <1>1, <1>2, <1>3, LeafIsHere
<1>5. /\ tree \in LiveTrees /\ tree \in DOMAIN RootID /\ key \in Keys /\ gates \in Nat
      /\ NodesGood(View)
  BY <1>1, <1>2, <1>4, WayIs
<1>6. /\ NodeInv' /\ BufferInv'
      /\ LeafChanges(View', View, cur, token)
      /\ Chosen(View', cur, {token}) = {Entry(token, gates)}
  <2>1. Overwrites(t, gates)
    BY <1>2 DEF Overwrites
  <2> QED
    BY <1>4, <1>5, <2>1, UpdateView
<1>7. /\ LeafChanges(View', View, at[t].cur, Want(t))
      /\ Chosen(View', at[t].cur, {Want(t)}) = {Entry(Want(t), at[t].gates)}
  BY <1>1, <1>2, <1>6
<1>8. /\ ForestInv' /\ PlaceOf(t)' /\ LiveTrees' = LiveTrees
      /\ contents' = [contents EXCEPT ![at[t].tree][at[t].key] = at[t].gates]
  BY <1>1, <1>2, <1>3, <1>6, <1>7, LeafWritten
<1>9. tree \in Trees
  BY <1>1, <1>2, <1>5 DEF ControlTypes
<1>10. MapsAre /\ MapsAre'
  BY MapsAreThat, PTL
<1>11. NodesGood(View)'
  <2>1. ViewInOrder'
    BY ViewOrdered, PTL
  <2> QED
    BY <1>6, <2>1 DEF ViewInOrder
<1>12. contents[tree][key] # None /\ gates < contents[tree][key]
  <2>1. contents[tree][key] = Holds(t)
    BY <1>1, <1>2, <1>5, <1>9, <1>10 DEF MapsAre, Holds
  <2>2. Holds(t) # None /\ Holds(t) > gates
    BY <1>1, <1>2, <1>4 DEF PlaceOf
  <2>3. Holds(t) \in Nat
    <3>1. Holds(t) = Buf.node.entries[Focus(t)].link
      BY <1>1, <1>2, <1>3, Finds
    <3> QED
      BY <1>1, <1>2, <1>3, <3>1, FocusIs
  <2> QED
    BY <1>1, <1>2, <1>5, <2>1, <2>2, <2>3
<1>13. sizes' = sizes
  <2>1. sizes = [a \in Trees |-> IF a \in LiveTrees THEN Size[a] ELSE 0]
    BY <1>1, <1>2, <1>5, <1>10 DEF MapsAre
  <2>2. sizes' = [a \in Trees |-> IF a \in LiveTrees' THEN Size'[a] ELSE 0]
    BY <1>1, <1>2, <1>10, <1>11 DEF MapsAre
  <2> QED
    BY <1>1, <1>2, <1>3, <1>8, <2>1, <2>2
<1> QED
  BY <1>1, <1>2, <1>6, <1>8, <1>12, <1>13
-----------------------------------------------------------------------------
\* The empty trees at the beginning.

\* Nodes without entries lead nowhere.
LEMMA EmptyLevels ==
  ASSUME NEW N, NodesGood(N), \A id \in Nat : N[id] = Empty, NEW root \in Nat, NEW T,
         NEW n \in 1..RealSize
  PROVE  WalkOf(N, root, T)[n] = IF n = 1 THEN {root} ELSE {}
<1>1. /\ WalkOf(N, root, T)[1] = {root}
      /\ \A m \in 1..RealSize - 1 :
           WalkOf(N, root, T)[m + 1] = Kids(N, WalkOf(N, root, T)[m], T[m])
  BY WalkIs
<1>2. CASE n = 1
  BY <1>1, <1>2
<1>3. CASE n # 1
  <2>1. 1 \in 1..RealSize - 1 /\ 1 + 1 = 2 /\ 2 \in 1..RealSize /\ n \in 2..RealSize
    BY <1>3, RadixAssumption
  <2>2. WalkOf(N, root, T)[2] = Kids(N, {root}, T[1])
    BY <1>1, <2>1
  <2>3. Kids(N, {root}, T[1]) = {}
    BY EmptyIsGood DEF Kids, Chosen
  <2>4. WalkOf(N, root, T)[2] = {}
    BY <2>2, <2>3
  <2>5. \A m \in 2..RealSize : WalkOf(N, root, T)[m] = {}
    BY <2>1, <2>4, EmptyStays
  <2> QED
    BY <1>3, <2>1, <2>5
<1> QED
  BY <1>2, <1>3

\* Trees without keys are a forest of their roots.
LEMMA FirstForest ==
  ASSUME NEW N, NodesGood(N), \A id \in Nat : N[id] = Empty, NEW k \in Nat,
         NEW R, R = [tree \in 1..k |-> tree - 1]
  PROVE  /\ Forest(N, R, 1..k, k) /\ Cardinality(ForestIds(N, R, 1..k)) = k
         /\ \A tree \in 1..k : \A key \in TokenKeys : ContentOf(N, R[tree], key) = None
<1>1. \A a \in 1..k : R[a] = a - 1 /\ R[a] \in Nat /\ R[a] \in 0..k - 1
  OBVIOUS
<1>2. \A a \in 1..k : \A n \in 1..RealSize : Level(N, R[a], n) = IF n = 1 THEN {a - 1} ELSE {}
  BY <1>1, EmptyLevels DEF Level
<1>3. Range(Empty.entries) = {} /\ Empty.width = 0 /\ Empty.entries = << >>
  BY EmptyIsGood DEF Empty
<1>4. ASSUME NEW a \in 1..k
      PROVE  /\ R[a] \in Nat
             /\ \A n \in 1..RealSize : Level(N, R[a], n) \subseteq 0..k - 1
             /\ OneParent(N, R[a]) /\ WidthsFit(N, R[a])
  <2>1. ASSUME NEW n \in 1..RealSize
        PROVE  Level(N, R[a], n) \subseteq 0..k - 1
    <3>1. Level(N, R[a], n) = IF n = 1 THEN {a - 1} ELSE {}
      BY <1>2
    <3>2. {a - 1} \subseteq 0..k - 1
      OBVIOUS
    <3> QED
      BY <3>1, <3>2
  <2>2. \A n \in 1..RealSize : \A id \in Level(N, R[a], n) : N[id] = Empty
    BY <2>1
  <2>3. RealSize \in 1..RealSize /\ \A n \in 1..RealSize - 1 : n \in 1..RealSize
    BY RadixAssumption
  <2>4. OneParent(N, R[a])
    BY <1>3, <2>2, <2>3 DEF OneParent
  <2>5. WidthsFit(N, R[a])
    BY <1>3, <2>2, <2>3 DEF WidthsFit
  <2> QED
    BY <1>1, <2>1, <2>4, <2>5
<1>5. LevelsApart(N, R, 1..k)
  <2> SUFFICES ASSUME NEW a \in 1..k, NEW b \in 1..k, NEW m \in 1..RealSize, NEW n \in 1..RealSize,
                      NEW id \in Level(N, R[a], m), id \in Level(N, R[b], n)
               PROVE  a = b /\ m = n
    BY DEF LevelsApart
  <2>1. m = 1 /\ n = 1 /\ id = a - 1 /\ id = b - 1
    BY <1>2
  <2> QED
    BY <2>1
<1>6. ForestIds(N, R, 1..k) = 0..k - 1
  <2>1. 1 \in 1..RealSize
    BY RadixAssumption
  <2>2. \A a \in 1..k : TreeIds(N, R[a]) = {a - 1}
    <3> TAKE a \in 1..k
    <3>1. \A n \in 1..RealSize : Level(N, R[a], n) \subseteq {a - 1}
      BY <1>2
    <3>2. Level(N, R[a], 1) = {a - 1}
      BY <1>2, <2>1
    <3> QED
      BY <2>1, <3>1, <3>2 DEF TreeIds
  <2>3. ForestIds(N, R, 1..k) = UNION {{a - 1} : a \in 1..k}
    BY <2>2 DEF ForestIds
  <2>4. \A x \in 0..k - 1 : x + 1 \in 1..k /\ x = (x + 1) - 1
    OBVIOUS
  <2>5. \A a \in 1..k : a - 1 \in 0..k - 1
    OBVIOUS
  <2>6. 0..k - 1 \subseteq UNION {{a - 1} : a \in 1..k}
    BY <2>4
  <2>7. UNION {{a - 1} : a \in 1..k} \subseteq 0..k - 1
    BY <2>5
  <2> QED
    BY <2>3, <2>6, <2>7
<1>7. Cardinality(0..k - 1) = k
  BY FS_Interval
<1>8. ASSUME NEW a \in 1..k, NEW key \in TokenKeys
      PROVE  ContentOf(N, R[a], key) = None
  <2>1. 1 \in 1..RealSize /\ Along(N, R[a], key, 1) = {a - 1}
    <3>1. 1 \in 1..RealSize
      BY RadixAssumption
    <3>2. WalkOf(N, R[a], Only(key))[1] = {R[a]}
      BY <1>1, WalkIs
    <3> QED
      BY <1>1, <3>1, <3>2 DEF Along
  <2>2. a - 1 \in Nat /\ Chosen(N, a - 1, {key[1]}) = {}
    BY <1>1, <1>3 DEF Chosen
  <2>3. PICK root, id, one : root = R[a] /\ id = a - 1 /\ one = 1
    OBVIOUS
  <2>4. /\ root \in Nat /\ one \in 1..RealSize
        /\ Along(N, root, key, one) = {id} /\ Chosen(N, id, {key[one]}) = {}
    BY <2>3, <1>1, <2>1, <2>2
  <2>5. ContentOf(N, root, key) = None
    BY <2>4, NotThere
  <2> QED
    BY <2>3, <2>5
<1> QED
  BY <1>4, <1>5, <1>6, <1>7, <1>8 DEF Forest

\* All is well when the trees have been constructed.
LEMMA InitRInv == Init => RInv /\ Knowledge!Init
<1> SUFFICES ASSUME Init PROVE RInv /\ Knowledge!Init
  OBVIOUS
<1>1. PICK k \in Trees :
        /\ ID = k /\ used = k /\ ptrs = [id \in 0..k - 1 |-> NoPtr] /\ storage = << >>
        /\ Buf = [node |-> Empty, changed |-> FALSE] /\ BufOwner = 0
        /\ RootID = [tree \in 1..k |-> tree - 1] /\ Size = [tree \in 1..k |-> 0]
        /\ readers = {} /\ writer = NoThread
        /\ pc = [t \in Threads |-> "idle"] /\ at = [t \in Threads |-> Nowhere]
  BY DEF Init
<1>2. /\ k \in Nat /\ k >= 1 /\ k <= MaxID /\ 1..k \subseteq Trees
      /\ RealSize \in Nat /\ MaxID \in Nat /\ NoThread \notin Threads
  BY <1>1, RadixAssumption DEF Trees
<1>3. \A t \in Threads : pc[t] = "idle" /\ at[t] = Nowhere
  BY <1>1
<1>4. ControlTypes
  <2>1. RootID \in [1..k -> Nat] /\ Size \in [1..k -> Nat] /\ DOMAIN RootID = 1..k
    BY <1>1, <1>2
  <2>2. pc \in [Threads -> Labels] /\ at \in [Threads -> Places]
    BY <1>1, NowhereIsPlace DEF Labels
  <2> QED
    BY <1>2, <1>3, <2>1, <2>2 DEF ControlTypes
<1>5. NodeInv
  <2>1. Buf.node = Empty /\ Buf.changed = FALSE /\ DOMAIN storage = {}
    BY <1>1
  <2> QED
    BY <2>1, InitIInv, EmptyIsGood DEF NodeInv
<1>6. \A t \in Threads : ~Walks(t) /\ ~Peeks(t) /\ ~Writes(t)
  BY <1>3 DEF Walks, Walking, Peeks, Writes
<1>7. LockInv
  BY <1>1, <1>2, <1>6 DEF LockInv
<1>8. RoomInv
  <2>1. Busy = {}
    BY <1>3 DEF Busy
  <2>2. Cardinality(Busy) = 0
    BY <2>1, FS_EmptySet
  <2>3. (RealSize - 1) * 0 = 0
    BY <1>2
  <2>4. Pending = 0
    BY <2>2, <2>3 DEF Pending
  <2>5. \A t \in Threads : Spare(t) = 0
    BY <1>3, <1>6 DEF Spare
  <2> QED
    BY <1>1, <1>2, <2>4, <2>5 DEF RoomInv
<1>9. \A id : Stored(id) = Empty
  BY <1>1 DEF Stored, PtrOf, NoPtr
<1>10. Buf.node = Empty /\ BufOwner \in Nat /\ BufOwner < ID
  BY <1>1, <1>2
<1>11. BufferInv
  BY <1>9, <1>10 DEF BufferInv
<1>12. NodesGood(View) /\ \A id \in Nat : View[id] = Empty
  BY <1>5, <1>9, <1>10, ViewIs, ViewGood DEF ViewHas
<1>13. /\ Forest(View, RootID, 1..k, k) /\ Cardinality(ForestIds(View, RootID, 1..k)) = k
       /\ \A tree \in 1..k : \A key \in TokenKeys : ContentOf(View, RootID[tree], key) = None
  BY <1>1, <1>2, <1>12, FirstForest
<1>14. LiveTrees = 1..k
  BY <1>1, <1>3 DEF LiveTrees, Exists
<1>15. ForestInv
  BY <1>1, <1>13, <1>14 DEF ForestInv
<1>16. PlaceInv
  BY <1>3, <1>6 DEF PlaceInv, PlaceOf
<1>17. Knowledge!Init
  <2>1. /\ contents = [tree \in Trees |-> [key \in Keys |->
                     IF tree \in LiveTrees THEN ContentOf(View, RootID[tree], key) ELSE None]]
        /\ sizes = [tree \in Trees |-> IF tree \in LiveTrees THEN Size[tree] ELSE 0]
    BY <1>4, <1>12, MapsAreThat DEF MapsAre
  <2>2. \A key \in Keys : key \in TokenKeys
    BY RadixAssumption DEF TokenKeys
  <2>3. \A tree \in LiveTrees : Size[tree] = 0
    BY <1>1, <1>14
  <2>4. contents = [tree \in Trees |-> [key \in Keys |-> None]]
    BY <1>13, <1>14, <2>1, <2>2
  <2>5. sizes = [tree \in Trees |-> 0]
    BY <2>1, <2>3
  <2> QED
    BY <2>4, <2>5 DEF Knowledge!Init
<1> QED
  BY <1>4, <1>5, <1>7, <1>8, <1>11, <1>15, <1>16, <1>17 DEF RInv
-----------------------------------------------------------------------------
\* The maps that the trees are.

\* A step of the map, or none.
MapStep == Knowledge!Next \/ UNCHANGED <<contents, sizes>>

\* A quiet step does not change the maps.
LEMMA QuietMaps ==
  ASSUME ControlTypes, ControlTypes', NodeInv, NodeInv', Quiet
  PROVE  contents' = contents /\ sizes' = sizes
<1>1. MapsAre /\ MapsAre' /\ ViewInOrder /\ ViewInOrder'
  BY MapsAreThat, ViewOrdered, PTL
<1>2. NodesGood(View) /\ NodesGood(View)'
  BY <1>1 DEF ViewInOrder
<1>3. View' = View /\ LiveTrees' = LiveTrees /\ RootID' = RootID /\ Size' = Size
  BY DEF Quiet, trees
<1>4. /\ contents = [tree \in Trees |-> [key \in Keys |->
                     IF tree \in LiveTrees THEN ContentOf(View, RootID[tree], key) ELSE None]]
      /\ sizes = [tree \in Trees |-> IF tree \in LiveTrees THEN Size[tree] ELSE 0]
  BY <1>1, <1>2 DEF MapsAre
<1>5. /\ contents' = [tree \in Trees |-> [key \in Keys |->
                     IF tree \in LiveTrees' THEN ContentOf(View', RootID'[tree], key) ELSE None]]
      /\ sizes' = [tree \in Trees |-> IF tree \in LiveTrees' THEN Size'[tree] ELSE 0]
  BY <1>1, <1>2 DEF MapsAre
<1> QED
  BY <1>3, <1>4, <1>5

\* What a step of a thread that is alone does to the nodes and to the maps.
LEMMA StepDoes ==
  ASSUME ControlTypes, ControlTypes', NodeInv, BufferInv, ForestInv, ID <= MaxID,
         NEW t \in Threads, PlaceOf(t), Alone(t), Alone(t)', Steps(t)
  PROVE  NodeInv' /\ BufferInv' /\ ForestInv' /\ PlaceOf(t)' /\ MapStep
<1>1. CASE LooksOn(t)
  <2>1. NodeInv' /\ BufferInv' /\ Quiet
    BY <1>1, LooksOnView
  <2>2. ForestInv' /\ PlaceOf(t)'
    BY <1>1, <2>1, QuietKeeps, LooksOnPlace
  <2> QED
    BY <2>1, <2>2, QuietMaps DEF MapStep
<1>2. CASE \E tree \in DOMAIN RootID : DeleteRoot(t, tree)
  <2>1. PICK tree \in DOMAIN RootID : DeleteRoot(t, tree)
    BY <1>2
  <2>2. /\ NodeInv' /\ BufferInv' /\ ForestInv' /\ PlaceOf(t)'
        /\ contents' = [contents EXCEPT ![tree] = [key \in Keys |-> None]]
        /\ sizes' = [sizes EXCEPT ![tree] = 0]
    BY <2>1, RootDeleted
  <2>3. tree \in Trees
    BY DEF ControlTypes
  <2>4. Knowledge!Clear(tree)
    BY <2>2 DEF Knowledge!Clear
  <2> QED
    BY <2>2, <2>3, <2>4 DEF MapStep, Knowledge!Next
<1>3. CASE Recreate(t)
  BY <1>3, RootMade DEF MapStep
<1>4. CASE AddInner(t)
  <2>1. NodeInv' /\ BufferInv' /\ ForestInv' /\ PlaceOf(t)' /\ contents' = contents
    BY <1>4, InnerAdded
  <2>2. ViewInOrder /\ ViewInOrder' /\ MapsAre /\ MapsAre' /\ LiveAlone /\ LiveAlone'
    BY ViewOrdered, MapsAreThat, AloneLive, PTL
  <2>3. NodesGood(View) /\ NodesGood(View)'
    BY <2>1, <2>2 DEF ViewInOrder
  <2>4. LiveTrees' = LiveTrees /\ Size' = Size
    BY <1>4, <2>2 DEF AddInner, ControlTypes, LiveAlone, trees
  <2>5. sizes = [tree \in Trees |-> IF tree \in LiveTrees THEN Size[tree] ELSE 0]
    BY <2>2, <2>3 DEF MapsAre
  <2>6. sizes' = [tree \in Trees |-> IF tree \in LiveTrees' THEN Size'[tree] ELSE 0]
    BY <2>2, <2>3 DEF MapsAre
  <2>7. sizes' = sizes
    BY <2>4, <2>5, <2>6
  <2> QED
    BY <2>1, <2>7 DEF MapStep
<1>5. ASSUME pc[t] = "search"
      PROVE  at[t].tree \in Trees /\ at[t].key \in Keys /\ at[t].gates \in Gates
  BY <1>5 DEF PlaceOf, ControlTypes
<1>6. CASE AddLeaf(t)
  <2>1. /\ NodeInv' /\ BufferInv' /\ ForestInv' /\ PlaceOf(t)'
        /\ contents[at[t].tree][at[t].key] = None
        /\ contents' = [contents EXCEPT ![at[t].tree][at[t].key] = at[t].gates]
        /\ sizes' = [sizes EXCEPT ![at[t].tree] = @ + 1]
    BY <1>6, LeafAdded
  <2>2. Knowledge!Insert(at[t].tree, at[t].key, at[t].gates)
    BY <2>1 DEF Knowledge!Insert
  <2>3. pc[t] = "search"
    BY <1>6 DEF AddLeaf
  <2> QED
    BY <1>5, <2>1, <2>2, <2>3 DEF MapStep, Knowledge!Next
<1>7. CASE Update(t) /\ at[t].op = "ensure"
  <2>1. /\ NodeInv' /\ BufferInv' /\ ForestInv' /\ PlaceOf(t)'
        /\ contents[at[t].tree][at[t].key] # None
        /\ at[t].gates < contents[at[t].tree][at[t].key]
        /\ contents' = [contents EXCEPT ![at[t].tree][at[t].key] = at[t].gates]
        /\ sizes' = sizes
    BY <1>7, LeafUpdated
  <2>2. Knowledge!Improve(at[t].tree, at[t].key, at[t].gates)
    BY <2>1 DEF Knowledge!Improve
  <2>3. pc[t] = "search"
    BY <1>7 DEF Update
  <2> QED
    BY <1>5, <2>1, <2>2, <2>3 DEF MapStep, Knowledge!Next
<1> QED
  BY <1>1, <1>2, <1>3, <1>4, <1>6, <1>7 DEF Steps, LooksOn

\* Nothing changes when nothing happens.
LEMMA NothingChanges ==
  ASSUME RInv, UNCHANGED vars
  PROVE  RInv' /\ contents' = contents /\ sizes' = sizes
<1>1. UNCHANGED vectors /\ UNCHANGED <<trees, locks, clears, pc, at>>
  BY DEF vars
<1>2. /\ UNCHANGED <<ID, used, ptrs, storage, storage_size, holes, Buf, BufOwner>>
      /\ UNCHANGED <<RootID, Size, readers, writer, pc, at>>
  BY <1>1 DEF vectors, trees, locks
<1>3. ControlTypes' /\ LockInv' /\ RoomInv'
  BY <1>2 DEF RInv, ControlTypes, LockInv, Peeks, Writes, Walking, Walks, RoomInv, Pending, Busy,
              Spare, Alone
<1>4. NodeInv'
  <2>1. IInv'
    BY <1>1, VectorsKeep DEF RInv, NodeInv
  <2> QED
    BY <1>2, <2>1 DEF RInv, NodeInv
<1>5. \A id : Stored(id)' = Stored(id)
  BY <1>2 DEF Stored, PtrOf
<1>6. View' = View
  <2>1. \A id : NodeNow(id)' = NodeNow(id)
    BY <1>2, <1>5 DEF NodeNow
  <2> QED
    BY <2>1 DEF View
<1>7. BufferInv'
  BY <1>2, <1>5 DEF RInv, BufferInv, Settled
<1>8. Quiet
  <2>1. LiveTrees' = LiveTrees
    BY <1>2 DEF LiveTrees, Exists
  <2> QED
    BY <1>1, <1>2, <1>6, <2>1 DEF Quiet
<1>9. ForestInv'
  BY <1>8, QuietKeeps DEF RInv
<1>10. PlaceInv'
  BY <1>2, <1>5, <1>6 DEF RInv, PlaceInv, PlaceOf, Walks, Holds
<1>11. contents' = contents /\ sizes' = sizes
  BY <1>3, <1>4, <1>8, QuietMaps DEF RInv
<1> QED
  BY <1>3, <1>4, <1>7, <1>9, <1>10, <1>11 DEF RInv

\* Every step after which no two look-ups have overlapped keeps the trees in order,
\* and is one of the map or none.
LEMMA StepKeepsTrees ==
  ASSUME ~overlapped', RInv, [Next]_vars
  PROVE  RInv' /\ MapStep
<1>1. CASE UNCHANGED vars
  BY <1>1, NothingChanges DEF MapStep
<1>2. CASE Next
  <2>1. PICK t \in Threads : Steps(t)
    BY <1>2 DEF Next, Steps
  <2>2. Alone(t) /\ LocksOf(t)
    BY <2>1, StepperAlone DEF RInv
  <2>3. /\ ControlTypes' /\ Alone(t)'
        /\ \A u \in Threads : u # t => pc'[u] = pc[u] /\ at'[u] = at[u]
    BY <2>1, <2>2, StepKeepsTypes DEF RInv
  <2>4. LockInv'
    BY <2>1, <2>2, StepKeepsLocks DEF RInv
  <2>5. RoomInv'
    BY <2>1, <2>2, StepKeepsRoom DEF RInv
  <2>6. NodeInv' /\ BufferInv' /\ ForestInv' /\ PlaceOf(t)' /\ MapStep
    <3>1. ID <= MaxID /\ PlaceOf(t)
      BY DEF RInv, RoomInv, PlaceInv
    <3> QED
      BY <2>1, <2>2, <2>3, <3>1, StepDoes DEF RInv
  <2>7. ASSUME NEW u \in Threads, u # t
        PROVE  PlaceOf(u)'
    <3>1. pc'[u] = pc[u] /\ at'[u] = at[u] /\ pc[u] \in {"idle", "lock"}
      BY <2>2, <2>3, <2>7 DEF Alone
    <3>2. pc[u] \notin {"idle", "deleted"} => at[u].key \in Keys /\ at[u].gates \in Gates
      BY DEF RInv, PlaceInv, PlaceOf
    <3> QED
      BY <3>1, <3>2 DEF PlaceOf, Walks
  <2>8. PlaceInv'
    BY <2>6, <2>7 DEF PlaceInv
  <2> QED
    BY <2>3, <2>4, <2>5, <2>6, <2>8 DEF RInv
<1> QED
  BY <1>1, <1>2
-----------------------------------------------------------------------------
\* What follows from the invariant.

\* Once two look-ups have overlapped they have.
LEMMA OverlapStays ==
  ASSUME overlapped, [Next]_vars
  PROVE  overlapped'
<1>1. CASE UNCHANGED vars
  BY <1>1 DEF vars, locks
<1>2. CASE Next
  <2>1. PICK t \in Threads : Steps(t)
    BY <1>2 DEF Next, Steps
  <2>2. CASE \/ \E tree \in DOMAIN RootID : DeleteRoot(t, tree)
             \/ \E tree \in DOMAIN RootID, key \in Keys, gates \in Gates :
                  Offer(t, tree, key, gates)
    BY <2>2 DEF DeleteRoot, Offer
  <2>3. CASE Seek(t) \/ WriteBack(t) \/ TakeOver(t) \/ Load(t) \/ Descend(t) \/ Found(t)
    BY <2>3 DEF Seek, WriteBack, TakeOver, Load, Descend, Found, locks
  <2>4. CASE Peeked(t) \/ Lock(t) \/ RaceEvaded(t) \/ Store(t)
    BY <2>4 DEF Peeked, Lock, RaceEvaded, Store, Leave, locks
  <2>5. CASE Update(t) \/ AddLeaf(t) \/ AddInner(t) \/ Recreate(t)
    BY <2>5 DEF Update, AddLeaf, AddInner, Recreate, Leave, locks
  <2> QED
    BY <2>1, <2>2, <2>3, <2>4, <2>5 DEF Steps
<1> QED
  BY <1>1, <1>2

\* The invariant holds until two look-ups overlap.
BeforeOverlaps == ~overlapped => RInv

LEMMA NoOverlapYet == Spec => []BeforeOverlaps
<1>1. Init => BeforeOverlaps
  BY InitRInv DEF BeforeOverlaps
<1>2. BeforeOverlaps /\ [Next]_vars => BeforeOverlaps'
  BY StepKeepsTrees, OverlapStays DEF BeforeOverlaps
<1> QED
  BY <1>1, <1>2, PTL DEF Spec

\* A node in order is well-formed.
LEMMA GoodIsWellFormed ==
  ASSUME NEW node, GoodNode(node)
  PROVE  WellFormed(node)
<1>1. node.entries \in Seq(Entries) /\ DOMAIN node.entries = 1..Len(node.entries)
  BY DEF GoodNode, Sorted
<1>2. \A a, b \in DOMAIN node.entries :
        a < b => node.entries[a].token < node.entries[b].token
  BY <1>1 DEF GoodNode, Sorted
<1>3. ASSUME node.width > 0, NEW entry \in Range(node.entries)
      PROVE  entry.link < Power[node.width]
  <2>1. PICK n \in 1..Len(node.entries) : entry = node.entries[n]
    BY <1>1, RangeIs
  <2> QED
    BY <1>3, <2>1 DEF GoodNode
<1> QED
  BY <1>2, <1>3 DEF WellFormed

\* As long as no two look-ups have overlapped, every variable has its type, the
\* entries of a node are in order, and a link fits in the bytes its node has for
\* it (TypeOK).
THEOREM NodesWellFormed == Spec => []TypeOK
<1>1. BeforeOverlaps => TypeOK
  <2> SUFFICES ASSUME BeforeOverlaps, ~overlapped PROVE TypeOK
    BY DEF TypeOK
  <2> RInv
    BY DEF BeforeOverlaps
  <2>1. NodesGood(View) /\ ID \in Nat /\ ID <= MaxID /\ MaxID \in Nat
    BY ViewGood, RadixAssumption DEF RInv, NodeInv, IInv, RoomInv
  <2>2. used \in 0..ID
    BY <2>1, ForestCounts DEF RInv, ForestInv
  <2>3. BufOwner \in 0..MaxID
    BY <2>1 DEF RInv, BufferInv
  <2>4. /\ ID \in 0..MaxID /\ DOMAIN ptrs = 0..ID - 1 /\ Buf.changed \in BOOLEAN
        /\ WellFormed(Buf.node) /\ \A p \in DOMAIN storage : WellFormed(storage[p])
    BY <2>1, GoodIsWellFormed DEF RInv, NodeInv, IInv
  <2>5. \A tree \in DOMAIN RootID : RootID[tree] \in Nat /\ Size[tree] \in Nat
    BY DEF RInv, ControlTypes
  <2>6. /\ readers \subseteq Threads /\ writer \in Threads \cup {NoThread}
        /\ writer = NoThread \/ readers = {}
    BY DEF RInv, LockInv
  <2>7. \A t \in Threads :
          pc[t] \in {"idle", "read", "write", "own", "load", "search", "answer", "lock",
                     "deleted"}
    BY DEF RInv, ControlTypes, Labels
  <2> QED
    BY <2>2, <2>3, <2>4, <2>5, <2>6, <2>7 DEF TypeOK
<1> QED
  BY <1>1, NoOverlapYet, PTL

\* As long as no two look-ups have overlapped, the nodes that are not freed are
\* those of the trees, each of one tree only (UsedCountsNodes).
THEOREM NodesCounted == Spec => []UsedCountsNodes
<1>1. BeforeOverlaps => UsedCountsNodes
  <2> SUFFICES ASSUME BeforeOverlaps, ~overlapped, \A t \in Threads : pc[t] # "deleted"
               PROVE  /\ used = Cardinality(UNION {Nodes(tree) : tree \in DOMAIN RootID})
                      /\ \A a, b \in DOMAIN RootID : a # b => Nodes(a) \cap Nodes(b) = {}
    BY DEF UsedCountsNodes
  <2> RInv
    BY DEF BeforeOverlaps
  <2>1. LiveTrees = DOMAIN RootID
    BY DEF LiveTrees, Exists
  <2>2. NodesGood(View) /\ \A tree \in DOMAIN RootID : RootID[tree] \in Nat
    BY ViewGood DEF RInv, ControlTypes
  <2>3. \A tree \in DOMAIN RootID : Nodes(tree) = TreeIds(View, RootID[tree])
    BY <2>2, NodesAre
  <2>4. ForestIds(View, RootID, LiveTrees) = UNION {Nodes(tree) : tree \in DOMAIN RootID}
    BY <2>1, <2>3 DEF ForestIds
  <2>5. ASSUME NEW a \in DOMAIN RootID, NEW b \in DOMAIN RootID, a # b
        PROVE  Nodes(a) \cap Nodes(b) = {}
    <3> SUFFICES ASSUME NEW id \in Nodes(a), id \in Nodes(b) PROVE FALSE
      OBVIOUS
    <3>1. PICK m \in 1..RealSize : id \in Level(View, RootID[a], m)
      BY <2>3 DEF TreeIds
    <3>2. PICK n \in 1..RealSize : id \in Level(View, RootID[b], n)
      BY <2>3 DEF TreeIds
    <3> QED
      BY <2>1, <2>5, <3>1, <3>2 DEF RInv, ForestInv, Forest, LevelsApart
  <2> QED
    BY <2>4, <2>5 DEF RInv, ForestInv
<1> QED
  BY <1>1, NoOverlapYet, PTL

\* As long as no two look-ups have overlapped, find() answers with what the tree
\* holds for the key, through the buffer and the storage (FindTellsTheTruth).
THEOREM FindIsRight == Spec => []FindTellsTheTruth
<1>1. BeforeOverlaps => FindTellsTheTruth
  <2> SUFFICES ASSUME BeforeOverlaps, ~overlapped, NEW t \in Threads, pc[t] = "answer"
               PROVE  at[t].found = contents[at[t].tree][at[t].key]
    BY DEF FindTellsTheTruth
  <2> RInv
    BY DEF BeforeOverlaps
  <2>1. /\ at[t].tree \in DOMAIN RootID /\ at[t].tree \in Trees /\ at[t].key \in Keys
        /\ at[t].found = Holds(t)
    BY DEF RInv, ControlTypes, PlaceInv, PlaceOf
  <2>2. Alone(t)
    <3>1. Walking(t)
      BY DEF Walking
    <3>2. Peeks(t) \/ Writes(t)
      BY <3>1 DEF Peeks, Writes
    <3> QED
      BY <3>2, WorkerAlone DEF RInv, ControlTypes
  <2>3. at[t].tree \in LiveTrees
    BY <2>1, <2>2, AloneLive DEF LiveAlone
  <2>4. contents[at[t].tree][at[t].key] = ContentOf(View, RootID[at[t].tree], at[t].key)
    BY <2>1, <2>3, MapsAreThat, ViewGood DEF MapsAre, RInv
  <2> QED
    BY <2>1, <2>4 DEF Holds
<1> QED
  BY <1>1, NoOverlapYet, PTL

\* Until two look-ups overlap, the trees in their one storage are separate maps, in
\* which nothing changes but by a store of a smaller number of gates, or by
\* clear() (ImplementsMap).
THEOREM TreesAreMaps == Spec => ImplementsMap
<1>1. Init => Knowledge!Init
  BY InitRInv
<1>2. BeforeOverlaps /\ [Next]_vars => overlapped' \/ [Knowledge!Next]_(Knowledge!vars)
  BY StepKeepsTrees, OverlapStays DEF BeforeOverlaps, MapStep, Knowledge!vars
<1> QED
  BY <1>1, <1>2, NoOverlapYet, PTL DEF Spec, ImplementsMap
=============================================================================
