-------------------------- MODULE OutputOrderProofs --------------------------
(***************************************************************************)
(* The sort of OutputOrder makes canonical keys out of any number of       *)
(* outputs, as long as the words of the truth tables use less than half    *)
(* their range, which they do up to 4 inputs.  TLC shows that they do not  *)
(* if the words use all of it.                                             *)
(***************************************************************************)
EXTENDS OutputOrder, SharedFacts

NarrowWords == \A w \in WordValues : w < Half
-----------------------------------------------------------------------------
\* The order of the tables.

LEMMA WordType ==
  ASSUME NEW a \in Tables, NEW w \in 1..NumWords
  PROVE  a[w] \in WordValues /\ a[w] \in 0..2 * Half - 1 /\ a[w] \in Int
<1>1. a[w] \in WordValues
  BY DEF Tables
<1>2. WordValues \subseteq 0..2 * Half - 1
  BY WordsAssumption
<1>3. a[w] \in 0..2 * Half - 1
  BY <1>1, <1>2
<1> QED
  BY <1>1, <1>3

\* No table is above itself.
LEMMA AboveIrreflexive ==
  ASSUME NEW a \in Tables
  PROVE  ~ Above(a, a)
<1>1. \A w \in 1..NumWords : ~ (a[w] > a[w])
  BY WordType
<1> QED
  BY <1>1 DEF Above

\* No two tables are above each other.
LEMMA AboveAsymmetric ==
  ASSUME NEW a \in Tables, NEW b \in Tables, Above(a, b)
  PROVE  ~ Above(b, a)
<1> SUFFICES ASSUME Above(b, a)
             PROVE  FALSE
  OBVIOUS
<1>1. PICK w \in 1..NumWords : a[w] > b[w] /\ \A v \in w + 1..NumWords : a[v] = b[v]
  BY DEF Above
<1>2. PICK u \in 1..NumWords : b[u] > a[u] /\ \A v \in u + 1..NumWords : b[v] = a[v]
  BY DEF Above
<1>3. a[w] \in Int /\ b[w] \in Int /\ a[u] \in Int /\ b[u] \in Int
  BY WordType
<1>4. CASE w < u
  <2>1. a[u] = b[u]
    BY <1>1, <1>4
  <2> QED
    BY <1>2, <1>3, <2>1
<1>5. CASE u <= w
  <2>1. b[w] >= a[w]
    BY <1>2, <1>3, <1>5
  <2> QED
    BY <1>1, <1>3, <2>1
<1> QED
  BY <1>4, <1>5

\* The order of the tables is transitive.
LEMMA AboveTransitive ==
  ASSUME NEW a \in Tables, NEW b \in Tables, NEW c \in Tables, Above(a, b), Above(b, c)
  PROVE  Above(a, c)
<1>1. PICK w \in 1..NumWords : a[w] > b[w] /\ \A v \in w + 1..NumWords : a[v] = b[v]
  BY DEF Above
<1>2. PICK u \in 1..NumWords : b[u] > c[u] /\ \A v \in u + 1..NumWords : b[v] = c[v]
  BY DEF Above
<1>3. \A v \in 1..NumWords : a[v] \in Int /\ b[v] \in Int /\ c[v] \in Int
  BY WordType
<1>4. CASE w <= u
  <2>1. a[u] > c[u] /\ \A v \in u + 1..NumWords : a[v] = c[v]
    BY <1>1, <1>2, <1>3, <1>4, WordsAssumption
  <2> QED
    BY <2>1 DEF Above
<1>5. CASE u < w
  <2>1. a[w] > c[w] /\ \A v \in w + 1..NumWords : a[v] = c[v]
    BY <1>1, <1>2, <1>3, <1>5, WordsAssumption
  <2> QED
    BY <2>1 DEF Above
<1> QED
  BY <1>4, <1>5

\* The subtraction does not overflow if the words are narrow.
LEMMA DifferenceIsExact ==
  ASSUME NEW x \in 0..Half - 1, NEW y \in 0..Half - 1
  PROVE  Difference(x, y) = x - y
<1>1. CASE x >= y
  <2>1. (x - y) % (2 * Half) = x - y
    BY <1>1, WordsAssumption, SMT
  <2> QED
    BY <1>1, <2>1, WordsAssumption DEF Difference, Signed
<1>2. CASE x < y
  <2>1. (x - y) % (2 * Half) = x - y + 2 * Half
    BY <1>2, WordsAssumption, SMT
  <2> QED
    BY <1>2, <2>1, WordsAssumption DEF Difference, Signed
<1> QED
  BY <1>1, <1>2

\* comp tells the order of two tables.
LEMMA CompIsOrder ==
  ASSUME NarrowWords, NEW a \in Tables, NEW b \in Tables
  PROVE  /\ Comp(a, b) \in Int
         /\ Comp(a, b) = 0 => a = b
         /\ a = b => Comp(a, b) = 0
         /\ Comp(a, b) > 0 => Above(a, b)
         /\ Comp(a, b) < 0 => Above(b, a)
<1> DEFINE differ == {w \in 1..NumWords : Difference(a[w], b[w]) # 0}
<1>1. \A w \in 1..NumWords : a[w] \in 0..Half - 1 /\ b[w] \in 0..Half - 1
  BY WordType, WordsAssumption DEF NarrowWords
<1>2. \A w \in 1..NumWords : Difference(a[w], b[w]) = a[w] - b[w]
  BY <1>1, DifferenceIsExact
<1>3. \A w \in 1..NumWords : w \in differ <=> a[w] # b[w]
  BY <1>1, <1>2
<1>4. CASE differ = {}
  <2>1. Comp(a, b) = 0
    BY <1>4 DEF Comp
  <2>2. \A w \in 1..NumWords : a[w] = b[w]
    BY <1>3, <1>4
  <2>3. a = b
    <3>1. a \in [1..NumWords -> WordValues] /\ b \in [1..NumWords -> WordValues]
      BY DEF Tables
    <3> HIDE DEF differ
    <3>2. a = [w \in 1..NumWords |-> a[w]] /\ b = [w \in 1..NumWords |-> b[w]]
      BY <3>1
    <3>3. [w \in 1..NumWords |-> a[w]] = [w \in 1..NumWords |-> b[w]]
      BY <2>2
    <3> QED
      BY <3>2, <3>3
  <2> QED
    BY <2>1, <2>3
<1>5. CASE differ # {}
  <2>1. \E w \in differ : \A v \in differ : v <= w
    BY <1>5, LastExists, WordsAssumption
  <2> DEFINE top == CHOOSE w \in differ : \A v \in differ : v <= w
  <2>2. top \in differ /\ \A v \in differ : v <= top
    BY <2>1
  <2>3. Comp(a, b) = Difference(a[top], b[top])
    BY <1>5 DEF Comp
  <2> HIDE DEF top
  <2>4. top \in 1..NumWords /\ Comp(a, b) = a[top] - b[top] /\ a[top] # b[top]
    BY <1>2, <1>3, <2>2, <2>3
  <2> HIDE DEF differ
  <2>5. \A v \in top + 1..NumWords : a[v] = b[v]
    BY <1>3, <2>2, <2>4, WordsAssumption
  <2>6. a[top] \in Int /\ b[top] \in Int
    BY <1>1, <2>4, WordsAssumption
  <2>7. Comp(a, b) > 0 => Above(a, b)
    BY <2>4, <2>5, <2>6 DEF Above
  <2>8. Comp(a, b) < 0 => Above(b, a)
    BY <2>4, <2>5, <2>6 DEF Above
  <2> QED
    BY <2>4, <2>6, <2>7, <2>8
<1> QED
  BY <1>4, <1>5
-----------------------------------------------------------------------------
\* Types.

TypeInv ==
  /\ TypeOK
  /\ NumOutputs \in 1..MaxOutputs
  /\ pc = "done" <=> Len(keys) = 2

\* There is an output, and the order starts as the identity.
LEMMA NumOutputsType ==
  ASSUME TypeInv
  PROVE  NumOutputs \in Nat \ {0} /\ Identity \in [1..NumOutputs -> 1..NumOutputs]
BY WordsAssumption DEF TypeInv, Identity

\* What is left behind by the end of SaveOrIgnoreResult().
LEMMA ReturnType ==
  ASSUME TypeInv, pc # "done", NEW key \in {NoKey} \cup [1..NumOutputs -> Tables], Return(key)
  PROVE  /\ keys' \in Seq({NoKey} \cup [1..NumOutputs -> Tables])
         /\ Len(keys') = Len(keys) + 1 /\ Len(keys') \in 0..2
         /\ keys'[Len(keys')] = key
         /\ \A p \in 1..Len(keys) : keys'[p] = keys[p]
         /\ pc' \in {"next", "done"} /\ (pc' = "done" <=> Len(keys') = 2)
         /\ output_order' = Identity /\ i' = 1
<1>1. keys \in Seq({NoKey} \cup [1..NumOutputs -> Tables]) /\ Len(keys) \in 0..1
  BY DEF TypeInv, TypeOK
<1>2. keys' = Append(keys, key)
  BY DEF Return
<1>3. pc' = IF Len(keys) = 1 THEN "done" ELSE "next"
  BY <1>1 DEF Return, Now
<1>4. output_order' = Identity /\ i' = 1
  BY DEF Return
<1> QED
  BY <1>1, <1>2, <1>3, <1>4

\* The types hold at first.
LEMMA InitTypeInv == Init => TypeInv
<1> SUFFICES ASSUME Init
             PROVE  TypeInv
  OBVIOUS
<1>1. PICK n \in 1..MaxOutputs : \E s \in [1..n -> Tables], p \in Shuffles(n) :
        /\ results = <<s, Permuted(s, p)>>
        /\ output_order = [m \in 1..n |-> m]
  BY DEF Init
<1>2. PICK s \in [1..n -> Tables], p \in Shuffles(n) :
        /\ results = <<s, Permuted(s, p)>>
        /\ output_order = [m \in 1..n |-> m]
  BY <1>1
<1>3. n \in Nat \ {0} /\ Len(s) = n
  BY WordsAssumption
<1>4. NumOutputs = n
  BY <1>2, <1>3 DEF NumOutputs
<1>5. results[1] \in [1..n -> Tables] /\ results[2] \in [1..n -> Tables]
  BY <1>2, <1>3 DEF Shuffles, Permuted
<1>6. keys = << >> /\ i = 1 /\ j = 1 /\ tmp = 1 /\ pc = "next"
  BY DEF Init
<1> QED
  BY <1>1, <1>3, <1>4, <1>5, <1>6 DEF TypeInv, TypeOK

\* At most two networks are sorted.
LEMMA NowType ==
  ASSUME TypeInv, pc # "done"
  PROVE  Now \in 1..2 /\ Now = Len(keys) + 1 /\ Len(keys) \in Nat
<1> DEFINE l == Len(keys)
<1>1. l \in 0..1
  BY DEF TypeInv, TypeOK
<1>2. Now = l + 1
  BY DEF Now
<1> HIDE DEF l
<1>3. l + 1 \in 1..2 /\ l \in Nat
  BY <1>1
<1> QED
  BY <1>2, <1>3 DEF l

\* The tables do not change; the other variables keep their types one by one.
LEMMA TypeInvKept ==
  ASSUME TypeInv,
         results' = results,
         output_order' \in [1..NumOutputs -> 1..NumOutputs],
         i' \in 1..NumOutputs, j' \in 1..NumOutputs, tmp' \in 1..NumOutputs,
         pc' \in {"next", "compare", "done"},
         keys' \in Seq({NoKey} \cup [1..NumOutputs -> Tables]), Len(keys') \in 0..2,
         pc' = "done" <=> Len(keys') = 2
  PROVE  TypeInv'
<1>1. NumOutputs' = NumOutputs
  BY DEF NumOutputs
<1>2. \A p \in 1..2 : results'[p] \in [1..NumOutputs' -> Tables]
  BY <1>1 DEF TypeInv, TypeOK
<1>3. TypeOK'
  BY <1>1, <1>2 DEF TypeOK
<1> QED
  BY <1>1, <1>3 DEF TypeInv

\* Every step keeps the types.
LEMMA NextTypeInv == TypeInv /\ [Next]_vars => TypeInv'
<1> SUFFICES ASSUME TypeInv, [Next]_vars
             PROVE  TypeInv'
  OBVIOUS
<1>1. NumOutputs \in Nat \ {0}
  BY NumOutputsType
<1>2. /\ output_order \in [1..NumOutputs -> 1..NumOutputs]
      /\ i \in 1..NumOutputs /\ j \in 1..NumOutputs /\ tmp \in 1..NumOutputs
      /\ keys \in Seq({NoKey} \cup [1..NumOutputs -> Tables]) /\ Len(keys) \in 0..2
      /\ pc = "done" <=> Len(keys) = 2
      /\ pc \in {"next", "compare", "done"}
  BY DEF TypeInv, TypeOK
<1>3. ASSUME NEW key \in {NoKey} \cup [1..NumOutputs -> Tables], Return(key), pc # "done",
             results' = results, j' = j, tmp' = tmp
      PROVE  TypeInv'
  <2>1. 1 \in 1..NumOutputs
    BY <1>1
  <2>2. output_order' \in [1..NumOutputs -> 1..NumOutputs] /\ i' \in 1..NumOutputs
    BY <1>3, <2>1, ReturnType, NumOutputsType
  <2> QED
    BY <1>2, <1>3, <2>2, ReturnType, TypeInvKept
<1>4. CASE NextOutput
  <2>1. i + 1 \in 1..NumOutputs
    BY <1>1, <1>2, <1>4 DEF NextOutput
  <2> QED
    BY <1>2, <1>4, <2>1, TypeInvKept DEF NextOutput
<1>5. CASE MakeKey
  <2> DEFINE key == [n \in 1..NumOutputs |-> results[Now][output_order[n]]]
  <2> HIDE DEF key
  <2>0. pc = "next"
    BY <1>5 DEF MakeKey
  <2>1. Now \in 1..2
    BY <2>0, NowType
  <2>2. results[Now] \in [1..NumOutputs -> Tables]
    BY <2>1 DEF TypeInv, TypeOK
  <2>3. key \in [1..NumOutputs -> Tables]
    BY <1>2, <2>2 DEF key
  <2>4. Return(key) /\ pc # "done" /\ UNCHANGED <<results, j, tmp>>
    BY <1>5 DEF MakeKey, key
  <2> QED
    BY <1>3, <2>3, <2>4
<1>6. CASE Insert
  BY <1>2, <1>6, TypeInvKept DEF Insert
<1>7. CASE MoveUp
  <2>1. j - 1 \in 1..NumOutputs
    BY <1>1, <1>2, <1>7 DEF MoveUp
  <2>2. output_order' \in [1..NumOutputs -> 1..NumOutputs]
    BY <1>2, <1>7, <2>1 DEF MoveUp
  <2> QED
    BY <1>2, <1>7, <2>1, <2>2, TypeInvKept DEF MoveUp
<1>8. CASE Drop
  BY <1>3, <1>8 DEF Drop
<1>9. CASE UNCHANGED vars
  BY <1>2, <1>9, TypeInvKept DEF vars
<1> QED
  BY <1>4, <1>5, <1>6, <1>7, <1>8, <1>9 DEF Next, Finished

\* The loops of the sort stay within the array, whatever the words are
\* (nandcombinator.cc:272-291).
THEOREM TypeCorrect == Spec => []TypeOK
<1>1. Spec => []TypeInv
  BY InitTypeInv, NextTypeInv, PTL DEF Spec
<1>2. TypeInv => TypeOK
  BY DEF TypeInv
<1> QED
  BY <1>1, <1>2, PTL
-----------------------------------------------------------------------------
\* The sort.

\* The order that results if the output in hand is put down now.
Order == IF pc = "compare" THEN [output_order EXCEPT ![j] = tmp] ELSE output_order

Descends(order, places) == \A m, n \in places :
  m < n => Above(results[Now][order[m]], results[Now][order[n]])

\* Nothing is lost or doubled, and what has been sorted descends; if the output
\* in hand has moved up, it belongs above those that it passed.
SortInv ==
  /\ Order \in Shuffles(NumOutputs)
  /\ pc = "next" => Descends(output_order, 1..i)
  /\ pc = "compare" =>
       /\ j <= i
       /\ Descends(output_order, (1..i) \ {j})
       /\ \A n \in j + 1..i : Above(results[Now][tmp], results[Now][output_order[n]])

HasDuplicates(p) == \E m, n \in 1..NumOutputs : m # n /\ results[p][m] = results[p][n]

\* What SaveOrIgnoreResult() makes of the outputs of network p.
RightKey(key, p) ==
  \/ key = NoKey /\ HasDuplicates(p)
  \/ /\ key \in [1..NumOutputs -> Tables]
     /\ ~ HasDuplicates(p)
     /\ \A m, n \in 1..NumOutputs : m < n => Above(key[m], key[n])
     /\ \A n \in 1..NumOutputs : \E m \in 1..NumOutputs : key[n] = results[p][m]
     /\ \A m \in 1..NumOutputs : \E n \in 1..NumOutputs : key[n] = results[p][m]

KeysInv == \A p \in 1..Len(keys) : RightKey(keys[p], p)

\* Both networks offer the same tables.
OffersInv ==
  /\ \A m \in 1..NumOutputs : \E n \in 1..NumOutputs : results[1][n] = results[2][m]
  /\ \A m \in 1..NumOutputs : \E n \in 1..NumOutputs : results[2][n] = results[1][m]
  /\ HasDuplicates(1) <=> HasDuplicates(2)

IInv == TypeInv /\ SortInv /\ KeysInv

\* One output is sorted.
LEMMA InitSortInv == Init /\ TypeInv => SortInv /\ KeysInv
<1> SUFFICES ASSUME Init, TypeInv
             PROVE  SortInv /\ KeysInv
  OBVIOUS
<1>1. pc = "next" /\ i = 1 /\ keys = << >>
  BY DEF Init
<1>2. PICK n \in 1..MaxOutputs : \E s \in [1..n -> Tables], p \in Shuffles(n) :
        results = <<s, Permuted(s, p)>> /\ output_order = [m \in 1..n |-> m]
  BY DEF Init
<1>3. NumOutputs = n /\ output_order = [m \in 1..n |-> m]
  BY <1>2 DEF NumOutputs
<1>4. Order \in Shuffles(NumOutputs)
  BY <1>1, <1>3 DEF Order, Shuffles
<1>5. Descends(output_order, 1..1)
  BY DEF Descends
<1> QED
  BY <1>1, <1>4, <1>5 DEF SortInv, KeysInv

\* The place before one that is not the first.
LEMMA PlaceBefore ==
  ASSUME NEW n \in Nat, NEW k \in 1..n, k > 1
  PROVE  k - 1 \in 1..n
OBVIOUS

\* What the invariant says of the network that is being sorted.
LEMMA Facts ==
  ASSUME TypeInv, pc # "done"
  PROVE  /\ NumOutputs \in Nat \ {0} /\ Now \in 1..2 /\ Now = Len(keys) + 1
         /\ results[Now] \in [1..NumOutputs -> Tables]
         /\ \A n \in 1..NumOutputs : results[Now][n] \in Tables
         /\ output_order \in [1..NumOutputs -> 1..NumOutputs]
         /\ \A n \in 1..NumOutputs : output_order[n] \in 1..NumOutputs
         /\ i \in 1..NumOutputs /\ j \in 1..NumOutputs /\ tmp \in 1..NumOutputs
<1>2. Now \in 1..2 /\ Now = Len(keys) + 1
  BY NowType
<1>3. results[Now] \in [1..NumOutputs -> Tables]
  BY <1>2 DEF TypeInv, TypeOK
<1>4. output_order \in [1..NumOutputs -> 1..NumOutputs]
  BY DEF TypeInv, TypeOK
<1> QED
  BY <1>2, <1>3, <1>4, NumOutputsType DEF TypeInv, TypeOK

\* SaveOrIgnoreResult() ends: the next network is not sorted yet.
LEMMA AfterReturn ==
  ASSUME IInv, pc # "done", NEW key \in {NoKey} \cup [1..NumOutputs -> Tables], Return(key),
         results' = results, RightKey(key, Now)
  PROVE  SortInv' /\ KeysInv'
<1>1. NumOutputs' = NumOutputs
  BY DEF NumOutputs
<1>2. /\ Len(keys') = Len(keys) + 1 /\ keys'[Len(keys')] = key
      /\ \A p \in 1..Len(keys) : keys'[p] = keys[p]
      /\ pc' \in {"next", "done"} /\ output_order' = Identity /\ i' = 1
  BY ReturnType DEF IInv
<1>3. \A p : HasDuplicates(p)' <=> HasDuplicates(p)
  BY <1>1 DEF HasDuplicates
<1>5. KeysInv'
  <2> SUFFICES ASSUME NEW p \in 1..Len(keys')
               PROVE  (RightKey(keys[p], p))'
    BY DEF KeysInv
  <2>1. Len(keys) \in Nat /\ Now = Len(keys) + 1
    BY Facts DEF IInv
  <2>2. RightKey(keys'[p], p)
    <3>1. CASE p \in 1..Len(keys)
      BY <1>2, <3>1 DEF IInv, KeysInv
    <3>2. CASE p = Len(keys')
      BY <1>2, <2>1, <3>2
    <3> QED
      BY <1>2, <2>1, <3>1, <3>2
  <2> QED
    BY <1>1, <1>3, <2>2 DEF RightKey
<1>6. Order' = Identity
  BY <1>2 DEF Order
<1>7. Identity \in Shuffles(NumOutputs)
  BY DEF Identity, Shuffles
<1>8. Descends(output_order, 1..1)'
  BY DEF Descends
<1> QED
  BY <1>1, <1>2, <1>5, <1>6, <1>7, <1>8 DEF SortInv

\* A step within the sort leaves the keys and the tables alone.
LEMMA WithinSort ==
  ASSUME KeysInv, keys' = keys, results' = results
  PROVE  KeysInv' /\ NumOutputs' = NumOutputs /\ Now' = Now
<1>1. NumOutputs' = NumOutputs /\ Now' = Now
  BY DEF NumOutputs, Now
<1>2. \A p : HasDuplicates(p)' <=> HasDuplicates(p)
  BY <1>1 DEF HasDuplicates
<1>4. KeysInv'
  <2> SUFFICES ASSUME NEW p \in 1..Len(keys)
               PROVE  (RightKey(keys[p], p))'
    BY DEF KeysInv
  <2>1. RightKey(keys[p], p)
    BY DEF KeysInv
  <2> QED
    BY <1>1, <1>2, <2>1 DEF RightKey
<1> QED
  BY <1>1, <1>4

\* The next output is taken up.
LEMMA NextOutputSorts == IInv /\ NextOutput => SortInv' /\ KeysInv'
<1> SUFFICES ASSUME IInv, NextOutput
             PROVE  SortInv' /\ KeysInv'
  OBVIOUS
<1>1. /\ pc = "next" /\ i < NumOutputs /\ i' = i + 1 /\ j' = i + 1
      /\ tmp' = output_order[i + 1] /\ pc' = "compare" /\ UNCHANGED <<results, output_order, keys>>
  BY DEF NextOutput
<1>2. KeysInv' /\ NumOutputs' = NumOutputs /\ Now' = Now
  BY <1>1, WithinSort DEF IInv
<1>3. i \in 1..NumOutputs /\ NumOutputs \in Nat /\ output_order \in [1..NumOutputs -> 1..NumOutputs]
  BY <1>1, Facts DEF IInv
<1>4. Order' = Order
  <2>1. [output_order EXCEPT ![i + 1] = output_order[i + 1]] = output_order
    BY <1>3
  <2> QED
    BY <1>1, <2>1 DEF Order
<1>5. (1..i') \ {j'} = 1..i /\ j' + 1..i' = {} /\ j' <= i'
  <2>1. (1..i + 1) \ {i + 1} = 1..i /\ (i + 1) + 1..i + 1 = {} /\ i + 1 <= i + 1
    BY <1>3
  <2> QED
    BY <1>1, <2>1
<1>6. Descends(output_order, 1..i)
  BY <1>1 DEF IInv, SortInv
<1>7. Descends(output_order, (1..i) \ {j})'
  BY <1>1, <1>2, <1>5, <1>6 DEF Descends
<1> QED
  BY <1>1, <1>2, <1>4, <1>5, <1>7 DEF IInv, SortInv

\* The output in hand belongs below the one before it.
LEMMA InsertSorts == NarrowWords /\ IInv /\ Insert => SortInv' /\ KeysInv'
<1> SUFFICES ASSUME NarrowWords, IInv, Insert
             PROVE  SortInv' /\ KeysInv'
  OBVIOUS
<1>1. /\ pc = "compare" /\ (j = 1 \/ CompareNow > 0)
      /\ output_order' = [output_order EXCEPT ![j] = tmp]
      /\ pc' = "next" /\ UNCHANGED <<results, i, j, tmp, keys>>
  BY DEF Insert
<1>2. KeysInv' /\ NumOutputs' = NumOutputs /\ Now' = Now
  BY <1>1, WithinSort DEF IInv
<1>3. /\ NumOutputs \in Nat /\ i \in 1..NumOutputs /\ j \in 1..NumOutputs /\ tmp \in 1..NumOutputs
      /\ \A n \in 1..NumOutputs : output_order[n] \in 1..NumOutputs
      /\ \A n \in 1..NumOutputs : results[Now][n] \in Tables
      /\ output_order \in [1..NumOutputs -> 1..NumOutputs]
  BY <1>1, Facts DEF IInv
<1>4. /\ j <= i
      /\ Descends(output_order, (1..i) \ {j})
      /\ \A n \in j + 1..i : Above(results[Now][tmp], results[Now][output_order[n]])
  BY <1>1 DEF IInv, SortInv
<1>5. Order' = Order
  BY <1>1 DEF Order
<1>6. ASSUME j > 1
      PROVE  Above(results[Now][output_order[j - 1]], results[Now][tmp])
  <2>1. j - 1 \in 1..NumOutputs
    BY <1>3, <1>6, PlaceBefore
  <2>2. CompareNow > 0
    BY <1>1, <1>6
  <2>3. results[Now][output_order[j - 1]] \in Tables /\ results[Now][tmp] \in Tables
    BY <1>3, <2>1
  <2> QED
    BY <2>2, <2>3, CompIsOrder DEF CompareNow
<1>7. ASSUME NEW m \in 1..i, m < j
      PROVE  Above(results[Now][output_order[m]], results[Now][tmp])
  <2>1. j - 1 \in (1..i) \ {j} /\ m \in (1..i) \ {j} /\ j > 1
    BY <1>3, <1>4, <1>7
  <2>2. CASE m = j - 1
    BY <1>6, <2>1, <2>2
  <2>3. CASE m # j - 1
    <3>1. Above(results[Now][output_order[m]], results[Now][output_order[j - 1]])
      BY <1>3, <1>4, <1>7, <2>1, <2>3 DEF Descends
    <3>2. m \in 1..NumOutputs /\ j - 1 \in 1..NumOutputs
      BY <1>3, <2>1
    <3> HIDE DEF Above
    <3> QED
      BY <1>3, <1>6, <2>1, <3>1, <3>2, AboveTransitive
  <2> QED
    BY <2>2, <2>3
<1>8. ASSUME NEW m \in 1..i, NEW n \in 1..i, m < n
      PROVE  Above(results[Now][output_order'[m]], results[Now][output_order'[n]])
  <2>1. /\ output_order'[j] = tmp
        /\ \A k \in (1..i) \ {j} : output_order'[k] = output_order[k]
    BY <1>1, <1>3
  <2>2. CASE m = j
    <3>1. n \in j + 1..i /\ n \in (1..i) \ {j}
      BY <1>3, <1>8, <2>2
    <3> QED
      BY <1>4, <2>1, <2>2, <3>1
  <2>3. CASE n = j
    BY <1>7, <1>8, <2>1, <2>3
  <2>4. CASE m # j /\ n # j
    BY <1>4, <1>8, <2>1, <2>4 DEF Descends
  <2> QED
    BY <2>2, <2>3, <2>4
<1>9. Descends(output_order, 1..i)'
  BY <1>1, <1>2, <1>8 DEF Descends
<1> QED
  BY <1>1, <1>2, <1>5, <1>9 DEF IInv, SortInv

\* The output in hand belongs above the one before it.
LEMMA MoveUpSorts == NarrowWords /\ IInv /\ MoveUp => SortInv' /\ KeysInv'
<1> SUFFICES ASSUME NarrowWords, IInv, MoveUp
             PROVE  SortInv' /\ KeysInv'
  OBVIOUS
<1>1. /\ pc = "compare" /\ j > 1 /\ CompareNow < 0
      /\ output_order' = [output_order EXCEPT ![j] = output_order[j - 1]]
      /\ j' = j - 1 /\ UNCHANGED <<results, i, tmp, pc, keys>>
  BY DEF MoveUp
<1>2. KeysInv' /\ NumOutputs' = NumOutputs /\ Now' = Now
  BY <1>1, WithinSort DEF IInv
<1>3. /\ NumOutputs \in Nat /\ i \in 1..NumOutputs /\ j \in 1..NumOutputs /\ tmp \in 1..NumOutputs
      /\ \A n \in 1..NumOutputs : output_order[n] \in 1..NumOutputs
      /\ \A n \in 1..NumOutputs : results[Now][n] \in Tables
      /\ output_order \in [1..NumOutputs -> 1..NumOutputs]
  BY <1>1, Facts DEF IInv
<1>4. /\ j <= i
      /\ Descends(output_order, (1..i) \ {j})
      /\ \A n \in j + 1..i : Above(results[Now][tmp], results[Now][output_order[n]])
      /\ Order \in Shuffles(NumOutputs)
  BY <1>1 DEF IInv, SortInv
<1>5. j - 1 \in 1..NumOutputs
  BY <1>1, <1>3, PlaceBefore
<1>6. /\ output_order'[j] = output_order[j - 1]
      /\ \A k \in (1..NumOutputs) \ {j} : output_order'[k] = output_order[k]
      /\ output_order' \in [1..NumOutputs -> 1..NumOutputs]
  BY <1>1, <1>3, <1>5
<1>7. Above(results[Now][tmp], results[Now][output_order[j - 1]])
  BY <1>1, <1>3, <1>5, CompIsOrder DEF CompareNow
<1>8. \A n \in j' + 1..i : Above(results[Now][tmp], results[Now][output_order'[n]])
  <2> TAKE n \in j' + 1..i
  <2>1. CASE n = j
    BY <1>6, <1>7, <2>1
  <2>2. CASE n # j
    <3>1. n \in j + 1..i /\ n \in (1..NumOutputs) \ {j}
      BY <1>1, <1>3, <2>2
    <3> QED
      BY <1>4, <1>6, <3>1
  <2> QED
    BY <2>1, <2>2
<1>9. ASSUME NEW m \in (1..i) \ {j'}, NEW n \in (1..i) \ {j'}, m < n
      PROVE  Above(results[Now][output_order'[m]], results[Now][output_order'[n]])
  <2>1. i \in Nat /\ i <= NumOutputs /\ j \in Nat /\ j > 1 /\ j <= i
    BY <1>1, <1>3, <1>4
  <2>2. m \in 1..NumOutputs /\ n \in 1..NumOutputs
    BY <1>3, <1>9, <2>1
  <2>3. j - 1 \in (1..i) \ {j}
    BY <2>1
  <2>4. m \in 1..NumOutputs /\ n \in 1..NumOutputs /\ j - 1 \in (1..i) \ {j}
    BY <2>2, <2>3
  <2>5. CASE m = j
    <3>1. n \in (1..i) \ {j} /\ j - 1 < n
      BY <1>3, <1>9, <2>5
    <3> QED
      BY <1>4, <1>6, <2>4, <2>5, <3>1 DEF Descends
  <2>6. CASE n = j
    <3>1. m \in (1..i) \ {j} /\ m < j - 1
      BY <1>1, <1>3, <1>9, <2>6
    <3> QED
      BY <1>4, <1>6, <2>4, <2>6, <3>1 DEF Descends
  <2>7. CASE m # j /\ n # j
    BY <1>4, <1>6, <1>9, <2>4, <2>7 DEF Descends
  <2> QED
    BY <2>5, <2>6, <2>7
<1>10. Descends(output_order, (1..i) \ {j})'
  BY <1>1, <1>2, <1>9 DEF Descends
<1>11. Order' \in Shuffles(NumOutputs)
  <2>1. Order = [output_order EXCEPT ![j] = tmp]
    BY <1>1 DEF Order
  <2>2. Order' = [output_order' EXCEPT ![j - 1] = tmp]
    BY <1>1 DEF Order
  <2>3. /\ Order' \in [1..NumOutputs -> 1..NumOutputs]
        /\ Order'[j - 1] = Order[j] /\ Order'[j] = Order[j - 1]
        /\ \A k \in (1..NumOutputs) \ {j - 1, j} : Order'[k] = Order[k]
    BY <1>3, <1>5, <1>6, <2>1, <2>2
  <2>4. \A a, b \in 1..NumOutputs : Order[a] = Order[b] => a = b
    BY <1>4 DEF Shuffles
  <2> HIDE DEF Order
  <2>5. ASSUME NEW a \in 1..NumOutputs, NEW b \in 1..NumOutputs, Order'[a] = Order'[b]
        PROVE  a = b
    <3> DEFINE Old(k) == IF k = j THEN j - 1 ELSE IF k = j - 1 THEN j ELSE k
    <3>1. \A k \in 1..NumOutputs : Old(k) \in 1..NumOutputs /\ Order'[k] = Order[Old(k)]
      BY <1>3, <1>5, <2>3
    <3>2. Old(a) = Old(b)
      BY <2>4, <2>5, <3>1
    <3> QED
      BY <1>3, <3>2
  <2> QED
    BY <2>3, <2>5 DEF Shuffles
<1> QED
  BY <1>1, <1>2, <1>3, <1>4, <1>5, <1>8, <1>10, <1>11 DEF SortInv

\* All outputs are sorted.
LEMMA MakeKeySorts == IInv /\ MakeKey => SortInv' /\ KeysInv'
<1> SUFFICES ASSUME IInv, MakeKey
             PROVE  SortInv' /\ KeysInv'
  OBVIOUS
<1> DEFINE key == [n \in 1..NumOutputs |-> results[Now][output_order[n]]]
<1>1. pc = "next" /\ i = NumOutputs /\ Return(key) /\ results' = results
  BY DEF MakeKey
<1>2. /\ NumOutputs \in Nat
      /\ \A n \in 1..NumOutputs : output_order[n] \in 1..NumOutputs
      /\ \A n \in 1..NumOutputs : results[Now][n] \in Tables
      /\ output_order \in [1..NumOutputs -> 1..NumOutputs]
  BY <1>1, Facts DEF IInv
<1>3. output_order \in Shuffles(NumOutputs) /\ Descends(output_order, 1..NumOutputs)
  BY <1>1 DEF IInv, SortInv, Order
<1>4. \A m \in 1..NumOutputs : \E n \in 1..NumOutputs : output_order[n] = m
  BY <1>2, <1>3, InjectionMeetsAll DEF Shuffles
<1>5. key \in [1..NumOutputs -> Tables]
  BY <1>2
<1>6. \A n \in 1..NumOutputs : key[n] = results[Now][output_order[n]]
  OBVIOUS
<1> HIDE DEF key
<1>7. \A m, n \in 1..NumOutputs : m < n => Above(key[m], key[n])
  BY <1>3, <1>6 DEF Descends
<1>8. ~ HasDuplicates(Now)
  <2> SUFFICES ASSUME NEW m \in 1..NumOutputs, NEW n \in 1..NumOutputs,
                      m # n, results[Now][m] = results[Now][n]
               PROVE  FALSE
    BY DEF HasDuplicates
  <2>1. PICK a \in 1..NumOutputs : output_order[a] = m
    BY <1>4
  <2>2. PICK b \in 1..NumOutputs : output_order[b] = n
    BY <1>4
  <2>3. a # b /\ key[a] = key[b]
    BY <1>6, <2>1, <2>2
  <2>4. Above(key[a], key[b]) \/ Above(key[b], key[a])
    BY <1>2, <1>7, <2>3
  <2>5. key[a] \in Tables
    BY <1>5
  <2> QED
    BY <2>3, <2>4, <2>5, AboveIrreflexive
<1>9. RightKey(key, Now)
  <2>1. \A n \in 1..NumOutputs : \E m \in 1..NumOutputs : key[n] = results[Now][m]
    BY <1>2, <1>6
  <2>2. \A m \in 1..NumOutputs : \E n \in 1..NumOutputs : key[n] = results[Now][m]
    BY <1>4, <1>6
  <2> QED
    BY <1>5, <1>7, <1>8, <2>1, <2>2 DEF RightKey
<1> QED
  BY <1>1, <1>5, <1>9, AfterReturn

\* The output in hand equals the one before it.
LEMMA DropSorts == NarrowWords /\ IInv /\ Drop => SortInv' /\ KeysInv'
<1> SUFFICES ASSUME NarrowWords, IInv, Drop
             PROVE  SortInv' /\ KeysInv'
  OBVIOUS
<1>1. pc = "compare" /\ j > 1 /\ CompareNow = 0 /\ Return(NoKey) /\ results' = results
  BY DEF Drop
<1>2. /\ NumOutputs \in Nat /\ j \in 1..NumOutputs /\ tmp \in 1..NumOutputs
      /\ \A n \in 1..NumOutputs : output_order[n] \in 1..NumOutputs
      /\ \A n \in 1..NumOutputs : results[Now][n] \in Tables
      /\ output_order \in [1..NumOutputs -> 1..NumOutputs]
  BY <1>1, Facts DEF IInv
<1>3. j - 1 \in 1..NumOutputs
  BY <1>1, <1>2, PlaceBefore
<1>4. results[Now][output_order[j - 1]] = results[Now][tmp]
  <2>1. results[Now][output_order[j - 1]] \in Tables /\ results[Now][tmp] \in Tables
    BY <1>2, <1>3
  <2> QED
    BY <1>1, <2>1, CompIsOrder DEF CompareNow
<1>5. output_order[j - 1] # tmp
  <2>1. Order = [output_order EXCEPT ![j] = tmp] /\ Order \in Shuffles(NumOutputs)
    BY <1>1 DEF Order, IInv, SortInv
  <2>2. Order[j] = tmp /\ Order[j - 1] = output_order[j - 1] /\ j # j - 1
    BY <1>2, <1>3, <2>1
  <2>3. \A a, b \in 1..NumOutputs : Order[a] = Order[b] => a = b
    BY <2>1 DEF Shuffles
  <2> QED
    BY <1>2, <1>3, <2>2, <2>3
<1>6. RightKey(NoKey, Now)
  BY <1>2, <1>3, <1>4, <1>5 DEF RightKey, HasDuplicates
<1> QED
  BY <1>1, <1>6, AfterReturn

\* The types, the state of the sort and the keys made so far are right in every
\* state (nandcombinator.cc:253-343).
THEOREM Invariance ==
  ASSUME NarrowWords
  PROVE  Spec => []IInv
<1>1. Init => IInv
  BY InitTypeInv, InitSortInv DEF IInv
<1>2. IInv /\ [Next]_vars => IInv'
  <2> SUFFICES ASSUME IInv, [Next]_vars
               PROVE  SortInv' /\ KeysInv'
    BY NextTypeInv DEF IInv
  <2>1. CASE UNCHANGED vars
    <3>1. UNCHANGED <<results, output_order, i, j, tmp, pc, keys>>
      BY <2>1 DEF vars
    <3>2. KeysInv' /\ NumOutputs' = NumOutputs /\ Now' = Now
      BY <3>1, WithinSort DEF IInv
    <3>3. Order' = Order
      BY <3>1 DEF Order
    <3> QED
      BY <3>1, <3>2, <3>3 DEF IInv, SortInv, Descends
  <2> QED
    BY <2>1, NextOutputSorts, MakeKeySorts, InsertSorts, MoveUpSorts, DropSorts DEF Next, Finished
<1> QED
  BY <1>1, <1>2, PTL DEF Spec
-----------------------------------------------------------------------------
\* The keys.

\* The search key lists the tables in descending order, as Parser::Analyze()
\* does when it looks a key up (nandcombinator.cc:272-291, parser.php:237-246).
THEOREM KeysAreAsParsed ==
  ASSUME NarrowWords
  PROVE  Spec => []KeyAsParsed
<1>1. IInv => KeyAsParsed
  <2> SUFFICES ASSUME IInv, NEW p \in 1..Len(keys), keys[p] # NoKey
               PROVE  /\ \A n \in 1..NumOutputs - 1 : Above(keys[p][n], keys[p][n + 1])
                      /\ {keys[p][n] : n \in 1..NumOutputs} = {results[p][n] : n \in 1..NumOutputs}
    BY DEF KeyAsParsed
  <2>1. RightKey(keys[p], p) /\ NumOutputs \in Nat
    BY NumOutputsType DEF IInv, KeysInv
  <2>2. /\ \A m, n \in 1..NumOutputs : m < n => Above(keys[p][m], keys[p][n])
        /\ \A n \in 1..NumOutputs : \E m \in 1..NumOutputs : keys[p][n] = results[p][m]
        /\ \A m \in 1..NumOutputs : \E n \in 1..NumOutputs : keys[p][n] = results[p][m]
    BY <2>1 DEF RightKey
  <2>3. \A n \in 1..NumOutputs - 1 : Above(keys[p][n], keys[p][n + 1])
    <3> TAKE n \in 1..NumOutputs - 1
    <3>1. n \in 1..NumOutputs /\ n + 1 \in 1..NumOutputs /\ n < n + 1
      BY <2>1
    <3> QED
      BY <2>2, <3>1
  <2> DEFINE listed  == {keys[p][n] : n \in 1..NumOutputs}
             offered == {results[p][n] : n \in 1..NumOutputs}
  <2>4. listed = offered
    <3>1. ASSUME NEW x \in listed
          PROVE  x \in offered
      <4>1. PICK n \in 1..NumOutputs : x = keys[p][n]
        OBVIOUS
      <4> QED
        BY <2>2, <4>1
    <3>2. ASSUME NEW x \in offered
          PROVE  x \in listed
      <4>1. PICK m \in 1..NumOutputs : x = results[p][m]
        OBVIOUS
      <4>2. PICK n \in 1..NumOutputs : keys[p][n] = results[p][m]
        BY <2>2
      <4> QED
        BY <4>1, <4>2
    <3> QED
      BY <3>1, <3>2
  <2> QED
    BY <2>3, <2>4
<1> QED
  BY <1>1, Invariance, PTL

\* A combination is dropped if two of its outputs are equal, and only then
\* (nandcombinator.cc:285-286).
THEOREM DuplicatesAreDiscarded ==
  ASSUME NarrowWords
  PROVE  Spec => []DuplicatesDiscarded
<1>1. IInv => DuplicatesDiscarded
  <2> SUFFICES ASSUME IInv, NEW p \in 1..Len(keys)
               PROVE  keys[p] = NoKey <=> HasDuplicates(p)
    BY DEF DuplicatesDiscarded, HasDuplicates
  <2>1. RightKey(keys[p], p) /\ NumOutputs \in 1..MaxOutputs
    BY DEF IInv, TypeInv, KeysInv
  <2>2. NoKey \notin [1..NumOutputs -> Tables]
    BY <2>1, WordsAssumption
  <2> QED
    BY <2>1, <2>2 DEF RightKey
<1> QED
  BY <1>1, Invariance, PTL

\* Two descending lists of the same tables are equal: at the first place where
\* they differ, each would have to be above the other.
LEMMA DescendingListsAgree ==
  ASSUME NEW n \in Nat, NEW f \in [1..n -> Tables], NEW g \in [1..n -> Tables],
         \A a, b \in 1..n : a < b => Above(f[a], f[b]) /\ Above(g[a], g[b]),
         \A a \in 1..n : \E b \in 1..n : f[a] = g[b],
         \A a \in 1..n : \E b \in 1..n : g[a] = f[b]
  PROVE  f = g
<1> DEFINE differ == {a \in 1..n : f[a] # g[a]}
<1>1. SUFFICES ASSUME differ # {}
               PROVE  FALSE
  <2>1. \A a \in 1..n : f[a] = g[a]
    BY <1>1
  <2> QED
    BY <2>1
<1>2. differ \subseteq Nat
  OBVIOUS
<1> HIDE DEF differ
<1>3. PICK a \in differ : \A b \in differ : a <= b
  BY <1>1, <1>2, LeastExists
<1>4. a \in 1..n /\ f[a] # g[a] /\ \A b \in 1..n : b < a => f[b] = g[b]
  BY <1>3 DEF differ
<1>5. f[a] \in Tables /\ g[a] \in Tables
  BY <1>4
<1>6. PICK b \in 1..n : f[a] = g[b]
  BY <1>4
<1>7. PICK c \in 1..n : g[a] = f[c]
  BY <1>4
<1>8. a < b
  <2>1. ~ (b < a)
    <3> SUFFICES ASSUME b < a
                 PROVE  FALSE
      BY <1>4
    <3>1. f[b] = f[a] /\ Above(f[b], f[a])
      BY <1>4, <1>6
    <3> QED
      BY <1>5, <3>1, AboveIrreflexive
  <2> QED
    BY <1>4, <1>6, <2>1
<1>9. a < c
  <2>1. ~ (c < a)
    <3> SUFFICES ASSUME c < a
                 PROVE  FALSE
      BY <1>4
    <3>1. g[c] = g[a] /\ Above(g[c], g[a])
      BY <1>4, <1>7
    <3> QED
      BY <1>5, <3>1, AboveIrreflexive
  <2> QED
    BY <1>4, <1>7, <2>1
<1>10. Above(g[a], f[a]) /\ Above(f[a], g[a])
  BY <1>4, <1>6, <1>7, <1>8, <1>9
<1> QED
  BY <1>5, <1>10, AboveAsymmetric

\* A permutation offers the same tables.
LEMMA InitOffersInv == Init => OffersInv
<1> SUFFICES ASSUME Init
             PROVE  OffersInv
  OBVIOUS
<1>1. PICK n \in 1..MaxOutputs : \E s \in [1..n -> Tables], p \in Shuffles(n) :
        results = <<s, Permuted(s, p)>> /\ output_order = [m \in 1..n |-> m]
  BY DEF Init
<1>2. PICK s \in [1..n -> Tables], p \in Shuffles(n) : results = <<s, Permuted(s, p)>>
  BY <1>1
<1>3. NumOutputs = n /\ n \in Nat
  BY <1>2 DEF NumOutputs
<1>4. p \in [1..n -> 1..n] /\ \A a, b \in 1..n : p[a] = p[b] => a = b
  BY DEF Shuffles
<1>5. \A m \in 1..n : \E a \in 1..n : p[a] = m
  BY <1>3, <1>4, InjectionMeetsAll
<1>6. \A m \in 1..n : results[2][m] = results[1][p[m]] /\ p[m] \in 1..n
  BY <1>2, <1>3, <1>4 DEF Permuted
<1>7. HasDuplicates(1) => HasDuplicates(2)
  <2> SUFFICES ASSUME NEW k \in 1..n, NEW m \in 1..n, k # m, results[1][k] = results[1][m]
               PROVE  HasDuplicates(2)
    BY <1>3 DEF HasDuplicates
  <2>1. PICK a \in 1..n : p[a] = k
    BY <1>5
  <2>2. PICK b \in 1..n : p[b] = m
    BY <1>5
  <2> QED
    BY <1>3, <1>6, <2>1, <2>2 DEF HasDuplicates
<1>8. HasDuplicates(2) => HasDuplicates(1)
  <2> SUFFICES ASSUME NEW k \in 1..n, NEW m \in 1..n, k # m, results[2][k] = results[2][m]
               PROVE  HasDuplicates(1)
    BY <1>3 DEF HasDuplicates
  <2>1. p[k] # p[m] /\ p[k] \in 1..n /\ p[m] \in 1..n
    BY <1>4
  <2>2. results[1][p[k]] = results[1][p[m]]
    BY <1>6
  <2> QED
    BY <1>3, <2>1, <2>2 DEF HasDuplicates
<1>9. \A m \in 1..n : \E a \in 1..n : results[1][a] = results[2][m]
  BY <1>6
<1>10. \A m \in 1..n : \E a \in 1..n : results[2][a] = results[1][m]
  <2> TAKE m \in 1..n
  <2>1. PICK a \in 1..n : p[a] = m
    BY <1>5
  <2>2. results[2][a] = results[1][m]
    BY <1>6, <2>1
  <2> QED
    BY <2>2
<1> QED
  BY <1>3, <1>7, <1>8, <1>9, <1>10 DEF OffersInv

\* The key does not depend on the order in which a network offers the tables:
\* different permutations are only computed once (nandcombinator.cc:256).
THEOREM KeysAgree ==
  ASSUME NarrowWords
  PROVE  Spec => []SameKey
<1>1. Init => OffersInv
  BY InitOffersInv
<1>2. OffersInv /\ [Next]_vars => OffersInv'
  <2> SUFFICES ASSUME OffersInv, [Next]_vars
               PROVE  OffersInv'
    OBVIOUS
  <2>1. results' = results
    BY DEF Next, vars, NextOutput, MakeKey, Insert, MoveUp, Drop, Finished
  <2>2. NumOutputs' = NumOutputs
    BY <2>1 DEF NumOutputs
  <2> QED
    BY <2>1, <2>2 DEF OffersInv, HasDuplicates
<1>3. IInv /\ OffersInv => SameKey
  <2> SUFFICES ASSUME IInv, OffersInv, pc = "done"
               PROVE  keys[1] = keys[2]
    BY DEF SameKey
  <2>1. Len(keys) = 2 /\ NumOutputs \in Nat
    BY NumOutputsType DEF IInv, TypeInv
  <2>2. RightKey(keys[1], 1) /\ RightKey(keys[2], 2)
    BY <2>1 DEF IInv, KeysInv
  <2>3. CASE HasDuplicates(1)
    BY <2>2, <2>3 DEF RightKey, OffersInv
  <2>4. CASE ~ HasDuplicates(1)
    <3>1. ~ HasDuplicates(2)
      BY <2>4 DEF OffersInv
    <3>2. /\ keys[1] \in [1..NumOutputs -> Tables] /\ keys[2] \in [1..NumOutputs -> Tables]
          /\ \A m, n \in 1..NumOutputs :
               m < n => Above(keys[1][m], keys[1][n]) /\ Above(keys[2][m], keys[2][n])
      BY <2>2, <2>4, <3>1 DEF RightKey
    <3>3. /\ \A n \in 1..NumOutputs : \E m \in 1..NumOutputs : keys[1][n] = results[1][m]
          /\ \A n \in 1..NumOutputs : \E m \in 1..NumOutputs : keys[2][n] = results[2][m]
          /\ \A m \in 1..NumOutputs : \E n \in 1..NumOutputs : keys[1][n] = results[1][m]
          /\ \A m \in 1..NumOutputs : \E n \in 1..NumOutputs : keys[2][n] = results[2][m]
      BY <2>2, <2>4, <3>1 DEF RightKey
    <3>4. \A n \in 1..NumOutputs : \E m \in 1..NumOutputs : keys[1][n] = keys[2][m]
      BY <3>3 DEF OffersInv
    <3>5. \A n \in 1..NumOutputs : \E m \in 1..NumOutputs : keys[2][n] = keys[1][m]
      BY <3>3 DEF OffersInv
    <3> HIDE DEF Above
    <3> QED
      BY <2>1, <3>2, <3>4, <3>5, DescendingListsAgree
  <2> QED
    BY <2>3, <2>4
<1> QED
  BY <1>1, <1>2, <1>3, Invariance, PTL DEF Spec
=============================================================================
