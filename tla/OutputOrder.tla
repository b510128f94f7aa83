----------------------------- MODULE OutputOrder -----------------------------
(***************************************************************************)
(* The head of SaveOrIgnoreResult(), nandcombinator.cc: an insertion sort  *)
(* puts the truth tables of the outputs into the order in which they make  *)
(* up the search key, and drops the combination when two are equal.        *)
(*                                                                         *)
(* A truth table is an array of 32-bit words, the last one the most        *)
(* significant.  Words are compared by the sign of their difference, an    *)
(* unsigned subtraction stored in an int: its width is kept, as the        *)
(* constant Half that stands for 2^31.                                     *)
(*                                                                         *)
(* Two networks offer the same tables in different orders, one after the   *)
(* other: whether their keys agree is what the sort is for.                *)
(***************************************************************************)
EXTENDS Integers, Sequences

CONSTANTS
  Half,        \* half the range of a word, 2^31
  WordValues,  \* the words that occur in truth tables
  NumWords,    \* words: the number of words of a truth table
  MaxOutputs,  \* bound: the number of outputs
  NoKey        \* the combination was dropped

Tables == [1..NumWords -> WordValues]

ASSUME WordsAssumption ==
  /\ Half \in Nat \ {0}
  /\ WordValues \subseteq 0..2 * Half - 1
  /\ NumWords \in Nat \ {0}
  /\ MaxOutputs \in Nat \ {0}
  /\ \A n \in 1..MaxOutputs : NoKey \notin [1..n -> Tables]

VARIABLES
  results,       \* results[p]: the tables of the outputs of network p
  output_order,  \* the outputs in order, sorted up to i
  i, j,          \* the places of the two loops
  tmp,           \* the output to be inserted
  pc,            \* "next", "compare" or "done"
  keys           \* the keys made so far

vars == <<results, output_order, i, j, tmp, pc, keys>>

Now        == Len(keys) + 1
NumOutputs == Len(results[1])
Permuted(s, p) == [n \in 1..Len(s) |-> s[p[n]]]
Shuffles(n) == {p \in [1..n -> 1..n] : \A a, b \in 1..n : p[a] = p[b] => a = b}

Identity == [n \in 1..NumOutputs |-> n]

Init ==
  /\ \E n \in 1..MaxOutputs : \E s \in [1..n -> Tables], p \in Shuffles(n) :
       /\ results = <<s, Permuted(s, p)>>
       /\ output_order = [m \in 1..n |-> m]
  /\ i = 1
  /\ j = 1
  /\ tmp = 1
  /\ pc = "next"
  /\ keys = << >>

\* comp = a[w] - b[w]: the difference modulo 2^32, read as a signed number.
Signed(w)        == IF w < Half THEN w ELSE w - 2 * Half
Difference(a, b) == Signed((a - b) % (2 * Half))

\* Mutant of Comp: the tables the other way around.
CompSwapped(a, b) ==
  LET differ == {w \in 1..NumWords : Difference(b[w], a[w]) # 0} IN
  IF differ = {} THEN 0
  ELSE LET w == CHOOSE w \in differ : \A v \in differ : v <= w IN Difference(b[w], a[w])

\* The difference of the highest words that differ; 0 if the tables are equal.
Comp(a, b) ==
  LET differ == {w \in 1..NumWords : Difference(a[w], b[w]) # 0} IN
  IF differ = {} THEN 0
  ELSE LET w == CHOOSE w \in differ : \A v \in differ : v <= w IN Difference(a[w], b[w])

\* SaveOrIgnoreResult() has made the key, or returned: on to the next network.
Return(key) ==
  /\ keys' = Append(keys, key)
  /\ output_order' = Identity
  /\ i' = 1
  /\ pc' = IF Now = 2 THEN "done" ELSE "next"

\* Mutant of NextOutput: i is incremented twice.
NextOutputTwice ==
  /\ pc = "next" /\ i < NumOutputs
  /\ i' = i + 2
  /\ j' = i + 1
  /\ tmp' = output_order[i + 1]
  /\ pc' = "compare"
  /\ UNCHANGED <<results, output_order, keys>>

NextOutput ==
  /\ pc = "next" /\ i < NumOutputs
  /\ i' = i + 1
  /\ j' = i + 1
  /\ tmp' = output_order[i + 1]
  /\ pc' = "compare"
  /\ UNCHANGED <<results, output_order, keys>>

MakeKey ==
  /\ pc = "next" /\ i = NumOutputs
  /\ Return([n \in 1..NumOutputs |-> results[Now][output_order[n]]])
  /\ UNCHANGED <<results, j, tmp>>

\* The output before place j against the one to be inserted.
CompareNow == Comp(results[Now][output_order[j - 1]], results[Now][tmp])

\* Mutant of Insert: an output may go below an equal one.
InsertEqual ==
  /\ pc = "compare"
  /\ IF j = 1 THEN TRUE ELSE CompareNow >= 0
  /\ output_order' = [output_order EXCEPT ![j] = tmp]
  /\ pc' = "next"
  /\ UNCHANGED <<results, i, j, tmp, keys>>

Insert ==
  /\ pc = "compare"
  /\ IF j = 1 THEN TRUE ELSE CompareNow > 0
  /\ output_order' = [output_order EXCEPT ![j] = tmp]
  /\ pc' = "next"
  /\ UNCHANGED <<results, i, j, tmp, keys>>

\* Mutant of MoveUp: the output moves up by one place only.
MoveUpOnce ==
  /\ pc = "compare" /\ j > 1
  /\ CompareNow < 0
  /\ output_order' = [output_order EXCEPT ![j] = output_order[j - 1], ![j - 1] = tmp]
  /\ pc' = "next"
  /\ UNCHANGED <<results, i, j, tmp, keys>>

MoveUp ==
  /\ pc = "compare" /\ j > 1
  /\ CompareNow < 0
  /\ output_order' = [output_order EXCEPT ![j] = output_order[j - 1]]
  /\ j' = j - 1
  /\ UNCHANGED <<results, i, tmp, pc, keys>>

\* Identical outputs.
Drop ==
  /\ pc = "compare" /\ j > 1
  /\ CompareNow = 0
  /\ Return(NoKey)
  /\ UNCHANGED <<results, j, tmp>>

Finished == pc = "done" /\ UNCHANGED vars

Next == NextOutput \/ MakeKey \/ Insert \/ MoveUp \/ Drop \/ Finished

Spec == Init /\ [][Next]_vars
-----------------------------------------------------------------------------
\* Properties.

\* Every variable has its type, and the loops stay within the array.
TypeOK ==
  /\ \A p \in 1..2 : results[p] \in [1..NumOutputs -> Tables]
  /\ output_order \in [1..NumOutputs -> 1..NumOutputs]
  /\ i \in 1..NumOutputs
  /\ j \in 1..NumOutputs
  /\ tmp \in 1..NumOutputs
  /\ pc \in {"next", "compare", "done"}
  /\ keys \in Seq({NoKey} \cup [1..NumOutputs -> Tables])
  /\ Len(keys) \in 0..2

\* Different permutations are only computed once: the key of a set of tables
\* does not depend on the order in which a network offers them.
SameKey == pc = "done" => keys[1] = keys[2]

\* Duplicate outputs are discarded, and nothing else is.
DuplicatesDiscarded ==
  \A p \in 1..Len(keys) :
    keys[p] = NoKey <=> \E m, n \in 1..NumOutputs : m # n /\ results[p][m] = results[p][n]

\* The outputs of a key descend, the last word counting most: the order in
\* which Parser::Analyze() puts them when it looks a key up.
Above(a, b) == \E w \in 1..NumWords :
  a[w] > b[w] /\ \A v \in w + 1..NumWords : a[v] = b[v]
KeyAsParsed ==
  \A p \in 1..Len(keys) : keys[p] # NoKey =>
    /\ \A n \in 1..NumOutputs - 1 : Above(keys[p][n], keys[p][n + 1])
    /\ {keys[p][n] : n \in 1..NumOutputs} = {results[p][n] : n \in 1..NumOutputs}
=============================================================================
