----------------------------- MODULE SharedFacts -----------------------------
(***************************************************************************)
(* Facts that the proofs of several components rest on: about sets of      *)
(* natural numbers, about counting, about truth tables, and about networks *)
(* whose gates have other numbers.  A least counterexample stands in for   *)
(* induction, a base and a step.                                           *)
(***************************************************************************)
EXTENDS NandNetwork, FiniteSetsExt, WellFoundedInduction, FiniteSetTheorems, TLAPS

\* Every set of natural numbers that is not empty has a least element.
LEMMA LeastExists ==
  ASSUME NEW S, S \subseteq Nat, S # {}
  PROVE  \E x \in S : \A y \in S : x <= y
<1> DEFINE R == OpToRel(<, Nat)
<1>1. IsWellFoundedOn(R, Nat)
  BY NatLessThanWellFounded, Zenon
<1>2. \A x, y \in Nat : x < y => <<x, y>> \in R
  BY Zenon DEF OpToRel
<1> HIDE DEF R
<1>3. PICK x \in S : \A y \in S : <<y, x>> \notin R
  BY <1>1, WFMin
<1>4. \A y \in S : x <= y
  <2> TAKE y \in S
  <2>1. x \in Nat /\ y \in Nat
    OBVIOUS
  <2>2. ~ (y < x)
    BY <1>2, <1>3, <2>1
  <2> QED
    BY <2>1, <2>2
<1> QED
  BY <1>4

\* Every set of places in a list that is not empty has a last one.
LEMMA LastExists ==
  ASSUME NEW n \in Nat, NEW S, S \subseteq 1..n, S # {}
  PROVE  \E x \in S : \A y \in S : y <= x
<1> DEFINE D == {n - x : x \in S}
<1>1. D \subseteq Nat
  OBVIOUS
<1>2. D # {}
  OBVIOUS
<1> HIDE DEF D
<1>3. PICK d \in D : \A e \in D : d <= e
  BY <1>1, <1>2, LeastExists
<1>4. PICK x \in S : d = n - x
  BY DEF D
<1>5. \A y \in S : y <= x
  <2> TAKE y \in S
  <2>1. n - y \in D
    BY DEF D
  <2>2. n - x <= n - y
    BY <1>3, <1>4, <2>1
  <2> QED
    BY <2>2
<1> QED
  BY <1>5

\* An injection of 1..n into itself meets every element.
LEMMA InjectionMeetsAll ==
  ASSUME NEW n \in Nat, NEW f \in [1..n -> 1..n],
         \A a, b \in 1..n : f[a] = f[b] => a = b
  PROVE  \A m \in 1..n : \E a \in 1..n : f[a] = m
<1> DEFINE image == {f[a] : a \in 1..n}
<1>1. IsFiniteSet(1..n) /\ Cardinality(1..n) = n
  BY FS_Interval
<1>2. f \in Bijection(1..n, image)
  BY DEF Bijection, Injection, Surjection, IsInjective
<1>3. Cardinality(image) = n
  BY <1>1, <1>2, FS_Bijection DEF ExistsBijection
<1>4. image \subseteq 1..n
  OBVIOUS
<1>5. image = 1..n
  BY <1>1, <1>3, <1>4, FS_Subset
<1> QED
  BY <1>5

\* Min takes an element of the set, which no other one is below.
LEMMA MinIsLeast ==
  ASSUME NEW S, S \subseteq Nat, S # {}
  PROVE  Min(S) \in S /\ \A y \in S : Min(S) <= y
<1>1. \E x \in S : \A y \in S : x <= y
  BY LeastExists
<1> QED
  BY <1>1 DEF Min

\* Max takes an element of the set, which no other one is above.
LEMMA MaxIsGreatest ==
  ASSUME NEW n \in Nat, NEW S, S \subseteq 1..n, S # {}
  PROVE  Max(S) \in S /\ \A y \in S : y <= Max(S)
<1>1. \E x \in S : \A y \in S : x >= y
  <2>1. PICK x \in S : \A y \in S : y <= x
    BY LastExists
  <2> QED
    BY <2>1
<1> QED
  BY <1>1 DEF Max

\* The set of a list without repetitions has as many elements as the list.
LEMMA ListWithoutRepetition ==
  ASSUME NEW n \in Nat, NEW f, NEW S,
         \A a \in 1..n : f[a] \in S,
         \A s \in S : \E a \in 1..n : s = f[a],
         \A a, b \in 1..n : f[a] = f[b] => a = b
  PROVE  IsFiniteSet(S) /\ Cardinality(S) = n
<1> DEFINE g == [a \in 1..n |-> f[a]]
<1>1. IsFiniteSet(1..n) /\ Cardinality(1..n) = n
  BY FS_Interval
<1>2. g \in Bijection(1..n, S)
  BY DEF Bijection, Injection, Surjection, IsInjective
<1> QED
  BY <1>1, <1>2, FS_Bijection DEF ExistsBijection

\* A function of the kind that computes truth tables: its value at s is made
\* from those at a[s] and b[s].
Recurses(f, N, i, base, full, a, b) ==
  /\ f = [s \in 0..N - 1 |-> f[s]]
  /\ \A s \in 0..N - 1 : f[s] = IF s < i THEN base[s] ELSE full \ (f[a[s]] \cap f[b[s]])

\* There is such a function when a[s] and b[s] are below s.  Else there would
\* be a least k up to which there is none.
LEMMA RecursionExists ==
  ASSUME NEW N \in Nat, NEW i \in Nat, NEW base, NEW full, NEW a, NEW b,
         \A s \in i..N - 1 : a[s] \in 0..s - 1 /\ b[s] \in 0..s - 1
  PROVE  \E f : Recurses(f, N, i, base, full, a, b)
<1> DEFINE Exists(k) == \E f : /\ f = [s \in 0..k - 1 |-> f[s]]
                               /\ \A s \in 0..k - 1 :
                                    f[s] = IF s < i THEN base[s]
                                           ELSE full \ (f[a[s]] \cap f[b[s]])
           Bad == {k \in 0..N : ~ Exists(k)}
<1> HIDE DEF Exists
<1>1. ASSUME Bad # {}
      PROVE  FALSE
  <2>1. Bad \subseteq Nat
    OBVIOUS
  <2>2. PICK k \in Bad : \A c \in Bad : k <= c
    BY <1>1, <2>1, LeastExists
  <2>3. k \in 0..N /\ ~ Exists(k)
    BY <2>2
  <2>4. k # 0
    <3> DEFINE f == [s \in {} |-> base]
    <3>1. f = [s \in 0..0 - 1 |-> f[s]] /\ 0..0 - 1 = {}
      OBVIOUS
    <3>2. Exists(0)
      BY <3>1 DEF Exists
    <3> QED
      BY <2>3, <3>2
  <2>5. k - 1 \in 0..N /\ k - 1 \notin Bad
    BY <2>2, <2>3, <2>4
  <2>6. Exists(k - 1)
    BY <2>5
  <2>7. PICK f : \A s \in 0..(k - 1) - 1 :
                   f[s] = IF s < i THEN base[s] ELSE full \ (f[a[s]] \cap f[b[s]])
    BY <2>6 DEF Exists
  <2>8. \A s \in 0..k - 1 : s # k - 1 =>
          f[s] = IF s < i THEN base[s] ELSE full \ (f[a[s]] \cap f[b[s]])
    <3> TAKE s \in 0..k - 1
    <3>1. s # k - 1 => s \in 0..(k - 1) - 1
      BY <2>3
    <3> QED
      BY <2>7, <3>1
  <2> DEFINE g == [s \in 0..k - 1 |-> IF s # k - 1 THEN f[s]
                                      ELSE IF s < i THEN base[s] ELSE full \ (f[a[s]] \cap f[b[s]])]
  <2>9. \A s \in 0..k - 1 : g[s] = IF s < i THEN base[s] ELSE full \ (g[a[s]] \cap g[b[s]])
    <3> TAKE s \in 0..k - 1
    <3>1. g[s] = IF s < i THEN base[s] ELSE full \ (f[a[s]] \cap f[b[s]])
      BY <2>8
    <3>2. CASE s < i
      BY <3>1, <3>2
    <3>3. CASE ~ (s < i)
      <4>1. s \in i..N - 1 /\ \A v \in 0..s - 1 : v \in 0..k - 1 /\ v # k - 1
        BY <2>3, <3>3
      <4>2. \A v \in 0..s - 1 : g[v] = f[v]
        BY <4>1
      <4> HIDE DEF g
      <4>3. g[a[s]] = f[a[s]] /\ g[b[s]] = f[b[s]]
        BY <4>1, <4>2
      <4> QED
        BY <3>1, <3>3, <4>3
    <3> QED
      BY <3>2, <3>3
  <2>10. g = [s \in 0..k - 1 |-> g[s]]
    OBVIOUS
  <2>11. Exists(k)
    <3> HIDE DEF g
    <3> QED
      BY <2>9, <2>10 DEF Exists
  <2> QED
    BY <2>3, <2>11
<1>2. N \in 0..N
  OBVIOUS
<1>3. Exists(N)
  BY <1>1, <1>2
<1> QED
  BY <1>3 DEF Exists, Recurses
-----------------------------------------------------------------------------
\* The gates of a network read inputs and earlier gates.
Ordered(w, i) == \A n \in 1..Len(w) : w[n][1] \in 0..i + n - 2 /\ w[n][2] \in 0..i + n - 2

\* Each source has the table that follows from those of its own sources, and
\* it is a set of rows.
FollowsWiring(on, w, i) ==
  \A s \in 0..i + Len(w) - 1 :
     /\ s < i => on[s] = {r \in Rows(i) : s \in r}
     /\ s >= i => on[s] = Rows(i) \ (on[w[s - i + 1][1]] \cap on[w[s - i + 1][2]])
     /\ on[s] \subseteq Rows(i)

\* Truth does what its definition says.
LEMMA TruthTables ==
  ASSUME NEW i \in Nat, NEW w \in Seq(Nat \X Nat), Ordered(w, i)
  PROVE  FollowsWiring(Truth(w, i), w, i)
<1> DEFINE N == i + Len(w)
           base == [t \in 0..i - 1 |-> {r \in Rows(i) : t \in r}]
           a == [t \in i..N - 1 |-> w[t - i + 1][1]]
           b == [t \in i..N - 1 |-> w[t - i + 1][2]]
<1>1. Len(w) \in Nat /\ N \in Nat
  OBVIOUS
<1>2. \A t \in i..N - 1 : a[t] \in 0..t - 1 /\ b[t] \in 0..t - 1
  <2> TAKE t \in i..N - 1
  <2>1. t - i + 1 \in 1..Len(w) /\ i + (t - i + 1) - 2 = t - 1
    BY <1>1
  <2>2. w[t - i + 1][1] \in 0..t - 1 /\ w[t - i + 1][2] \in 0..t - 1
    BY <2>1 DEF Ordered
  <2> QED
    BY <2>2
<1>3. PICK f : Recurses(f, N, i, base, Rows(i), a, b)
  <2> HIDE DEF N, base, a, b
  <2> QED
    BY <1>1, <1>2, RecursionExists
<1> DEFINE Is(on) == on = [t \in 0..i + Len(w) - 1 |->
                            IF t < i THEN {r \in Rows(i) : t \in r}
                            ELSE Rows(i) \ (on[w[t - i + 1][1]] \cap on[w[t - i + 1][2]])]
<1>4. Is(f)
  <2>1. \A t \in 0..N - 1 : t < i => base[t] = {r \in Rows(i) : t \in r}
    OBVIOUS
  <2>2. \A t \in 0..N - 1 : ~ (t < i) => a[t] = w[t - i + 1][1] /\ b[t] = w[t - i + 1][2]
    OBVIOUS
  <2> HIDE DEF base, a, b
  <2>3. \A t \in 0..N - 1 :
          f[t] = IF t < i THEN {r \in Rows(i) : t \in r}
                 ELSE Rows(i) \ (f[w[t - i + 1][1]] \cap f[w[t - i + 1][2]])
    BY <1>3, <2>1, <2>2 DEF Recurses
  <2>4. f = [t \in 0..N - 1 |-> f[t]]
    BY <1>3 DEF Recurses
  <2> DEFINE val(t) == IF t < i THEN {r \in Rows(i) : t \in r}
                       ELSE Rows(i) \ (f[w[t - i + 1][1]] \cap f[w[t - i + 1][2]])
  <2>5. \A t \in 0..N - 1 : f[t] = val(t)
    BY <2>3
  <2>6. f = [t \in 0..N - 1 |-> val(t)]
    <3> HIDE DEF val, N
    <3> QED
      BY <2>4, <2>5
  <2>7. N - 1 = i + Len(w) - 1
    BY <1>1
  <2>8. f = [t \in 0..i + Len(w) - 1 |-> val(t)]
    <3> HIDE DEF val, N
    <3> QED
      BY <2>6, <2>7
  <2> QED
    BY <2>8
<1>5. Truth(w, i) = CHOOSE on : Is(on)
  BY DEF Truth
<1>6. Is(Truth(w, i))
  <2> HIDE DEF Is
  <2> QED
    BY <1>4, <1>5
<1> PICK on : on = Truth(w, i)
  OBVIOUS
<1>7. \A s \in 0..i + Len(w) - 1 :
         on[s] = IF s < i THEN {r \in Rows(i) : s \in r}
                 ELSE Rows(i) \ (on[w[s - i + 1][1]] \cap on[w[s - i + 1][2]])
  BY <1>6
<1>8. FollowsWiring(on, w, i)
  <2> SUFFICES ASSUME NEW s \in 0..i + Len(w) - 1
               PROVE  /\ s < i => on[s] = {r \in Rows(i) : s \in r}
                      /\ s >= i =>
                           on[s] = Rows(i) \ (on[w[s - i + 1][1]] \cap on[w[s - i + 1][2]])
                      /\ on[s] \subseteq Rows(i)
    BY DEF FollowsWiring
  <2>1. s \in Int /\ (s >= i <=> ~ (s < i))
    BY <1>1
  <2>2. CASE s < i
    BY <1>7, <2>1, <2>2
  <2>3. CASE ~ (s < i)
    BY <1>7, <2>1, <2>3
  <2> QED
    BY <2>2, <2>3
<1> QED
  BY <1>8
-----------------------------------------------------------------------------
\* Networks whose gates have other numbers.

\* A source under the numbers p.
Renamed(p, i, s) == IF s < i THEN s ELSE i + p[s - i + 1] - 1

\* The two sources of a gate in order.
SortedPair(u, v) == IF u <= v THEN <<u, v>> ELSE <<v, u>>

\* A network of n gates free of loops, the sources of each gate in order.
IsNetwork(w, i, n) ==
  /\ w \in Seq(Nat \X Nat) /\ Len(w) = n
  /\ Ordered(w, i)
  /\ \A a \in 1..n : w[a][1] <= w[a][2]

\* Gate a of w is gate p[a] of z.
Renumbers(p, w, z, i) ==
  \A a \in 1..Len(w) : z[p[a]] = SortedPair(Renamed(p, i, w[a][1]), Renamed(p, i, w[a][2]))

\* The smaller and the larger of two numbers.
LEMMA PairInOrder ==
  ASSUME NEW u \in Nat, NEW v \in Nat
  PROVE  /\ <<Least({u, v}), u + v - Least({u, v})>> = SortedPair(u, v)
         /\ SortedPair(u, v) = SortedPair(v, u)
         /\ u <= v => SortedPair(u, v) = <<u, v>>
         /\ SortedPair(u, v) \in Nat \X Nat
         /\ SortedPair(u, v)[1] <= SortedPair(u, v)[2]
         /\ {SortedPair(u, v)[1], SortedPair(u, v)[2]} = {u, v}
<1>1. /\ SortedPair(u, v) = SortedPair(v, u)
      /\ u <= v => SortedPair(u, v) = <<u, v>>
      /\ SortedPair(u, v) \in Nat \X Nat
      /\ SortedPair(u, v)[1] <= SortedPair(u, v)[2]
      /\ {SortedPair(u, v)[1], SortedPair(u, v)[2]} = {u, v}
  <2>1. CASE u <= v
    BY <2>1 DEF SortedPair
  <2>2. CASE ~ (u <= v)
    BY <2>2 DEF SortedPair
  <2> QED
    BY <2>1, <2>2
<1>2. PICK x : x = Least({u, v})
  OBVIOUS
<1>3. x \in {u, v} /\ x <= u /\ x <= v
  <2>1. \E y \in {u, v} : \A z \in {u, v} : y <= z
    OBVIOUS
  <2> QED
    BY <1>2, <2>1 DEF Least
<1>4. <<x, u + v - x>> = SortedPair(u, v)
  <2>1. CASE u <= v
    <3>1. x = u /\ u + v - x = v
      BY <1>3, <2>1
    <3> QED
      BY <2>1, <3>1 DEF SortedPair
  <2>2. CASE ~ (u <= v)
    <3>1. x = v /\ u + v - x = u
      BY <1>3, <2>2
    <3> QED
      BY <2>2, <3>1 DEF SortedPair
  <2> QED
    BY <2>1, <2>2
<1> QED
  BY <1>1, <1>2, <1>4

\* q undoes p.
Undoes(q, p, n) == \A a \in 1..n : q[p[a]] = a /\ p[q[a]] = a

\* The gates have different numbers.
LEMMA Numbers ==
  ASSUME NEW n, NEW p \in Renumberings(n)
  PROVE  p \in [1..n -> 1..n] /\ \A a, b \in 1..n : p[a] = p[b] => a = b
BY DEF Renumberings

\* Every number is that of some gate.
LEMMA IsOnto ==
  ASSUME NEW n \in Nat, NEW p \in Renumberings(n), NEW m \in 1..n
  PROVE  \E a \in 1..n : p[a] = m
<1>1. p \in [1..n -> 1..n] /\ \A a, b \in 1..n : p[a] = p[b] => a = b
  BY Numbers
<1>2. \A b \in 1..n : \E a \in 1..n : p[a] = b
  BY <1>1, InjectionMeetsAll
<1> QED
  BY <1>2

\* So they can be given back.
LEMMA Inverses ==
  ASSUME NEW n \in Nat, NEW p \in Renumberings(n)
  PROVE  \E q \in Renumberings(n) : Undoes(q, p, n)
<1>1. p \in [1..n -> 1..n] /\ \A a, b \in 1..n : p[a] = p[b] => a = b
  BY Numbers
<1>2. \A m \in 1..n : \E a \in 1..n : p[a] = m
  BY <1>1, InjectionMeetsAll
<1> DEFINE q == [m \in 1..n |-> CHOOSE a \in 1..n : p[a] = m]
<1>3. \A m \in 1..n : q[m] \in 1..n /\ p[q[m]] = m
  BY <1>2
<1>4. q \in [1..n -> 1..n]
  BY <1>3
<1> HIDE DEF q
<1>5. \A a \in 1..n : q[p[a]] = a
  BY <1>1, <1>3
<1>6. q \in Renumberings(n)
  <2>1. \A a, b \in 1..n : q[a] = q[b] => a = b
    BY <1>3
  <2> QED
    BY <1>4, <2>1 DEF Renumberings
<1> QED
  BY <1>3, <1>5, <1>6 DEF Undoes

\* The new number of a source is that of an input or of a gate.
LEMMA RenamedType ==
  ASSUME NEW i \in Nat, NEW n \in Nat, NEW p \in Renumberings(n), NEW s \in 0..i + n - 1
  PROVE  /\ Renamed(p, i, s) \in 0..i + n - 1
         /\ s < i <=> Renamed(p, i, s) < i
         /\ s < i => Renamed(p, i, s) = s
         /\ s >= i => s - i + 1 \in 1..n /\ Renamed(p, i, s) - i + 1 = p[s - i + 1]
<1>1. CASE s < i
  BY <1>1 DEF Renamed
<1>2. CASE s >= i
  <2>1. s - i + 1 \in 1..n
    BY <1>2
  <2>2. p[s - i + 1] \in 1..n
    BY <2>1, Numbers
  <2>3. Renamed(p, i, s) = i + p[s - i + 1] - 1
    BY <1>2 DEF Renamed
  <2> QED
    BY <1>2, <2>1, <2>2, <2>3
<1> QED
  BY <1>1, <1>2

\* The sources of a network.
LEMMA SourcesOf ==
  ASSUME NEW i \in Nat, NEW n \in Nat, NEW w, IsNetwork(w, i, n), NEW a \in 1..n
  PROVE  /\ w[a] \in Nat \X Nat /\ w[a] = <<w[a][1], w[a][2]>> /\ w[a][1] <= w[a][2]
         /\ w[a][1] \in 0..i + a - 2 /\ w[a][2] \in 0..i + a - 2
         /\ w[a][1] \in 0..i + n - 1 /\ w[a][2] \in 0..i + n - 1
<1>1. w \in Seq(Nat \X Nat) /\ Len(w) = n /\ w[a][1] <= w[a][2]
  BY DEF IsNetwork
<1>2. w[a] \in Nat \X Nat
  BY <1>1
<1>3. w[a][1] \in 0..i + a - 2 /\ w[a][2] \in 0..i + a - 2
  BY <1>1 DEF IsNetwork, Ordered
<1> QED
  BY <1>1, <1>2, <1>3

\* Renumber() gives each gate its new number.
LEMMA RenumberRenumbers ==
  ASSUME NEW i \in Nat, NEW n \in Nat, NEW w, IsNetwork(w, i, n), NEW p \in Renumberings(n)
  PROVE  /\ Renumber(w, i, p) \in Seq(Nat \X Nat) /\ Len(Renumber(w, i, p)) = n
         /\ Renumbers(p, w, Renumber(w, i, p), i)
<1> DEFINE gate(m) == w[CHOOSE a \in 1..Len(w) : p[a] = m]
           least(m) == Least({Renamed(p, i, gate(m)[1]), Renamed(p, i, gate(m)[2])})
           z == Renumber(w, i, p)
<1>1. Len(w) = n
  BY DEF IsNetwork
<1>2. z = [m \in 1..n |->
             <<least(m), Renamed(p, i, gate(m)[1]) + Renamed(p, i, gate(m)[2]) - least(m)>>]
  BY <1>1 DEF Renumber, Renamed
<1> DEFINE val(a) == SortedPair(Renamed(p, i, w[a][1]), Renamed(p, i, w[a][2]))
<1>3. \A a \in 1..n : val(a) \in Nat \X Nat /\ z[p[a]] = val(a)
  <2> TAKE a \in 1..n
  <2>1. p[a] \in 1..n /\ \A b \in 1..n : p[b] = p[a] => b = a
    BY Numbers
  <2>2. gate(p[a]) = w[a]
    <3>1. (CHOOSE b \in 1..n : p[b] = p[a]) = a
      BY <2>1
    <3> QED
      BY <1>1, <3>1
  <2>3. Renamed(p, i, w[a][1]) \in Nat /\ Renamed(p, i, w[a][2]) \in Nat
    <3>1. w[a][1] \in 0..i + n - 1 /\ w[a][2] \in 0..i + n - 1
      BY SourcesOf
    <3>2. Renamed(p, i, w[a][1]) \in 0..i + n - 1 /\ Renamed(p, i, w[a][2]) \in 0..i + n - 1
      BY <3>1, RenamedType
    <3> QED
      BY <3>2
  <2> PICK u, v : u = Renamed(p, i, w[a][1]) /\ v = Renamed(p, i, w[a][2])
    OBVIOUS
  <2>4. z[p[a]] = <<Least({u, v}), u + v - Least({u, v})>>
    <3> HIDE DEF gate, z
    <3> QED
      BY <1>2, <2>1, <2>2
  <2> QED
    BY <2>3, <2>4, PairInOrder
<1>4. \A m \in 1..n : z[m] \in Nat \X Nat
  <2> TAKE m \in 1..n
  <2>1. PICK a \in 1..n : p[a] = m
    BY IsOnto
  <2> HIDE DEF z, val
  <2> QED
    BY <1>3, <2>1
<1>5. z \in [1..n -> Nat \X Nat]
  <2>1. z = [m \in 1..n |-> z[m]]
    <3> HIDE DEF least, gate
    <3> QED
      BY <1>2
  <2> HIDE DEF z
  <2> QED
    BY <1>4, <2>1
<1>6. z \in Seq(Nat \X Nat) /\ Len(z) = n
  <2> HIDE DEF z
  <2> QED
    BY <1>5
<1> QED
  BY <1>1, <1>3, <1>6 DEF Renumbers

\* There is one such network only.
LEMMA RenumbersOnce ==
  ASSUME NEW i \in Nat, NEW n \in Nat, NEW w, Len(w) = n, NEW p \in Renumberings(n),
         NEW y \in Seq(Nat \X Nat), Len(y) = n, Renumbers(p, w, y, i),
         NEW z \in Seq(Nat \X Nat), Len(z) = n, Renumbers(p, w, z, i)
  PROVE  y = z
<1>1. \A m \in 1..n : y[m] = z[m]
  <2> TAKE m \in 1..n
  <2>1. PICK a \in 1..n : p[a] = m
    BY IsOnto
  <2> QED
    BY <2>1 DEF Renumbers
<1> QED
  BY <1>1

\* A pair put in order and then renamed, or renamed at once.
LEMMA RenamedPair ==
  ASSUME NEW i \in Nat, NEW n \in Nat, NEW q \in Renumberings(n),
         NEW u \in 0..i + n - 1, NEW v \in 0..i + n - 1
  PROVE  SortedPair(Renamed(q, i, SortedPair(u, v)[1]), Renamed(q, i, SortedPair(u, v)[2]))
           = SortedPair(Renamed(q, i, u), Renamed(q, i, v))
<1>1. Renamed(q, i, u) \in Nat /\ Renamed(q, i, v) \in Nat
  <2>1. Renamed(q, i, u) \in 0..i + n - 1 /\ Renamed(q, i, v) \in 0..i + n - 1
    BY RenamedType
  <2> QED
    BY <2>1
<1>2. SortedPair(Renamed(q, i, u), Renamed(q, i, v))
        = SortedPair(Renamed(q, i, v), Renamed(q, i, u))
  BY <1>1, PairInOrder
<1>3. CASE u <= v
  <2>1. SortedPair(u, v) = <<u, v>>
    BY <1>3 DEF SortedPair
  <2> QED
    BY <2>1
<1>4. CASE ~ (u <= v)
  <2>1. SortedPair(u, v) = <<v, u>>
    BY <1>4 DEF SortedPair
  <2> QED
    BY <1>2, <2>1
<1> QED
  BY <1>3, <1>4

\* Numbers that are given back.
LEMMA RenumbersBack ==
  ASSUME NEW i \in Nat, NEW n \in Nat, NEW w, IsNetwork(w, i, n),
         NEW p \in Renumberings(n), NEW q \in Renumberings(n),
         Undoes(q, p, n),
         NEW z \in Seq(Nat \X Nat), Len(z) = n, Renumbers(p, w, z, i)
  PROVE  Renumbers(q, z, w, i)
<1>1. \A s \in 0..i + n - 1 : Renamed(q, i, Renamed(p, i, s)) = s
  <2> TAKE s \in 0..i + n - 1
  <2> PICK u : u = Renamed(p, i, s)
    OBVIOUS
  <2>1. /\ u \in 0..i + n - 1 /\ (s < i <=> u < i) /\ (s < i => u = s)
        /\ s >= i => s - i + 1 \in 1..n /\ u - i + 1 = p[s - i + 1]
    BY RenamedType
  <2>2. CASE s < i
    <3>1. Renamed(q, i, u) = u
      BY <2>1, <2>2 DEF Renamed
    <3> QED
      BY <2>1, <2>2, <3>1
  <2>3. CASE s >= i
    <3>1. ~ (u < i) /\ s - i + 1 \in 1..n /\ u - i + 1 = p[s - i + 1]
      BY <2>1, <2>3
    <3>2. q[u - i + 1] = s - i + 1
      BY <3>1 DEF Undoes
    <3>3. Renamed(q, i, u) = i + (s - i + 1) - 1
      BY <3>1, <3>2 DEF Renamed
    <3> QED
      BY <3>3
  <2> QED
    BY <2>2, <2>3
<1>2. \A c \in 1..n : /\ w[c] = <<w[c][1], w[c][2]>> /\ w[c][1] <= w[c][2]
                      /\ w[c][1] \in 0..i + n - 1 /\ w[c][2] \in 0..i + n - 1
  BY SourcesOf
<1>3. ASSUME NEW b \in 1..n
      PROVE  w[q[b]] = SortedPair(Renamed(q, i, z[b][1]), Renamed(q, i, z[b][2]))
  <2> PICK a : a = q[b]
    OBVIOUS
  <2>1. a \in 1..n /\ p[a] = b
    BY Numbers DEF Undoes
  <2>2. /\ w[a] = <<w[a][1], w[a][2]>> /\ w[a][1] <= w[a][2]
        /\ w[a][1] \in 0..i + n - 1 /\ w[a][2] \in 0..i + n - 1
    BY <1>2, <2>1
  <2> PICK u, v : u = Renamed(p, i, w[a][1]) /\ v = Renamed(p, i, w[a][2])
    OBVIOUS
  <2>3. u \in 0..i + n - 1 /\ v \in 0..i + n - 1
    BY <2>2, RenamedType
  <2>4. z[b] = SortedPair(u, v)
    <3>1. Len(w) = n
      BY DEF IsNetwork
    <3> QED
      BY <2>1, <3>1 DEF Renumbers
  <2>5. Renamed(q, i, u) = w[a][1] /\ Renamed(q, i, v) = w[a][2]
    BY <1>1, <2>2
  <2>6. SortedPair(Renamed(q, i, z[b][1]), Renamed(q, i, z[b][2]))
          = SortedPair(Renamed(q, i, u), Renamed(q, i, v))
    BY <2>3, <2>4, RenamedPair
  <2>7. SortedPair(w[a][1], w[a][2]) = <<w[a][1], w[a][2]>>
    BY <2>2 DEF SortedPair
  <2> QED
    BY <2>2, <2>5, <2>6, <2>7
<1> QED
  BY <1>3 DEF Renumbers

\* Two renumberings one after the other are one.
LEMMA RenumbersTwice ==
  ASSUME NEW i \in Nat, NEW n \in Nat, NEW w, IsNetwork(w, i, n),
         NEW y \in Seq(Nat \X Nat), Len(y) = n, NEW z,
         NEW p \in Renumberings(n), Renumbers(p, w, y, i),
         NEW q \in Renumberings(n), Renumbers(q, y, z, i)
  PROVE  \E r \in Renumberings(n) : Renumbers(r, w, z, i)
<1> DEFINE r == [a \in 1..n |-> q[p[a]]]
<1>1. /\ p \in [1..n -> 1..n] /\ \A a, b \in 1..n : p[a] = p[b] => a = b
      /\ q \in [1..n -> 1..n] /\ \A a, b \in 1..n : q[a] = q[b] => a = b
  BY Numbers
<1>2. r \in Renumberings(n)
  <2>1. r \in [1..n -> 1..n]
    BY <1>1
  <2>2. \A a, b \in 1..n : r[a] = r[b] => a = b
    <3> TAKE a, b \in 1..n
    <3>1. p[a] \in 1..n /\ p[b] \in 1..n
      BY <1>1
    <3> QED
      BY <1>1, <3>1
  <2> HIDE DEF r
  <2> QED
    BY <2>1, <2>2 DEF Renumberings
<1>3. \A a \in 1..n : p[a] \in 1..n /\ r[a] = q[p[a]]
  BY <1>1
<1> HIDE DEF r
<1>4. \A s \in 0..i + n - 1 : Renamed(q, i, Renamed(p, i, s)) = Renamed(r, i, s)
  <2> TAKE s \in 0..i + n - 1
  <2> PICK u : u = Renamed(p, i, s)
    OBVIOUS
  <2>1. /\ u \in 0..i + n - 1 /\ (s < i <=> u < i) /\ (s < i => u = s)
        /\ s >= i => s - i + 1 \in 1..n /\ u - i + 1 = p[s - i + 1]
    BY RenamedType
  <2>2. CASE s < i
    BY <2>1, <2>2 DEF Renamed
  <2>3. CASE s >= i
    <3>1. ~ (u < i) /\ ~ (s < i) /\ s - i + 1 \in 1..n /\ u - i + 1 = p[s - i + 1]
      BY <2>1, <2>3
    <3>2. q[u - i + 1] = r[s - i + 1]
      BY <1>3, <3>1
    <3>3. Renamed(q, i, u) = i + q[u - i + 1] - 1 /\ Renamed(r, i, s) = i + r[s - i + 1] - 1
      BY <3>1 DEF Renamed
    <3> QED
      BY <3>2, <3>3
  <2> QED
    BY <2>2, <2>3
<1>5. ASSUME NEW a \in 1..n
      PROVE  z[r[a]] = SortedPair(Renamed(r, i, w[a][1]), Renamed(r, i, w[a][2]))
  <2>1. w[a][1] \in 0..i + n - 1 /\ w[a][2] \in 0..i + n - 1 /\ Len(w) = n
    BY SourcesOf DEF IsNetwork
  <2> PICK u, v : u = Renamed(p, i, w[a][1]) /\ v = Renamed(p, i, w[a][2])
    OBVIOUS
  <2>2. u \in 0..i + n - 1 /\ v \in 0..i + n - 1
    BY <2>1, RenamedType
  <2>3. y[p[a]] = SortedPair(u, v)
    BY <2>1 DEF Renumbers
  <2> PICK b : b = p[a]
    OBVIOUS
  <2>4. z[q[b]] = SortedPair(Renamed(q, i, y[b][1]), Renamed(q, i, y[b][2]))
    BY <1>3 DEF Renumbers
  <2>5. z[q[b]] = SortedPair(Renamed(q, i, u), Renamed(q, i, v))
    BY <2>2, <2>3, <2>4, RenamedPair
  <2> QED
    BY <1>3, <1>4, <2>1, <2>5
<1> QED
  <2>1. Len(w) = n
    BY DEF IsNetwork
  <2> QED
    BY <1>2, <1>5, <2>1 DEF Renumbers

\* A network keeps its numbers if none is changed.
LEMMA KeepsNumbers ==
  ASSUME NEW i \in Nat, NEW n \in Nat, NEW w, IsNetwork(w, i, n)
  PROVE  [a \in 1..n |-> a] \in Renumberings(n) /\ Renumbers([a \in 1..n |-> a], w, w, i)
<1> DEFINE id == [a \in 1..n |-> a]
<1>1. id \in Renumberings(n)
  BY DEF Renumberings
<1>2. \A s \in 0..i + n - 1 : Renamed(id, i, s) = s
  <2> TAKE s \in 0..i + n - 1
  <2>1. CASE s < i
    BY <2>1 DEF Renamed
  <2>2. CASE ~ (s < i)
    <3>1. s - i + 1 \in 1..n
      BY <2>2
    <3>2. id[s - i + 1] = s - i + 1
      BY <3>1
    <3> HIDE DEF id
    <3>3. Renamed(id, i, s) = i + (s - i + 1) - 1
      BY <2>2, <3>2 DEF Renamed
    <3> QED
      BY <3>3
  <2> QED
    BY <2>1, <2>2
<1>3. \A a \in 1..n : id[a] = a
  OBVIOUS
<1> HIDE DEF id
<1>4. ASSUME NEW a \in 1..n
      PROVE  w[a] = SortedPair(Renamed(id, i, w[a][1]), Renamed(id, i, w[a][2]))
  <2>1. /\ w[a] = <<w[a][1], w[a][2]>> /\ w[a][1] <= w[a][2]
        /\ w[a][1] \in 0..i + n - 1 /\ w[a][2] \in 0..i + n - 1
    BY SourcesOf
  <2> QED
    BY <1>2, <2>1 DEF SortedPair
<1>5. Renumbers(id, w, w, i)
  <2>1. Len(w) = n
    BY DEF IsNetwork
  <2> QED
    BY <1>3, <1>4, <2>1 DEF Renumbers
<1> QED
  BY <1>1, <1>5 DEF id

\* A network is among those that its renumberings can be renumbered to.
LEMMA ClassHolds ==
  ASSUME NEW i \in Nat, NEW n \in Nat, NEW w, IsNetwork(w, i, n), NEW z, IsNetwork(z, i, n),
         NEW p \in Renumberings(n), Renumbers(p, w, z, i)
  PROVE  w \in Class(z, i)
<1>1. PICK q \in Renumberings(n) : Undoes(q, p, n)
  BY Inverses
<1>2. /\ w \in Seq(Nat \X Nat) /\ Len(w) = n /\ z \in Seq(Nat \X Nat) /\ Len(z) = n
  BY DEF IsNetwork
<1>3. Renumbers(q, z, w, i)
  BY <1>1, <1>2, RenumbersBack
<1>4. /\ Renumber(z, i, q) \in Seq(Nat \X Nat) /\ Len(Renumber(z, i, q)) = n
      /\ Renumbers(q, z, Renumber(z, i, q), i)
  BY RenumberRenumbers
<1>5. w = Renumber(z, i, q)
  BY <1>2, <1>3, <1>4, RenumbersOnce
<1> QED
  BY <1>2, <1>5 DEF Class

\* Networks that can be renumbered to the same ones are renumberings of each
\* other.
LEMMA ClassesMeet ==
  ASSUME NEW i \in Nat, NEW n \in Nat, NEW w, IsNetwork(w, i, n), NEW z, IsNetwork(z, i, n),
         Class(w, i) = Class(z, i)
  PROVE  \E p \in Renumberings(n) : Renumbers(p, w, z, i)
<1>1. [a \in 1..n |-> a] \in Renumberings(n) /\ Renumbers([a \in 1..n |-> a], z, z, i)
  BY KeepsNumbers
<1>2. z \in Class(z, i)
  BY <1>1, ClassHolds
<1>3. PICK p \in Renumberings(n) : z = Renumber(w, i, p)
  <2>1. Len(w) = n
    BY DEF IsNetwork
  <2>2. z \in Class(w, i)
    BY <1>2
  <2> QED
    BY <2>1, <2>2 DEF Class
<1> QED
  BY <1>3, RenumberRenumbers

\* A source has the same truth table under its new number.
LEMMA TruthKept ==
  ASSUME NEW i \in Nat, NEW n \in Nat, NEW w, IsNetwork(w, i, n), NEW z, IsNetwork(z, i, n),
         NEW p \in Renumberings(n), Renumbers(p, w, z, i)
  PROVE  \A s \in 0..i + n - 1 : Truth(z, i)[Renamed(p, i, s)] = Truth(w, i)[s]
<1> PICK on, om : on = Truth(w, i) /\ om = Truth(z, i)
  OBVIOUS
<1> DEFINE Bad == {s \in 0..i + n - 1 : om[Renamed(p, i, s)] # on[s]}
<1>1. /\ w \in Seq(Nat \X Nat) /\ Len(w) = n /\ Ordered(w, i)
      /\ z \in Seq(Nat \X Nat) /\ Len(z) = n /\ Ordered(z, i)
  BY DEF IsNetwork
<1>2. FollowsWiring(on, w, i) /\ FollowsWiring(om, z, i)
  BY <1>1, TruthTables
<1>3. ASSUME Bad # {}
      PROVE  FALSE
  <2>1. Bad \subseteq Nat
    OBVIOUS
  <2>2. PICK s \in Bad : \A r \in Bad : s <= r
    BY <1>3, <2>1, LeastExists
  <2>3. /\ s \in 0..i + n - 1 /\ om[Renamed(p, i, s)] # on[s]
        /\ \A r \in 0..s - 1 : om[Renamed(p, i, r)] = on[r]
    <3>1. s \in 0..i + n - 1 /\ om[Renamed(p, i, s)] # on[s]
      BY <2>2
    <3>2. \A r \in 0..s - 1 : om[Renamed(p, i, r)] = on[r]
      <4> SUFFICES ASSUME NEW r \in 0..s - 1, om[Renamed(p, i, r)] # on[r]
                   PROVE  FALSE
        OBVIOUS
      <4>1. r \in Bad
        BY <3>1
      <4> QED
        BY <2>2, <3>1, <4>1
    <3> QED
      BY <3>1, <3>2
  <2> HIDE DEF Bad
  <2> PICK t : t = Renamed(p, i, s)
    OBVIOUS
  <2>4. /\ t \in 0..i + n - 1 /\ (s < i <=> t < i) /\ (s < i => t = s)
        /\ s >= i => s - i + 1 \in 1..n /\ t - i + 1 = p[s - i + 1]
    BY <2>3, RenamedType
  <2>5. CASE s < i
    <3>1. on[s] = {r \in Rows(i) : s \in r} /\ om[s] = {r \in Rows(i) : s \in r}
      BY <1>1, <1>2, <2>3, <2>5 DEF FollowsWiring
    <3> QED
      BY <2>3, <2>4, <2>5, <3>1
  <2>6. CASE s >= i
    <3> PICK a : a = s - i + 1
      OBVIOUS
    <3>1. a \in 1..n /\ t - i + 1 = p[a] /\ t >= i
      BY <2>3, <2>4, <2>6
    <3>2. /\ w[a][1] \in 0..i + a - 2 /\ w[a][2] \in 0..i + a - 2
          /\ w[a][1] \in 0..i + n - 1 /\ w[a][2] \in 0..i + n - 1
      BY <3>1, SourcesOf
    <3>3. w[a][1] \in 0..s - 1 /\ w[a][2] \in 0..s - 1
      <4>1. i + a - 2 = s - 1
        BY <2>3
      <4> QED
        BY <3>2, <4>1
    <3> PICK u, v : u = Renamed(p, i, w[a][1]) /\ v = Renamed(p, i, w[a][2])
      OBVIOUS
    <3>4. u \in Nat /\ v \in Nat
      <4>1. u \in 0..i + n - 1 /\ v \in 0..i + n - 1
        BY <3>2, RenamedType
      <4> QED
        BY <4>1
    <3>5. om[u] = on[w[a][1]] /\ om[v] = on[w[a][2]]
      BY <2>3, <3>3
    <3>6. z[p[a]] = SortedPair(u, v)
      BY <1>1, <3>1 DEF Renumbers
    <3>7. om[z[p[a]][1]] \cap om[z[p[a]][2]] = om[u] \cap om[v]
      <4>1. CASE u <= v
        BY <3>6, <4>1 DEF SortedPair
      <4>2. CASE ~ (u <= v)
        BY <3>6, <4>2 DEF SortedPair
      <4> QED
        BY <4>1, <4>2
    <3>8. on[s] = Rows(i) \ (on[w[a][1]] \cap on[w[a][2]])
      BY <1>1, <1>2, <2>3, <2>6 DEF FollowsWiring
    <3>9. om[t] = Rows(i) \ (om[z[t - i + 1][1]] \cap om[z[t - i + 1][2]])
      BY <1>1, <1>2, <2>4, <3>1 DEF FollowsWiring
    <3>10. om[t] = Rows(i) \ (om[z[p[a]][1]] \cap om[z[p[a]][2]])
      BY <3>1, <3>9
    <3>11. om[t] = on[s]
      BY <3>5, <3>7, <3>8, <3>10
    <3> QED
      BY <2>3, <3>11
  <2> QED
    BY <2>3, <2>5, <2>6
<1>4. \A s \in 0..i + n - 1 : om[Renamed(p, i, s)] = on[s]
  BY <1>3
<1> QED
  BY <1>4

\* Sources that have the same new number are the same.
LEMMA RenamedOnce ==
  ASSUME NEW i \in Nat, NEW n \in Nat, NEW p \in Renumberings(n),
         NEW s \in 0..i + n - 1, NEW t \in 0..i + n - 1, Renamed(p, i, s) = Renamed(p, i, t)
  PROVE  s = t
<1>1. /\ s < i <=> Renamed(p, i, s) < i
      /\ s < i => Renamed(p, i, s) = s
      /\ s >= i => s - i + 1 \in 1..n /\ Renamed(p, i, s) - i + 1 = p[s - i + 1]
  BY RenamedType
<1>2. /\ t < i <=> Renamed(p, i, t) < i
      /\ t < i => Renamed(p, i, t) = t
      /\ t >= i => t - i + 1 \in 1..n /\ Renamed(p, i, t) - i + 1 = p[t - i + 1]
  BY RenamedType
<1>3. CASE s < i
  BY <1>1, <1>2, <1>3
<1>4. CASE s >= i
  <2>1. t >= i
    BY <1>1, <1>2, <1>4
  <2>2. s - i + 1 \in 1..n /\ t - i + 1 \in 1..n /\ p[s - i + 1] = p[t - i + 1]
    BY <1>1, <1>2, <1>4, <2>1
  <2>3. s - i + 1 = t - i + 1
    BY <2>2, Numbers
  <2> QED
    BY <2>3
<1> QED
  BY <1>3, <1>4

\* What makes a network useful does not depend on the numbers of its gates.
LEMMA UsefulKept ==
  ASSUME NEW i \in Nat, NEW n \in Nat, NEW w, IsNetwork(w, i, n), NEW z, IsNetwork(z, i, n),
         NEW p \in Renumberings(n), Renumbers(p, w, z, i), IsUseful(w, i)
  PROVE  IsUseful(z, i)
<1>1. Len(w) = n /\ Len(z) = n
  BY DEF IsNetwork
<1>2. \A m \in 1..n : \E a \in 1..n : p[a] = m
  BY IsOnto
<1> DEFINE u(a) == Renamed(p, i, w[a][1])
           v(a) == Renamed(p, i, w[a][2])
<1>3. ASSUME NEW a \in 1..n
      PROVE  /\ w[a] = <<w[a][1], w[a][2]>> /\ w[a][1] <= w[a][2]
             /\ w[a][1] \in 0..i + n - 1 /\ w[a][2] \in 0..i + n - 1
             /\ u(a) \in 0..i + n - 1 /\ v(a) \in 0..i + n - 1
             /\ p[a] \in 1..n /\ z[p[a]] = SortedPair(u(a), v(a))
             /\ {z[p[a]][1], z[p[a]][2]} = {u(a), v(a)}
  <2>1. /\ w[a] = <<w[a][1], w[a][2]>> /\ w[a][1] <= w[a][2]
        /\ w[a][1] \in 0..i + n - 1 /\ w[a][2] \in 0..i + n - 1
    BY SourcesOf
  <2>2. u(a) \in 0..i + n - 1 /\ v(a) \in 0..i + n - 1
    BY <2>1, RenamedType
  <2>3. p[a] \in 1..n
    BY Numbers
  <2>4. z[p[a]] = SortedPair(u(a), v(a))
    BY <1>1 DEF Renumbers
  <2>5. u(a) \in Nat /\ v(a) \in Nat
    BY <2>2
  <2> HIDE DEF u, v
  <2>6. {SortedPair(u(a), v(a))[1], SortedPair(u(a), v(a))[2]} = {u(a), v(a)}
    BY <2>5, PairInOrder
  <2> QED
    BY <2>1, <2>2, <2>3, <2>4, <2>6
<1>4. \A s \in 0..i - 1 : \E m \in 1..n : s \in {z[m][1], z[m][2]}
  <2> TAKE s \in 0..i - 1
  <2>1. PICK a \in 1..n : s \in {w[a][1], w[a][2]}
    BY <1>1 DEF IsUseful
  <2>2. s = u(a) \/ s = v(a)
    BY <2>1 DEF Renamed
  <2>3. p[a] \in 1..n /\ s \in {z[p[a]][1], z[p[a]][2]}
    <3> HIDE DEF u, v
    <3> QED
      BY <1>3, <2>2
  <2> QED
    BY <2>3
<1>5. ASSUME NEW a \in 1..n, NEW b \in 1..n, z[p[a]] = z[p[b]]
      PROVE  a = b
  <2>1. {u(a), v(a)} = {u(b), v(b)}
    <3> HIDE DEF u, v
    <3> QED
      BY <1>3, <1>5
  <2>2. \/ u(a) = u(b) /\ v(a) = v(b)
        \/ u(a) = v(b) /\ v(a) = u(b)
    <3> HIDE DEF u, v
    <3> QED
      BY <2>1
  <2>3. \/ w[a][1] = w[b][1] /\ w[a][2] = w[b][2]
        \/ w[a][1] = w[b][2] /\ w[a][2] = w[b][1]
    BY <1>3, <2>2, RenamedOnce
  <2>4. w[a][1] = w[b][1] /\ w[a][2] = w[b][2]
    <3>1. /\ w[a][1] \in Nat /\ w[a][2] \in Nat /\ w[a][1] <= w[a][2]
          /\ w[b][1] \in Nat /\ w[b][2] \in Nat /\ w[b][1] <= w[b][2]
      BY <1>3
    <3> QED
      BY <2>3, <3>1
  <2>5. w[a] = w[b]
    BY <1>3, <2>4
  <2> QED
    BY <1>1, <2>5 DEF IsUseful
<1>6. \A m, k \in 1..n : z[m] = z[k] => m = k
  <2> SUFFICES ASSUME NEW m \in 1..n, NEW k \in 1..n, z[m] = z[k]
               PROVE  m = k
    OBVIOUS
  <2>1. PICK a \in 1..n : p[a] = m
    BY <1>2
  <2>2. PICK b \in 1..n : p[b] = k
    BY <1>2
  <2> QED
    BY <1>5, <2>1, <2>2
<1>7. ASSUME NEW a \in 1..n, NEW b \in 1..n, z[p[b]] = <<i + p[a] - 1, i + p[a] - 1>>,
             z[p[a]][1] = z[p[a]][2]
      PROVE  FALSE
  <2> PICK c : c = i + p[a] - 1
    OBVIOUS
  <2>1. u(b) = c /\ v(b) = c
    <3>1. {z[p[b]][1], z[p[b]][2]} = {c}
      BY <1>7
    <3>2. {z[p[b]][1], z[p[b]][2]} = {u(b), v(b)}
      BY <1>3
    <3> HIDE DEF u, v
    <3> QED
      BY <3>1, <3>2
  <2>2. i + a - 1 \in 0..i + n - 1 /\ ~ (i + a - 1 < i) /\ (i + a - 1) - i + 1 = a
    OBVIOUS
  <2>3. Renamed(p, i, i + a - 1) = c
    BY <2>2 DEF Renamed
  <2>4. w[b][1] = i + a - 1 /\ w[b][2] = i + a - 1
    <3> PICK s : s = i + a - 1
      OBVIOUS
    <3>1. s \in 0..i + n - 1 /\ w[b][1] \in 0..i + n - 1 /\ w[b][2] \in 0..i + n - 1
      BY <1>3, <2>2
    <3>2. Renamed(p, i, w[b][1]) = Renamed(p, i, s) /\ Renamed(p, i, w[b][2]) = Renamed(p, i, s)
      BY <2>1, <2>3
    <3>3. w[b][1] = s /\ w[b][2] = s
      BY <3>1, <3>2, RenamedOnce
    <3> QED
      BY <3>3
  <2>5. w[b] = <<i + a - 1, i + a - 1>>
    BY <1>3, <2>4
  <2>6. w[a][1] # w[a][2]
    BY <1>1, <2>5 DEF IsUseful
  <2>7. u(a) = v(a)
    <3>1. {z[p[a]][1], z[p[a]][2]} = {u(a), v(a)}
      BY <1>3
    <3> HIDE DEF u, v
    <3> QED
      BY <1>7, <3>1
  <2> QED
    BY <1>3, <2>6, <2>7, RenamedOnce
<1>8. \A m, k \in 1..n : z[k] = <<i + m - 1, i + m - 1>> => z[m][1] # z[m][2]
  <2> SUFFICES ASSUME NEW m \in 1..n, NEW k \in 1..n,
                      z[k] = <<i + m - 1, i + m - 1>>, z[m][1] = z[m][2]
               PROVE  FALSE
    OBVIOUS
  <2>1. PICK a \in 1..n : p[a] = m
    BY <1>2
  <2>2. PICK b \in 1..n : p[b] = k
    BY <1>2
  <2> QED
    BY <1>7, <2>1, <2>2
<1> PICK on, om : on = Truth(w, i) /\ om = Truth(z, i)
  OBVIOUS
<1>9. \A s \in 0..i + n - 1 : om[Renamed(p, i, s)] = on[s]
  BY TruthKept
<1>10. \A m \in 0..n - 1 : om[i + m] \notin {{}, Rows(i)} \cup {om[s] : s \in 0..i - 1}
  <2> SUFFICES ASSUME NEW m \in 0..n - 1
               PROVE  om[i + m] \notin {{}, Rows(i)} \cup {om[s] : s \in 0..i - 1}
    OBVIOUS
  <2>1. m + 1 \in 1..n
    OBVIOUS
  <2>2. PICK a \in 1..n : p[a] = m + 1
    BY <1>2, <2>1
  <2>3. i + a - 1 \in 0..i + n - 1 /\ ~ (i + a - 1 < i) /\ (i + a - 1) - i + 1 = a
    OBVIOUS
  <2>4. Renamed(p, i, i + a - 1) = i + m
    <3>1. Renamed(p, i, i + a - 1) = i + p[a] - 1
      BY <2>3 DEF Renamed
    <3> QED
      BY <2>2, <3>1
  <2>5. om[i + m] = on[i + (a - 1)]
    <3>1. om[i + m] = on[i + a - 1]
      BY <1>9, <2>3, <2>4
    <3>2. i + a - 1 = i + (a - 1)
      OBVIOUS
    <3> QED
      BY <3>1, <3>2
  <2>6. \A s \in 0..i - 1 : om[s] = on[s]
    <3> TAKE s \in 0..i - 1
    <3>1. s \in 0..i + n - 1 /\ Renamed(p, i, s) = s
      BY DEF Renamed
    <3> QED
      BY <1>9, <3>1
  <2>7. a - 1 \in 0..n - 1
    OBVIOUS
  <2>8. on[i + (a - 1)] \notin {{}, Rows(i)} \cup {on[s] : s \in 0..i - 1}
    <3>1. \A e \in 0..Len(w) - 1 :
            Truth(w, i)[i + e] \notin {{}, Rows(i)} \cup {Truth(w, i)[s] : s \in 0..i - 1}
      BY DEF IsUseful
    <3> QED
      BY <1>1, <2>7, <3>1
  <2> QED
    BY <2>5, <2>6, <2>8
<1>11. \A m \in 0..Len(z) - 1 :
         Truth(z, i)[i + m] \notin {{}, Rows(i)} \cup {Truth(z, i)[s] : s \in 0..i - 1}
  BY <1>1, <1>10
<1> QED
  BY <1>1, <1>4, <1>6, <1>8, <1>11 DEF IsUseful
-----------------------------------------------------------------------------
\* LoopFree().

\* The networks with one gate more, over that many sources.
MoreGates(nets, k) == {Append(net, pair) : net \in nets, pair \in SortedPairs(k)}

\* Each of them is made of one of the networks.
LEMMA MoreGatesMade ==
  ASSUME NEW nets, NEW k, NEW w \in MoreGates(nets, k)
  PROVE  \E net \in nets, pair \in SortedPairs(k) : w = Append(net, pair)
BY SMT DEF MoreGates

\* f[m] are the networks of m gates.
Adds(f, i, k) ==
  /\ f = [m \in 0..k |-> f[m]]
  /\ \A m \in 0..k : f[m] = IF m = 0 THEN {<< >>}
                            ELSE MoreGates(f[m - 1], i + m - 1)

\* The recursion that adds one gate after the other has a solution.
LEMMA AdditionExists ==
  ASSUME NEW i, NEW N \in Nat
  PROVE  \E f : Adds(f, i, N)
<1> DEFINE Exists(k) == \E f : Adds(f, i, k)
           Bad == {k \in 0..N : ~ Exists(k)}
<1> HIDE DEF Exists
<1>1. ASSUME Bad # {}
      PROVE  FALSE
  <2>1. Bad \subseteq Nat
    OBVIOUS
  <2>2. PICK k \in Bad : \A c \in Bad : k <= c
    BY <1>1, <2>1, LeastExists
  <2>3. k \in 0..N /\ ~ Exists(k)
    BY <2>2
  <2>4. k # 0
    <3> DEFINE f == [m \in 0..0 |-> {<< >>}]
    <3>1. \A m \in 0..0 : m = 0
      OBVIOUS
    <3>2. f = [m \in 0..0 |-> f[m]] /\ \A m \in 0..0 : f[m] = {<< >>}
      OBVIOUS
    <3> HIDE DEF f
    <3>3. Adds(f, i, 0)
      BY <3>1, <3>2 DEF Adds
    <3>4. Exists(0)
      BY <3>3 DEF Exists
    <3> QED
      BY <2>3, <3>4
  <2>5. k - 1 \in 0..N /\ k - 1 \notin Bad
    BY <2>2, <2>3, <2>4
  <2>6. PICK f : Adds(f, i, k - 1)
    BY <2>5 DEF Exists
  <2> DEFINE Body(h, m) == IF m = 0 THEN {<< >>}
                           ELSE MoreGates(h[m - 1], i + m - 1)
             g == [m \in 0..k |-> IF m # k THEN f[m] ELSE Body(f, k)]
  <2>7. \A m \in 0..k : g[m] = Body(f, m)
    <3> TAKE m \in 0..k
    <3>1. CASE m = k
      BY <3>1
    <3>2. CASE m # k
      <4>1. m \in 0..k - 1
        BY <2>3, <3>2
      <4>2. f[m] = Body(f, m)
        BY <2>6, <4>1 DEF Adds
      <4> QED
        BY <3>2, <4>2
    <3> QED
      BY <3>1, <3>2
  <2>8. \A m \in 0..k : g[m] = Body(g, m)
    <3> TAKE m \in 0..k
    <3>1. CASE m = 0
      BY <2>7, <3>1
    <3>2. CASE m # 0
      <4>1. m - 1 \in 0..k /\ m - 1 # k
        BY <2>3, <3>2
      <4>2. g[m - 1] = f[m - 1]
        BY <4>1
      <4> HIDE DEF g
      <4> QED
        BY <2>7, <3>2, <4>2
    <3> QED
      BY <3>1, <3>2
  <2>9. g = [m \in 0..k |-> g[m]]
    OBVIOUS
  <2>10. Exists(k)
    <3> HIDE DEF g
    <3> QED
      BY <2>8, <2>9 DEF Exists, Adds
  <2> QED
    BY <2>3, <2>10
<1>2. N \in 0..N
  OBVIOUS
<1>3. Exists(N)
  BY <1>1, <1>2
<1> QED
  BY <1>3 DEF Exists

\* A gate whose sources are in order, behind a network.
LEMMA GateAdded ==
  ASSUME NEW i \in Nat, NEW n \in Nat \ {0}, NEW w, IsNetwork(w, i, n - 1),
         NEW pair \in SortedPairs(i + n - 1)
  PROVE  IsNetwork(Append(w, pair), i, n)
<1> PICK z : z = Append(w, pair)
  OBVIOUS
<1>1. w \in Seq(Nat \X Nat) /\ Len(w) = n - 1
  BY DEF IsNetwork
<1>2. /\ pair \in Nat \X Nat /\ pair[1] <= pair[2]
      /\ pair[1] \in 0..i + n - 2 /\ pair[2] \in 0..i + n - 2
  <2>1. pair \in (0..i + n - 1 - 1) \X (0..i + n - 1 - 1) /\ pair[1] <= pair[2]
    BY DEF SortedPairs
  <2>2. i + n - 1 - 1 = i + n - 2
    OBVIOUS
  <2> QED
    BY <2>1, <2>2
<1>3. /\ z \in Seq(Nat \X Nat) /\ Len(z) = n /\ z[n] = pair
      /\ \A a \in 1..n - 1 : z[a] = w[a]
  BY <1>1, <1>2
<1>4. \A a \in 1..n : a = n \/ a \in 1..n - 1
  OBVIOUS
<1>5. \A a \in 1..n : /\ z[a][1] <= z[a][2]
                      /\ z[a][1] \in 0..i + a - 2 /\ z[a][2] \in 0..i + a - 2
  <2> TAKE a \in 1..n
  <2>1. CASE a = n
    BY <1>2, <1>3, <2>1
  <2>2. CASE a \in 1..n - 1
    <3>1. /\ w[a][1] <= w[a][2]
          /\ w[a][1] \in 0..i + a - 2 /\ w[a][2] \in 0..i + a - 2
      BY <1>1, <2>2 DEF IsNetwork, Ordered
    <3> QED
      BY <1>3, <2>2, <3>1
  <2> QED
    BY <1>4, <2>1, <2>2
<1> QED
  BY <1>3, <1>5 DEF IsNetwork, Ordered

\* The elements of LoopFree() are networks in an order that can be evaluated.
LEMMA LoopFreeOrdered ==
  ASSUME NEW i \in Nat, NEW n \in Nat, NEW w \in LoopFree(i, n)
  PROVE  IsNetwork(w, i, n)
<1> DEFINE Is(nets) == nets = [m \in 0..n |->
        IF m = 0 THEN {<< >>}
        ELSE MoreGates(nets[m - 1], i + m - 1)]
<1>1. PICK f : Adds(f, i, n)
  BY AdditionExists
<1>2. Is(f)
  BY <1>1 DEF Adds
<1>3. LoopFree(i, n) = (CHOOSE nets : Is(nets))[n]
  BY DEF LoopFree, MoreGates
<1>4. PICK h : h = CHOOSE nets : Is(nets)
  OBVIOUS
<1>5. Is(h)
  <2> HIDE DEF Is
  <2> QED
    BY <1>2, <1>4
<1>6. \A m \in 0..n :
        h[m] = IF m = 0 THEN {<< >>}
               ELSE MoreGates(h[m - 1], i + m - 1)
  BY <1>5
<1> DEFINE Bad == {m \in 0..n : \E net \in h[m] : ~ IsNetwork(net, i, m)}
<1>7. ASSUME Bad # {}
      PROVE  FALSE
  <2>1. Bad \subseteq Nat
    OBVIOUS
  <2>2. PICK m \in Bad : \A c \in Bad : m <= c
    BY <1>7, <2>1, LeastExists
  <2>3. m \in 0..n
    BY <2>2
  <2>4. PICK net \in h[m] : ~ IsNetwork(net, i, m)
    BY <2>2
  <2>5. CASE m = 0
    <3>1. net = << >>
      BY <1>6, <2>3, <2>4, <2>5
    <3>2. net \in Seq(Nat \X Nat) /\ Len(net) = 0
      BY <3>1
    <3>3. IsNetwork(net, i, 0)
      BY <3>2 DEF IsNetwork, Ordered
    <3> QED
      BY <2>4, <2>5, <3>3
  <2>6. CASE m # 0
    <3>1. m \in Nat \ {0} /\ m - 1 \in 0..n /\ ~ (m <= m - 1)
      BY <2>3, <2>6
    <3>2. PICK old \in h[m - 1], pair \in SortedPairs(i + m - 1) : net = Append(old, pair)
      <4>1. net \in MoreGates(h[m - 1], i + m - 1)
        BY <1>6, <2>3, <2>4, <2>6
      <4> QED
        BY <4>1, MoreGatesMade
    <3>3. m - 1 \notin Bad
      BY <2>2, <3>1
    <3>4. IsNetwork(old, i, m - 1)
      BY <3>1, <3>2, <3>3
    <3> QED
      BY <2>4, <3>1, <3>2, <3>4, GateAdded
  <2> QED
    BY <2>5, <2>6
<1>8. n \in 0..n /\ w \in h[n]
  BY <1>3, <1>4
<1> QED
  BY <1>7, <1>8
=============================================================================
