--------------------------- MODULE CatalogueProofs ---------------------------
(***************************************************************************)
(* The catalogue of a network of any size, for any limit of outputs: the   *)
(* odometer lists every set of outputs once, and a network offers one key  *)
(* for each set of outputs that leaves no gate idle.                       *)
(***************************************************************************)
EXTENDS Catalogue, SharedFacts
-----------------------------------------------------------------------------
\* Combinations: k increasing gates out of N, in lexicographic order.

Increasing(N, k) == {x \in [1..k -> 0..N - 1] : \A m, n \in 1..k : m < n => x[m] < x[n]}
Before(k, x, y)  == \E n \in 1..k : x[n] < y[n] /\ \A m \in 1..n - 1 : x[m] = y[m]

\* Two lists of numbers that differ do so at a first place.
LEMMA FirstDifference ==
  ASSUME NEW k \in Nat, NEW x \in [1..k -> Int], NEW y \in [1..k -> Int], x # y
  PROVE  \E n \in 1..k : x[n] # y[n] /\ \A m \in 1..n - 1 : x[m] = y[m]
<1> DEFINE D == {n \in 1..k : x[n] # y[n]}
<1>1. D \subseteq Nat /\ D # {}
  <2>1. PICK n \in 1..k : x[n] # y[n]
    OBVIOUS
  <2>2. n \in D
    BY <2>1
  <2>3. D \subseteq Nat
    OBVIOUS
  <2> QED
    BY <2>2, <2>3
<1>2. PICK n \in D : \A m \in D : n <= m
  BY <1>1, LeastExists
<1>3. \A m \in 1..n - 1 : m \notin D /\ m \in 1..k
  BY <1>2
<1> QED
  BY <1>2, <1>3

\* Before is the order of the first difference.
LEMMA BeforeTotal ==
  ASSUME NEW N \in Nat, NEW k \in Nat, NEW x \in Increasing(N, k), NEW y \in Increasing(N, k),
         x # y
  PROVE  Before(k, x, y) \/ Before(k, y, x)
<1>1. x \in [1..k -> Int] /\ y \in [1..k -> Int]
  BY DEF Increasing
<1>2. PICK n \in 1..k : x[n] # y[n] /\ \A m \in 1..n - 1 : x[m] = y[m]
  BY <1>1, FirstDifference
<1>3. x[n] < y[n] \/ y[n] < x[n]
  BY <1>1, <1>2
<1> QED
  BY <1>2, <1>3 DEF Before

LEMMA BeforeIrreflexive ==
  ASSUME NEW N \in Nat, NEW k \in Nat, NEW x \in Increasing(N, k)
  PROVE  ~ Before(k, x, x)
<1>1. \A n \in 1..k : x[n] \in Int
  BY DEF Increasing
<1> QED
  BY <1>1 DEF Before

LEMMA BeforeTransitive ==
  ASSUME NEW N \in Nat, NEW k \in Nat, NEW x \in Increasing(N, k), NEW y \in Increasing(N, k),
         NEW z \in Increasing(N, k), Before(k, x, y), Before(k, y, z)
  PROVE  Before(k, x, z)
<1>1. \A n \in 1..k : x[n] \in Int /\ y[n] \in Int /\ z[n] \in Int
  BY DEF Increasing
<1>2. PICK a \in 1..k : x[a] < y[a] /\ \A m \in 1..a - 1 : x[m] = y[m]
  BY DEF Before
<1>3. PICK b \in 1..k : y[b] < z[b] /\ \A m \in 1..b - 1 : y[m] = z[m]
  BY DEF Before
<1>4. CASE a <= b
  <2>1. x[a] < z[a]
    BY <1>1, <1>2, <1>3, <1>4
  <2>2. \A m \in 1..a - 1 : x[m] = z[m]
    BY <1>2, <1>3, <1>4
  <2> QED
    BY <2>1, <2>2 DEF Before
<1>5. CASE b < a
  <2>1. x[b] < z[b]
    BY <1>1, <1>2, <1>3, <1>5
  <2>2. \A m \in 1..b - 1 : x[m] = z[m]
    BY <1>2, <1>3, <1>5
  <2> QED
    BY <2>1, <2>2 DEF Before
<1> QED
  BY <1>4, <1>5

\* An output leaves room for those behind it.
LEMMA UpperBound ==
  ASSUME NEW N \in Nat, NEW k \in Nat, NEW x \in Increasing(N, k), NEW m \in 1..k
  PROVE  x[m] <= N - 1 - (k - m)
<1> DEFINE D == {n \in 1..k : ~ (x[n] <= N - 1 - (k - n))}
<1>1. \A n \in 1..k : x[n] \in 0..N - 1
  BY DEF Increasing
<1>2. ASSUME D # {}
      PROVE  FALSE
  <2>1. PICK n \in D : \A d \in D : d <= n
    BY <1>2, LastExists
  <2>2. n # k
    BY <1>1, <2>1
  <2>3. n + 1 \in 1..k /\ n + 1 \notin D
    BY <2>1, <2>2
  <2>4. x[n] < x[n + 1]
    BY <2>1, <2>3 DEF Increasing
  <2> QED
    BY <1>1, <2>1, <2>3, <2>4
<1> QED
  BY <1>2

\* The first combination: nothing is before it.
LEMMA FirstCombination ==
  ASSUME NEW N \in Nat, NEW k \in Nat, k <= N
  PROVE  /\ [n \in 1..k |-> n - 1] \in Increasing(N, k)
         /\ \A x \in Increasing(N, k) : ~ Before(k, x, [n \in 1..k |-> n - 1])
<1> DEFINE s == [n \in 1..k |-> n - 1]
<1>1. s \in Increasing(N, k)
  BY DEF Increasing
<1>2. ASSUME NEW x \in Increasing(N, k), NEW n \in 1..k,
             x[n] < s[n], \A m \in 1..n - 1 : x[m] = s[m]
      PROVE  FALSE
  <2>1. \A m \in 1..k : x[m] \in 0..N - 1
    BY DEF Increasing
  <2>2. n # 1
    BY <1>2, <2>1
  <2>3. n - 1 \in 1..n - 1 /\ n - 1 \in 1..k
    BY <2>2
  <2>4. x[n - 1] = s[n - 1]
    BY <1>2, <2>3
  <2>5. x[n - 1] < x[n]
    BY <2>3 DEF Increasing
  <2> QED
    BY <1>2, <2>1, <2>3, <2>4, <2>5
<1> QED
  BY <1>1, <1>2 DEF Before

\* If the outputs behind place p are as far up as they go, a combination that
\* agrees up to p is before this one or is this one.
LEMMA AsFarUp ==
  ASSUME NEW N \in Nat, NEW k \in Nat, NEW s \in Increasing(N, k), NEW x \in Increasing(N, k),
         NEW p \in 0..k, \A m \in 1..p : x[m] = s[m],
         \A m \in 1..k : m > p => ~ (s[m] + 1 < N - (k - m))
  PROVE  x = s \/ Before(k, x, s)
<1>1. x \in [1..k -> 0..N - 1] /\ s \in [1..k -> 0..N - 1]
  BY DEF Increasing
<1>2. \A m \in 1..k : x[m] <= s[m]
  <2> SUFFICES ASSUME NEW m \in 1..k
               PROVE  x[m] <= s[m]
    OBVIOUS
  <2>1. CASE m <= p
    BY <1>1, <2>1
  <2>2. CASE m > p
    <3>1. x[m] <= N - 1 - (k - m)
      BY UpperBound
    <3>2. ~ (s[m] + 1 < N - (k - m))
      BY <2>2
    <3> QED
      BY <1>1, <3>1, <3>2
  <2> QED
    BY <2>1, <2>2
<1>3. \A m \in 1..k : ~ (s[m] < x[m])
  BY <1>1, <1>2
<1>4. ~ Before(k, s, x)
  BY <1>3 DEF Before
<1> QED
  BY <1>4, BeforeTotal

\* The successor of a combination: the last output that can moves up, and
\* nothing is in between.
LEMMA NextCombination ==
  ASSUME NEW N \in Nat, NEW k \in Nat, NEW s \in Increasing(N, k), NEW o \in 1..k,
         s[o] + 1 < N - (k - o),
         \A m \in 1..k : m > o => ~ (s[m] + 1 < N - (k - m)),
         NEW t, t = [n \in 1..k |-> IF n < o THEN s[n] ELSE s[o] + 1 + (n - o)]
  PROVE  /\ t \in Increasing(N, k)
         /\ \A x \in Increasing(N, k) : Before(k, x, t) <=> x = s \/ Before(k, x, s)
<1>1. /\ s \in [1..k -> 0..N - 1] /\ \A n \in 1..k : s[n] \in 0..N - 1
      /\ \A m, n \in 1..k : m < n => s[m] < s[n]
  BY DEF Increasing
<1>2. \A n \in 1..k : t[n] = IF n < o THEN s[n] ELSE s[o] + 1 + (n - o)
  OBVIOUS
<1>3. t \in Increasing(N, k)
  <2>1. ASSUME NEW n \in 1..k
        PROVE  t[n] \in 0..N - 1
    <3>1. s[o] \in 0..N - 1 /\ s[n] \in 0..N - 1
      BY <1>1
    <3>2. t[n] = IF n < o THEN s[n] ELSE s[o] + 1 + (n - o)
      BY <1>2
    <3>3. CASE n < o
      BY <3>1, <3>2, <3>3
    <3>4. CASE ~ (n < o)
      <4>1. t[n] = s[o] + 1 + (n - o)
        BY <3>2, <3>4
      <4>2. s[o] \in Nat /\ n \in Nat /\ o \in Nat /\ n <= k /\ n >= o
        BY <3>1, <3>4
      <4> QED
        BY <4>1, <4>2
    <3> QED
      BY <3>3, <3>4
  <2>2. ASSUME NEW m \in 1..k, NEW n \in 1..k, m < n
        PROVE  t[m] < t[n]
    <3>1. m < o => s[m] < s[o]
      BY <1>1
    <3>2. s[m] < s[n]
      BY <1>1, <2>2
    <3>3. /\ t[m] = IF m < o THEN s[m] ELSE s[o] + 1 + (m - o)
          /\ t[n] = IF n < o THEN s[n] ELSE s[o] + 1 + (n - o)
      BY <1>2
    <3>4. s[m] \in Int /\ s[n] \in Int /\ s[o] \in Int /\ m \in Int /\ n \in Int /\ o \in Int
      BY <1>1
    <3>5. CASE n < o
      BY <2>2, <3>2, <3>3, <3>4, <3>5
    <3>6. CASE ~ (n < o) /\ m < o
      <4>1. t[m] = s[m] /\ t[n] = s[o] + 1 + (n - o) /\ n >= o
        BY <3>3, <3>4, <3>6
      <4> QED
        BY <3>1, <3>4, <3>6, <4>1
    <3>7. CASE ~ (n < o) /\ ~ (m < o)
      <4>1. t[m] = s[o] + 1 + (m - o) /\ t[n] = s[o] + 1 + (n - o)
        BY <3>3, <3>7
      <4> QED
        BY <2>2, <3>4, <4>1
    <3> QED
      BY <3>5, <3>6, <3>7
  <2>3. t \in [1..k -> 0..N - 1]
    BY <2>1
  <2> QED
    BY <2>2, <2>3 DEF Increasing
<1>4. \A m \in 1..o - 1 : m \in 1..k /\ t[m] = s[m]
  BY <1>2
<1>5. Before(k, s, t)
  <2>1. s[o] < t[o]
    BY <1>1, <1>2
  <2> QED
    BY <1>4, <2>1 DEF Before
<1>6. ASSUME NEW x \in Increasing(N, k), Before(k, x, t)
      PROVE  x = s \/ Before(k, x, s)
  <2>1. PICK n \in 1..k : x[n] < t[n] /\ \A m \in 1..n - 1 : x[m] = t[m]
    BY <1>6 DEF Before
  <2>2. \A m \in 1..k : x[m] \in Int
    BY DEF Increasing
  <2>3. CASE n < o
    <3>1. n \in 1..o - 1 /\ \A m \in 1..n - 1 : m \in 1..o - 1
      BY <2>3
    <3>2. x[n] < s[n] /\ \A m \in 1..n - 1 : x[m] = s[m]
      BY <1>4, <2>1, <3>1
    <3> QED
      BY <3>2 DEF Before
  <2>4. CASE n = o
    <3>1. \A m \in 1..o - 1 : x[m] = s[m]
      BY <1>4, <2>1, <2>4
    <3>2. x[o] < s[o] \/ x[o] = s[o]
      BY <1>1, <1>2, <2>1, <2>2, <2>4
    <3>3. CASE x[o] < s[o]
      BY <3>1, <3>3 DEF Before
    <3>4. CASE x[o] = s[o]
      <4>1. \A m \in 1..o : x[m] = s[m]
        BY <3>1, <3>4
      <4>2. o \in 0..k
        OBVIOUS
      <4> QED
        BY <4>1, <4>2, AsFarUp
    <3> QED
      BY <3>2, <3>3, <3>4
  <2>5. CASE n > o
    <3>1. n - 1 \in 1..n - 1 /\ n - 1 \in 1..k /\ n - 1 >= o
      BY <2>5
    <3>2. x[n - 1] = t[n - 1]
      BY <2>1, <3>1
    <3>3. t[n] = t[n - 1] + 1 /\ t[n] \in Int
      BY <1>1, <1>2, <2>5, <3>1
    <3>4. x[n - 1] < x[n]
      BY <3>1 DEF Increasing
    <3> QED
      BY <2>1, <2>2, <3>1, <3>2, <3>3, <3>4
  <2> QED
    BY <2>3, <2>4, <2>5
<1> QED
  BY <1>3, <1>5, <1>6, BeforeTransitive

\* The last combination: everything else is before it.
LEMMA LastCombination ==
  ASSUME NEW N \in Nat, NEW k \in Nat, NEW s \in Increasing(N, k),
         \A m \in 1..k : ~ (s[m] + 1 < N - (k - m))
  PROVE  \A x \in Increasing(N, k) : x = s \/ Before(k, x, s)
<1> SUFFICES ASSUME NEW x \in Increasing(N, k)
             PROVE  x = s \/ Before(k, x, s)
  OBVIOUS
<1>1. 0 \in 0..k /\ \A m \in 1..0 : x[m] = s[m]
  OBVIOUS
<1> QED
  BY <1>1, AsFarUp
-----------------------------------------------------------------------------
\* Combinations and sets of gates.

\* A combination of k outputs has k gates.
LEMMA CombinationIsSet ==
  ASSUME NEW N \in Nat, NEW k \in Nat, NEW x \in Increasing(N, k)
  PROVE  GatesOf(x) \in kSubset(k, 0..N - 1)
<1>1. x \in [1..k -> 0..N - 1] /\ \A n \in 1..k : x[n] \in Int
  BY DEF Increasing
<1>2. ASSUME NEW a \in 1..k, NEW b \in 1..k, x[a] = x[b]
      PROVE  a = b
  <2>1. ~ (a < b) /\ ~ (b < a)
    BY <1>1, <1>2 DEF Increasing
  <2> QED
    BY <2>1
<1>3. /\ \A a \in 1..k : x[a] \in GatesOf(x)
      /\ \A g \in GatesOf(x) : \E a \in 1..k : g = x[a]
  BY <1>1 DEF GatesOf
<1>4. Cardinality(GatesOf(x)) = k
  BY <1>2, <1>3, ListWithoutRepetition
<1>5. GatesOf(x) \subseteq 0..N - 1
  BY <1>1, <1>3
<1> QED
  BY <1>4, <1>5 DEF kSubset

\* A set of gates makes one combination only.
LEMMA CombinationOfSet ==
  ASSUME NEW N \in Nat, NEW k \in Nat, NEW x \in Increasing(N, k), NEW y \in Increasing(N, k),
         GatesOf(x) = GatesOf(y)
  PROVE  x = y
<1> SUFFICES ASSUME NEW u \in Increasing(N, k), NEW v \in Increasing(N, k),
                    GatesOf(u) = GatesOf(v), Before(k, u, v)
             PROVE  FALSE
  BY BeforeTotal
<1>1. /\ u \in [1..k -> 0..N - 1] /\ \A n \in 1..k : u[n] \in Int
      /\ v \in [1..k -> 0..N - 1] /\ \A n \in 1..k : v[n] \in Int
  BY DEF Increasing
<1>2. PICK n \in 1..k : u[n] < v[n] /\ \A m \in 1..n - 1 : u[m] = v[m]
  BY DEF Before
<1>3. PICK m \in 1..k : u[n] = v[m]
  BY <1>1 DEF GatesOf
<1>4. CASE m < n
  <2>1. u[m] = v[m] /\ u[m] < u[n]
    BY <1>2, <1>4 DEF Increasing
  <2> QED
    BY <1>1, <1>3, <2>1
<1>5. CASE m = n
  BY <1>1, <1>2, <1>3, <1>5
<1>6. CASE n < m
  <2>1. v[n] < v[m]
    BY <1>6 DEF Increasing
  <2> QED
    BY <1>1, <1>2, <1>3, <2>1
<1> QED
  BY <1>4, <1>5, <1>6

\* Every set of k gates makes a combination: list it by rank.
LEMMA SetIsCombination ==
  ASSUME NEW N \in Nat, NEW k \in Nat, NEW S \in kSubset(k, 0..N - 1)
  PROVE  \E x \in Increasing(N, k) : GatesOf(x) = S
<1> DEFINE Below(y) == {z \in S : z <= y}
           rank == [y \in S |-> Cardinality(Below(y))]
           ranks == {rank[y] : y \in S}
<1>1. S \subseteq 0..N - 1 /\ Cardinality(S) = k
  BY DEF kSubset
<1>2. IsFiniteSet(S)
  <2>1. IsFiniteSet(0..N - 1)
    BY FS_Interval
  <2> QED
    BY <1>1, <2>1, FS_Subset
<1>3. ASSUME NEW y \in S
      PROVE  rank[y] \in 1..k
  <2>1. Below(y) \subseteq S
    OBVIOUS
  <2>2. y \in Below(y)
    BY <1>1
  <2>3. IsFiniteSet(Below(y)) /\ Cardinality(Below(y)) <= k
    BY <1>1, <1>2, <2>1, FS_Subset
  <2>4. Cardinality(Below(y)) \in Nat /\ Cardinality(Below(y)) # 0
    BY <2>2, <2>3, FS_CardinalityType, FS_EmptySet
  <2> QED
    BY <2>3, <2>4
<1>4. ASSUME NEW y \in S, NEW z \in S, y < z
      PROVE  rank[y] < rank[z]
  <2>1. Below(y) \subseteq Below(z) /\ z \in Below(z) /\ z \notin Below(y)
    <3>1. y \in Int /\ z \in Int /\ \A v \in S : v \in Int
      BY <1>1
    <3>2. \A v \in S : v <= y => v <= z
      BY <1>4, <3>1
    <3>3. z <= z /\ ~ (z <= y)
      BY <1>4, <3>1
    <3> QED
      BY <3>2, <3>3
  <2>2. IsFiniteSet(Below(z))
    BY <1>2, FS_Subset
  <2>3. Below(y) # Below(z)
    BY <2>1
  <2> HIDE DEF Below
  <2>4. /\ Cardinality(Below(y)) <= Cardinality(Below(z))
        /\ Cardinality(Below(y)) # Cardinality(Below(z))
    BY <2>1, <2>2, <2>3, FS_Subset
  <2>5. rank[y] = Cardinality(Below(y)) /\ rank[z] = Cardinality(Below(z))
    OBVIOUS
  <2> QED
    BY <1>3, <2>4, <2>5
<1> HIDE DEF rank
<1>5. \A y, z \in S : rank[y] = rank[z] => y = z
  <2> TAKE y, z \in S
  <2>1. y \in Int /\ z \in Int /\ rank[y] \in Int /\ rank[z] \in Int
    BY <1>1, <1>3
  <2> QED
    BY <1>4, <2>1
<1>6. ranks = 1..k
  <2>1. [y \in S |-> rank[y]] \in Bijection(S, ranks)
    BY <1>5 DEF Bijection, Injection, Surjection, IsInjective
  <2>2. Cardinality(ranks) = k
    BY <1>1, <1>2, <2>1, FS_Bijection DEF ExistsBijection
  <2>3. ranks \subseteq 1..k
    BY <1>3
  <2>4. IsFiniteSet(1..k) /\ Cardinality(1..k) = k
    BY FS_Interval
  <2> QED
    BY <2>2, <2>3, <2>4, FS_Subset
<1>7. \A n \in 1..k : \E y \in S : rank[y] = n
  BY <1>6
<1> DEFINE x == [n \in 1..k |-> CHOOSE y \in S : rank[y] = n]
<1>8. \A n \in 1..k : x[n] \in S /\ rank[x[n]] = n
  BY <1>7
<1>9. DOMAIN x = 1..k /\ x \in [1..k -> 0..N - 1]
  BY <1>1, <1>8
<1> HIDE DEF x
<1>10. ASSUME NEW m \in 1..k, NEW n \in 1..k, m < n
       PROVE  x[m] < x[n]
  <2>1. x[m] \in S /\ rank[x[m]] = m /\ x[n] \in S /\ rank[x[n]] = n
    BY <1>8
  <2>2. x[m] \in Int /\ x[n] \in Int
    BY <1>9
  <2>3. ~ (rank[x[n]] < rank[x[m]]) /\ rank[x[n]] # rank[x[m]]
    BY <1>10, <2>1
  <2> QED
    BY <1>4, <2>1, <2>2, <2>3
<1>11. x \in Increasing(N, k)
  BY <1>9, <1>10 DEF Increasing
<1>12. GatesOf(x) = S
  <2>1. \A y \in S : rank[y] \in 1..k /\ x[rank[y]] = y
    BY <1>3, <1>5, <1>8
  <2> QED
    BY <1>8, <1>9, <2>1 DEF GatesOf
<1> QED
  BY <1>11, <1>12
-----------------------------------------------------------------------------
\* The invariant.

\* There are as many truth tables as a network has outputs, so that the size
\* limit leaves room for a key.  Of the networks that gatebuilder builds only
\* those of 2 inputs and 11 gates can have more outputs, with all 11 gates: the
\* limit is 0 then, and such a key would have two equal outputs.
KeysExist == \A pair \in Networks : \A o \in 1..MaxOutputs :
  o <= Len(pair[2]) => MaxSize(pair[1], o) # Number(0)

TypeInv ==
  /\ TypeOK
  /\ DOMAIN combinations = Outputs /\ DOMAIN offers = Outputs
  /\ \A o \in Outputs :
       /\ combinations[o] \in Seq(Increasing(NumGates, o))
       /\ offers[o] \in Seq({Key(outs) : outs \in kSubset(o, Gates)})
  /\ combo \in Nat \ {0}
  /\ pc = "advance" => /\ num_outputs <= MaxOutputs /\ num_outputs <= NumGates
                       /\ sys_outputs \in Increasing(NumGates, num_outputs)
  /\ pc = "try" => num_outputs <= MaxOutputs /\ num_outputs <= NumGates

Lists(o, x) == \E c \in 1..Len(combinations[o]) : combinations[o][c] = x
ListsAll(o) == IF o <= NumGates THEN \A x \in Increasing(NumGates, o) : Lists(o, x)
               ELSE combinations[o] = << >>

\* A list has no combination twice.  While it is made it has the combinations
\* before the one at hand, and the lists after it are empty.
ListInv == \A o \in Outputs :
  /\ \A a, b \in 1..Len(combinations[o]) : combinations[o][a] = combinations[o][b] => a = b
  /\ (pc \notin {"build", "advance"} \/ o < num_outputs) => ListsAll(o)
  /\ (pc = "build" /\ o >= num_outputs) => combinations[o] = << >>
  /\ (pc = "advance" /\ o > num_outputs) => combinations[o] = << >>
  /\ (pc = "advance" /\ o = num_outputs) =>
       \A x \in Increasing(NumGates, o) : Lists(o, x) <=> Before(o, x, sys_outputs)

\* Of the first combinations of o outputs, those that leave no gate idle.
Fit(o, c) == {d \in 1..c : Idle(GatesOf(combinations[o][d])) = {}}

\* Their keys, and nothing else, have been offered, each once.
OfferedUpTo(o, c) ==
  /\ Len(offers[o]) = Cardinality(Fit(o, c))
  /\ \A n \in 1..Len(offers[o]) : \E d \in Fit(o, c) :
       offers[o][n] = Key(GatesOf(combinations[o][d]))
  /\ \A d \in Fit(o, c) : \E n \in 1..Len(offers[o]) :
       offers[o][n] = Key(GatesOf(combinations[o][d]))

\* Catalogue() has offered what fits, up to where its loops are.
OfferInv ==
  /\ pc \in {"build", "advance"} => combo = 1 /\ \A o \in Outputs : offers[o] = << >>
  /\ pc \in {"outputs", "try"} => \A o \in Outputs :
       /\ o < num_outputs => OfferedUpTo(o, Len(combinations[o]))
       /\ o = num_outputs => combo <= Len(combinations[o]) + 1 /\ OfferedUpTo(o, combo - 1)
       /\ o > num_outputs => offers[o] = << >>
  /\ pc = "outputs" /\ num_outputs > MaxOutputs => combo = 1
  /\ (pc = "done" /\ ~ aborted) => \A o \in Outputs : OfferedUpTo(o, Len(combinations[o]))
-----------------------------------------------------------------------------
\* Types.

\* The network is the same throughout, and with it all that depends on nothing else.
LEMMA NetworkStays ==
  ASSUME [Next]_vars
  PROVE  /\ num_inputs' = num_inputs /\ net' = net
         /\ NumGates' = NumGates /\ Gates' = Gates
         /\ \A outs : Key(outs)' = Key(outs) /\ Idle(outs)' = Idle(outs)
<1>1. num_inputs' = num_inputs /\ net' = net
  BY DEF Next, vars, network, FirstOutputs, NextOutputs, SkipOutputs, TryOutputs, SkipCombination,
         Offer, Abort, Return, Finished
<1>2. NumGates' = NumGates /\ Gates' = Gates
  BY <1>1 DEF NumGates, Gates
<1>3. \A outs : Key(outs)' = Key(outs)
  BY <1>1 DEF Key
<1>4. \A outs : Idle(outs)' = Idle(outs)
  BY <1>1, <1>2 DEF Idle
<1> QED
  BY <1>1, <1>2, <1>3, <1>4

\* What the assumption on the networks says of the one at hand.
LEMMA NetworkType ==
  ASSUME TypeOK
  PROVE  /\ num_inputs \in Nat \ {0} /\ net \in Seq(Nat \X Nat)
         /\ NumGates \in Nat /\ Gates = 0..NumGates - 1
         /\ IsFiniteSet(Gates) /\ Cardinality(Gates) = NumGates
<1>1. <<num_inputs, net>> \in (Nat \ {0}) \X Seq(Nat \X Nat)
  BY CatalogueAssumption DEF TypeOK, network
<1>2. num_inputs \in Nat \ {0} /\ net \in Seq(Nat \X Nat)
  BY <1>1
<1>3. NumGates \in Nat
  BY <1>2 DEF NumGates
<1>4. IsFiniteSet(0..NumGates - 1) /\ Cardinality(0..NumGates - 1) = NumGates
  BY <1>3, FS_Interval
<1> QED
  BY <1>2, <1>3, <1>4 DEF Gates

\* The outputs that Catalogue() selects are as many gates as it says.
LEMMA SelectedGates ==
  ASSUME TypeInv, NEW o \in Outputs, NEW d \in 1..Len(combinations[o])
  PROVE  /\ combinations[o][d] \in Increasing(NumGates, o)
         /\ GatesOf(combinations[o][d]) \in kSubset(o, Gates)
<1>1. combinations[o][d] \in Increasing(NumGates, o)
  <2>1. combinations[o] \in Seq(Increasing(NumGates, o))
    BY DEF TypeInv
  <2> QED
    BY <2>1
<1>2. NumGates \in Nat /\ Gates = 0..NumGates - 1 /\ o \in Nat
  BY NetworkType DEF TypeInv, Outputs
<1> QED
  BY <1>1, <1>2, CombinationIsSet

LEMMA InitTypes == Init => TypeInv
<1> SUFFICES ASSUME Init
             PROVE  TypeInv
  OBVIOUS
<1>1. network \in Networks
  BY CatalogueAssumption DEF Init, network
<1>2. MaxOutputs \in Nat \ {0}
  BY CatalogueAssumption
<1>3. TypeOK
  <2>1. pc = "build" /\ num_outputs \in 1..MaxOutputs + 1
    BY <1>2 DEF Init
  <2>2. aborted \in BOOLEAN
    BY Zenon DEF Init
  <2> QED
    BY <1>1, <2>1, <2>2 DEF TypeOK
<1>4. DOMAIN combinations = Outputs /\ DOMAIN offers = Outputs
  BY DEF Init
<1>5. \A o \in Outputs :
        /\ combinations[o] \in Seq(Increasing(NumGates, o))
        /\ offers[o] \in Seq({Key(outs) : outs \in kSubset(o, Gates)})
  BY DEF Init
<1> QED
  BY <1>3, <1>4, <1>5 DEF TypeInv, Init

\* MoveUp as the successor of a combination.
LEMMA MovesUp ==
  ASSUME TypeInv, pc = "advance", Movable # {},
         NEW s, s = MoveUp(Max(Movable))
  PROVE  /\ s \in Increasing(NumGates, num_outputs)
         /\ \A x \in Increasing(NumGates, num_outputs) :
              Before(num_outputs, x, s) <=>
                x = sys_outputs \/ Before(num_outputs, x, sys_outputs)
<1> DEFINE o == Max(Movable)
<1>1. /\ num_outputs \in Nat /\ NumGates \in Nat
      /\ sys_outputs \in Increasing(NumGates, num_outputs)
  BY NetworkType DEF TypeInv, TypeOK
<1>2. Movable \subseteq 1..num_outputs
  BY DEF Movable
<1>3. o \in Movable /\ \A m \in Movable : m <= o
  BY <1>1, <1>2, MaxIsGreatest
<1> HIDE DEF o
<1>4. o \in 1..num_outputs /\ sys_outputs[o] + 1 < NumGates - (num_outputs - o)
  BY <1>3 DEF Movable
<1>5. \A m \in 1..num_outputs : m > o => ~ (sys_outputs[m] + 1 < NumGates - (num_outputs - m))
  <2> SUFFICES ASSUME NEW m \in 1..num_outputs, m > o,
                      sys_outputs[m] + 1 < NumGates - (num_outputs - m)
               PROVE  FALSE
    OBVIOUS
  <2>1. m \in Movable
    BY DEF Movable
  <2> QED
    BY <1>1, <1>3, <1>4, <2>1
<1>6. s = [n \in 1..num_outputs |->
            IF n < o THEN sys_outputs[n] ELSE sys_outputs[o] + 1 + (n - o)]
  BY DEF MoveUp, o
<1> QED
  BY <1>1, <1>4, <1>5, <1>6, NextCombination

\* Without movable outputs the combination is the last one.
LEMMA MovesNoMore ==
  ASSUME TypeInv, pc = "advance", Movable = {}
  PROVE  \A x \in Increasing(NumGates, num_outputs) :
           x = sys_outputs \/ Before(num_outputs, x, sys_outputs)
<1>1. /\ num_outputs \in Nat /\ NumGates \in Nat
      /\ sys_outputs \in Increasing(NumGates, num_outputs)
  BY NetworkType DEF TypeInv, TypeOK
<1>2. \A m \in 1..num_outputs : ~ (sys_outputs[m] + 1 < NumGates - (num_outputs - m))
  BY DEF Movable
<1> QED
  BY <1>1, <1>2, LastCombination

\* Every step keeps the types.
LEMMA TypesKept == TypeInv /\ [Next]_vars => TypeInv'
<1> SUFFICES ASSUME TypeInv, [Next]_vars
             PROVE  TypeInv'
  OBVIOUS
<1>1. /\ num_inputs' = num_inputs /\ net' = net
      /\ NumGates' = NumGates /\ Gates' = Gates
      /\ \A outs : Key(outs)' = Key(outs)
  BY NetworkStays
<1>2. /\ network \in Networks /\ pc \in {"build", "advance", "outputs", "try", "done"}
      /\ num_outputs \in 1..MaxOutputs + 1 /\ aborted \in BOOLEAN
  BY DEF TypeInv, TypeOK
<1>3. network' \in Networks
  BY <1>1, <1>2 DEF network
<1>4. MaxOutputs \in Nat \ {0} /\ NumGates \in Nat /\ Gates = 0..NumGates - 1
  BY CatalogueAssumption, NetworkType DEF TypeInv
<1> DEFINE Combos(o) == Increasing(NumGates, o)
           Offerable(o) == {Key(outs) : outs \in kSubset(o, Gates)}
<1>5. /\ DOMAIN combinations = Outputs /\ DOMAIN offers = Outputs
      /\ \A o \in Outputs : combinations[o] \in Seq(Combos(o)) /\ offers[o] \in Seq(Offerable(o))
      /\ combo \in Nat \ {0}
  BY DEF TypeInv
<1>6. \A o \in Outputs : Increasing(NumGates', o) = Combos(o)
  BY <1>1
<1>7. \A o \in Outputs : {Key(outs)' : outs \in kSubset(o, Gates')} = Offerable(o)
  BY <1>1
<1> HIDE DEF Combos, Offerable
<1>8. SUFFICES
        /\ pc' \in {"build", "advance", "outputs", "try", "done"}
        /\ num_outputs' \in 1..MaxOutputs + 1 /\ aborted' \in BOOLEAN
        /\ DOMAIN combinations' = Outputs /\ DOMAIN offers' = Outputs
        /\ \A o \in Outputs :
             combinations'[o] \in Seq(Combos(o)) /\ offers'[o] \in Seq(Offerable(o))
        /\ combo' \in Nat \ {0}
        /\ pc' = "advance" => /\ num_outputs' <= MaxOutputs /\ num_outputs' <= NumGates
                              /\ sys_outputs' \in Combos(num_outputs')
        /\ pc' = "try" => /\ num_outputs' <= MaxOutputs /\ num_outputs' <= NumGates
                          /\ combo' \in 1..Len(combinations'[num_outputs'])
  <2>1. ASSUME NEW o \in Outputs, NEW s \in Combos(o)
        PROVE  /\ s \in [1..o -> Gates]
               /\ \A m, n \in 1..o : m < n => s[m] < s[n]
    BY <1>4 DEF Combos, Increasing
  <2>2. pc' = "advance" => num_outputs' \in Outputs
    BY <1>4, <1>8 DEF Outputs
  <2>3. TypeOK'
    BY <1>1, <1>3, <1>8, <2>1, <2>2 DEF TypeOK
  <2>4. pc' = "advance" => sys_outputs' \in Increasing(NumGates', num_outputs')
    BY <1>6, <1>8, <2>2
  <2> QED
    BY <1>1, <1>6, <1>7, <1>8, <2>3, <2>4 DEF TypeInv
<1>9. CASE FirstOutputs
  <2>1. num_outputs <= MaxOutputs /\ num_outputs <= NumGates =>
          [n \in 1..num_outputs |-> n - 1] \in Combos(num_outputs)
    BY <1>2, <1>4, FirstCombination DEF Combos
  <2> QED
    BY <1>2, <1>4, <1>5, <1>9, <2>1 DEF FirstOutputs, offerVars
<1>10. CASE NextOutputs
  <2>1. num_outputs \in Outputs /\ sys_outputs \in Combos(num_outputs)
    BY <1>2, <1>4, <1>10 DEF NextOutputs, TypeInv, Combos, Outputs
  <2>2. Append(combinations[num_outputs], sys_outputs) \in Seq(Combos(num_outputs))
    BY <1>5, <2>1
  <2>3. /\ DOMAIN combinations' = Outputs
        /\ \A o \in Outputs : combinations'[o] \in Seq(Combos(o))
    BY <1>5, <1>10, <2>1, <2>2 DEF NextOutputs
  <2>4. CASE Movable # {}
    <3>1. MoveUp(Max(Movable)) \in Combos(num_outputs)
      BY <1>10, <2>4, MovesUp DEF NextOutputs, Combos
    <3>2. num_outputs <= MaxOutputs /\ num_outputs <= NumGates /\ pc = "advance"
      BY <1>10 DEF NextOutputs, TypeInv
    <3> QED
      BY <1>2, <1>4, <1>5, <1>10, <2>3, <2>4, <3>1, <3>2 DEF NextOutputs, offerVars
  <2>5. CASE Movable = {}
    <3>1. num_outputs + 1 \in 1..MaxOutputs + 1
      BY <1>4, <2>1 DEF Outputs
    <3> QED
      BY <1>2, <1>5, <1>10, <2>3, <2>5, <3>1 DEF NextOutputs, offerVars
  <2> QED
    BY <2>4, <2>5
<1>11. CASE SkipOutputs
  BY <1>2, <1>4, <1>5, <1>11 DEF SkipOutputs, buildVars
<1>12. CASE TryOutputs
  BY <1>2, <1>4, <1>5, <1>12 DEF TryOutputs, buildVars, offerVars
<1>13. CASE SkipCombination
  BY <1>2, <1>4, <1>5, <1>13 DEF SkipCombination, buildVars
<1>14. CASE Offer
  <2>1. /\ num_outputs \in Outputs
        /\ combo \in 1..Len(combinations[num_outputs])
    BY <1>2, <1>4, <1>14 DEF Offer, TypeInv, TypeOK, Outputs
  <2>2. Selected \in kSubset(num_outputs, Gates)
    BY <2>1, SelectedGates DEF Selected
  <2>3. Key(Selected) \in Offerable(num_outputs)
    BY <2>2 DEF Offerable
  <2>4. Append(offers[num_outputs], Key(Selected)) \in Seq(Offerable(num_outputs))
    BY <1>5, <2>1, <2>3
  <2>5. /\ DOMAIN offers' = Outputs
        /\ \A o \in Outputs : offers'[o] \in Seq(Offerable(o))
    BY <1>5, <1>14, <2>1, <2>4 DEF Offer
  <2> QED
    BY <1>2, <1>4, <1>5, <1>14, <2>5 DEF Offer, buildVars
<1>15. CASE Abort
  BY <1>2, <1>5, <1>15 DEF Abort, buildVars, offerVars
<1>16. CASE Return
  BY <1>2, <1>5, <1>16 DEF Return, buildVars, offerVars
<1>17. CASE UNCHANGED vars
  BY <1>1, <1>2, <1>4, <1>5, <1>17 DEF vars, buildVars, offerVars, TypeInv, TypeOK, Combos
<1> QED
  BY <1>9, <1>10, <1>11, <1>12, <1>13, <1>14, <1>15, <1>16, <1>17 DEF Next, Finished

LEMMA TypeInvariance == Spec => []TypeInv
<1> QED
  BY InitTypes, TypesKept, PTL DEF Spec

\* The variables have their types: what the odometer shows is an increasing
\* sequence of gates, and the loops stay within their lists (TypeOK).
THEOREM TypeCorrect == Spec => []TypeOK
<1>1. TypeInv => TypeOK
  BY DEF TypeInv
<1> QED
  BY <1>1, TypeInvariance, PTL
-----------------------------------------------------------------------------
\* The odometer.

\* A step that leaves the lists alone, and does not go back to building them.
LEMMA ListsKept ==
  ASSUME TypeInv, ListInv, [Next]_vars, combinations' = combinations,
         pc \notin {"build", "advance"}, pc' \notin {"build", "advance"}
  PROVE  ListInv'
<1>1. NumGates' = NumGates
  BY NetworkStays
<1>2. \A o \in Outputs :
        /\ \A a, b \in 1..Len(combinations[o]) :
             combinations[o][a] = combinations[o][b] => a = b
        /\ ListsAll(o)
  BY DEF ListInv
<1>3. \A o \in Outputs : ListsAll(o)'
  BY <1>1, <1>2 DEF ListsAll, Lists
<1> QED
  BY <1>2, <1>3 DEF ListInv

LEMMA InitList == Init => ListInv
<1> SUFFICES ASSUME Init
             PROVE  ListInv
  OBVIOUS
<1>1. pc = "build" /\ num_outputs = 1 /\ \A o \in Outputs : combinations[o] = << >>
  BY DEF Init
<1>2. \A o \in Outputs : ~ (o < 1)
  BY CatalogueAssumption DEF Outputs
<1> QED
  BY <1>1, <1>2 DEF ListInv

\* The first combination starts a list, or all lists are complete.
LEMMA FirstOutputsLists ==
  ASSUME TypeInv, TypeInv', ListInv, FirstOutputs
  PROVE  ListInv'
<1>1. NumGates' = NumGates
  BY NetworkStays DEF Next
<1>2. /\ num_outputs \in 1..MaxOutputs + 1 /\ MaxOutputs \in Nat /\ NumGates \in Nat
      /\ \A o \in Outputs : o \in 1..MaxOutputs
  BY CatalogueAssumption, NetworkType DEF TypeInv, TypeOK, Outputs
<1>3. pc = "build" /\ combinations' = combinations
  BY DEF FirstOutputs
<1>4. \A o \in Outputs :
        /\ \A a, b \in 1..Len(combinations[o]) :
             combinations[o][a] = combinations[o][b] => a = b
        /\ o < num_outputs => ListsAll(o)
        /\ o >= num_outputs => combinations[o] = << >>
  BY <1>3 DEF ListInv
<1>5. \A o \in Outputs : ListsAll(o) => ListsAll(o)'
  BY <1>1, <1>3 DEF ListsAll, Lists
<1>6. CASE num_outputs <= MaxOutputs /\ num_outputs <= NumGates
  <2>1. /\ sys_outputs' = [n \in 1..num_outputs |-> n - 1] /\ pc' = "advance"
        /\ num_outputs' = num_outputs
    BY <1>6 DEF FirstOutputs
  <2>2. \A x \in Increasing(NumGates, num_outputs) : ~ Before(num_outputs, x, sys_outputs')
    BY <1>2, <1>6, <2>1, FirstCombination
  <2>3. combinations[num_outputs] = << >> /\ num_outputs \in Outputs
    BY <1>2, <1>4, <1>6 DEF Outputs
  <2>4. \A x \in Increasing(NumGates, num_outputs) : ~ Lists(num_outputs, x)'
    BY <1>3, <2>1, <2>3 DEF Lists
  <2>5. \A x \in Increasing(NumGates', num_outputs) :
          Lists(num_outputs, x)' <=> Before(num_outputs, x, sys_outputs')
    BY <1>1, <2>2, <2>4
  <2>6. \A o \in Outputs : o > num_outputs => o >= num_outputs
    BY <1>2
  <2> QED
    BY <1>3, <1>4, <1>5, <2>1, <2>5, <2>6 DEF ListInv, Lists
<1>7. CASE ~ (num_outputs <= MaxOutputs /\ num_outputs <= NumGates)
  <2>1. pc' = "outputs"
    BY <1>7 DEF FirstOutputs
  <2>2. ASSUME NEW o \in Outputs
        PROVE  ListsAll(o)
    <3>1. o < num_outputs \/ (o >= num_outputs /\ o > NumGates)
      BY <1>2, <1>7
    <3> QED
      BY <1>2, <1>4, <3>1 DEF ListsAll
  <2> QED
    BY <1>3, <1>4, <1>5, <2>1, <2>2 DEF ListInv
<1> QED
  BY <1>6, <1>7

\* The combination at hand joins its list: it was not in it, and what comes
\* before its successor is what came before it and itself.
LEMMA NextOutputsLists ==
  ASSUME TypeInv, TypeInv', ListInv, NextOutputs
  PROVE  ListInv'
<1>1. NumGates' = NumGates
  BY NetworkStays DEF Next
<1> PICK k, s : k = num_outputs /\ s = sys_outputs
  OBVIOUS
<1>2. /\ pc = "advance" /\ k \in Outputs /\ k \in Nat /\ NumGates \in Nat /\ k <= NumGates
      /\ s \in Increasing(NumGates, k) /\ \A o \in Outputs : o \in Nat
  BY NetworkType DEF NextOutputs, TypeInv, TypeOK, Outputs
<1> DEFINE L == combinations[k]
           M == combinations'[k]
<1>3. L \in Seq(Increasing(NumGates, k)) /\ DOMAIN combinations = Outputs
  BY <1>2 DEF TypeInv
<1>4. M = Append(L, s) /\ \A o \in Outputs : o # k => combinations'[o] = combinations[o]
  BY <1>2, <1>3 DEF NextOutputs
<1>5. /\ \A a, b \in 1..Len(L) : L[a] = L[b] => a = b
      /\ \A x \in Increasing(NumGates, k) : Lists(k, x) <=> Before(k, x, s)
  BY <1>2 DEF ListInv
<1>6. ~ Lists(k, s)
  BY <1>2, <1>5, BeforeIrreflexive
<1>7. \A a \in 1..Len(L) : L[a] # s
  BY <1>6 DEF Lists
<1>8. Len(M) = Len(L) + 1 /\ Len(L) \in Nat
  BY <1>3, <1>4
<1>9. \A a \in 1..Len(M) : M[a] = IF a = Len(M) THEN s ELSE L[a]
  BY <1>3, <1>4, <1>8
<1>10. \A a, b \in 1..Len(M) : M[a] = M[b] => a = b
  <2> SUFFICES ASSUME NEW a \in 1..Len(M), NEW b \in 1..Len(M), M[a] = M[b]
               PROVE  a = b
    OBVIOUS
  <2>1. /\ M[a] = IF a = Len(M) THEN s ELSE L[a]
        /\ M[b] = IF b = Len(M) THEN s ELSE L[b]
    BY <1>9
  <2>2. a # Len(M) => a \in 1..Len(L)
    BY <1>8
  <2>3. b # Len(M) => b \in 1..Len(L)
    BY <1>8
  <2> HIDE DEF M, L
  <2> QED
    BY <1>5, <1>7, <2>1, <2>2, <2>3
<1>11. \A x : Lists(k, x)' <=> Lists(k, x) \/ x = s
  <2> SUFFICES ASSUME NEW x
               PROVE  (\E a \in 1..Len(M) : M[a] = x) <=> (\E a \in 1..Len(L) : L[a] = x) \/ x = s
    BY DEF Lists
  <2>1. \A a \in 1..Len(L) : a \in 1..Len(M) /\ M[a] = L[a]
    BY <1>8, <1>9
  <2>2. \A a \in 1..Len(M) : a \in 1..Len(L) \/ M[a] = s
    BY <1>8, <1>9
  <2>3. Len(M) \in 1..Len(M) /\ M[Len(M)] = s
    BY <1>8, <1>9
  <2> HIDE DEF M, L
  <2> QED
    BY <2>1, <2>2, <2>3
<1>12. \A o \in Outputs : o # k => (ListsAll(o) => ListsAll(o)')
  BY <1>1, <1>4 DEF ListsAll, Lists
<1>13. \A o \in Outputs :
         /\ \A a, b \in 1..Len(combinations[o]) :
              combinations[o][a] = combinations[o][b] => a = b
         /\ o < k => ListsAll(o)
         /\ o > k => combinations[o] = << >>
  BY <1>2 DEF ListInv
<1>14. \A o \in Outputs : \A a, b \in 1..Len(combinations'[o]) :
         combinations'[o][a] = combinations'[o][b] => a = b
  <2> SUFFICES ASSUME NEW o \in Outputs
               PROVE  \A a, b \in 1..Len(combinations'[o]) :
                        combinations'[o][a] = combinations'[o][b] => a = b
    OBVIOUS
  <2>1. CASE o = k
    BY <1>10, <2>1
  <2>2. CASE o # k
    <3>1. combinations'[o] = combinations[o]
      BY <1>4, <2>2
    <3> QED
      BY <1>13, <3>1
  <2> QED
    BY <2>1, <2>2
<1> HIDE DEF L, M
<1>15. CASE Movable # {}
  <2> PICK t : t = MoveUp(Max(Movable))
    OBVIOUS
  <2>1. sys_outputs' = t /\ pc' = "advance" /\ num_outputs' = k
    BY <1>2, <1>15 DEF NextOutputs
  <2>2. \A x \in Increasing(NumGates, k) : Before(k, x, t) <=> x = s \/ Before(k, x, s)
    BY <1>2, <1>15, MovesUp
  <2>3. \A x \in Increasing(NumGates', k) : Lists(k, x)' <=> Before(k, x, sys_outputs')
    BY <1>1, <1>5, <1>11, <2>1, <2>2
  <2> SUFFICES ASSUME NEW o \in Outputs
               PROVE  ListInv!(o)'
    BY DEF ListInv, Outputs
  <2>4. o < k => ListsAll(o)'
    BY <1>2, <1>12, <1>13
  <2>5. o > k => combinations'[o] = << >>
    BY <1>2, <1>4, <1>13
  <2> QED
    BY <1>14, <2>1, <2>3, <2>4, <2>5
<1>16. CASE Movable = {}
  <2>1. pc' = "build" /\ num_outputs' = k + 1
    BY <1>2, <1>16 DEF NextOutputs
  <2>2. \A x \in Increasing(NumGates, k) : x = s \/ Before(k, x, s)
    BY <1>2, <1>16, MovesNoMore
  <2>3. ListsAll(k)'
    BY <1>1, <1>2, <1>5, <1>11, <2>2 DEF ListsAll
  <2> SUFFICES ASSUME NEW o \in Outputs
               PROVE  ListInv!(o)'
    BY DEF ListInv, Outputs
  <2>4. o < k + 1 => ListsAll(o)'
    <3>1. o < k + 1 => o < k \/ o = k
      BY <1>2
    <3> QED
      BY <1>2, <1>12, <1>13, <2>3, <3>1
  <2>5. o >= k + 1 => combinations'[o] = << >>
    <3>1. o >= k + 1 => o # k /\ o > k
      BY <1>2
    <3>2. o # k => combinations'[o] = combinations[o]
      BY <1>4
    <3>3. o > k => combinations[o] = << >>
      BY <1>13
    <3> QED
      BY <3>1, <3>2, <3>3
  <2> QED
    BY <1>14, <2>1, <2>4, <2>5
<1> QED
  BY <1>15, <1>16

LEMMA ListInvKept == TypeInv /\ ListInv /\ [Next]_vars => ListInv'
<1> SUFFICES ASSUME TypeInv, ListInv, [Next]_vars
             PROVE  ListInv'
  OBVIOUS
<1>1. TypeInv'
  BY TypesKept
<1>2. CASE FirstOutputs \/ NextOutputs
  BY <1>1, <1>2, FirstOutputsLists, NextOutputsLists
<1>3. CASE \/ SkipOutputs \/ TryOutputs \/ SkipCombination \/ Offer \/ Abort \/ Return
  <2>1. /\ combinations' = combinations
        /\ pc \notin {"build", "advance"} /\ pc' \notin {"build", "advance"}
    BY <1>3 DEF SkipOutputs, TryOutputs, SkipCombination, Offer, Abort, Return, buildVars
  <2> QED
    BY <2>1, ListsKept
<1>4. CASE UNCHANGED vars
  <2>1. UNCHANGED <<num_inputs, net, pc, num_outputs, sys_outputs, combinations>>
    BY <1>4 DEF vars, network, buildVars
  <2> QED
    BY <2>1 DEF ListInv, ListsAll, Lists, NumGates
<1> QED
  BY <1>2, <1>3, <1>4 DEF Next, Finished

\* When Catalogue() begins, each list has every set of its number of gates and
\* none twice (CombinationsComplete).
THEOREM EveryCombinationOnce == Spec => []CombinationsComplete
<1>1. ASSUME TypeInv, ListInv
      PROVE  CombinationsComplete
  <2> SUFFICES ASSUME pc = "outputs", NEW o \in Outputs
               PROVE  LET sets == {GatesOf(combinations[o][c]) : c \in 1..Len(combinations[o])} IN
                      /\ sets = IF o <= NumGates THEN kSubset(o, Gates) ELSE {}
                      /\ Cardinality(sets) = Len(combinations[o])
    BY DEF CombinationsComplete
  <2> DEFINE L == combinations[o]
             sets == {GatesOf(L[c]) : c \in 1..Len(L)}
  <2>1. /\ ListsAll(o) /\ \A a, b \in 1..Len(L) : L[a] = L[b] => a = b
    BY <1>1 DEF ListInv
  <2>2. /\ NumGates \in Nat /\ o \in Nat /\ Gates = 0..NumGates - 1
        /\ L \in Seq(Increasing(NumGates, o))
    <3>1. TypeOK /\ L \in Seq(Increasing(NumGates, o))
      BY <1>1 DEF TypeInv
    <3>2. o \in Nat
      BY DEF Outputs
    <3> QED
      BY <3>1, <3>2, NetworkType
  <2>3. Len(L) \in Nat /\ \A c \in 1..Len(L) : L[c] \in Increasing(NumGates, o)
    BY <2>2
  <2>4. \A a, b \in 1..Len(L) : GatesOf(L[a]) = GatesOf(L[b]) => a = b
    BY <2>1, <2>2, <2>3, CombinationOfSet
  <2>5. Cardinality(sets) = Len(L)
    <3> DEFINE f == [c \in 1..Len(L) |-> GatesOf(L[c])]
    <3>1. /\ \A c \in 1..Len(L) : f[c] \in sets
          /\ \A x \in sets : \E c \in 1..Len(L) : x = f[c]
          /\ \A a, b \in 1..Len(L) : f[a] = f[b] => a = b
      BY <2>4
    <3> HIDE DEF f, sets, L
    <3> QED
      BY <2>3, <3>1, ListWithoutRepetition
  <2>6. sets = IF o <= NumGates THEN kSubset(o, Gates) ELSE {}
    <3>1. CASE o <= NumGates
      <4>1. \A c \in 1..Len(L) : GatesOf(L[c]) \in kSubset(o, Gates)
        BY <2>2, <2>3, CombinationIsSet
      <4>2. ASSUME NEW S \in kSubset(o, Gates)
            PROVE  \E c \in 1..Len(L) : GatesOf(L[c]) = S
        <5>1. PICK x \in Increasing(NumGates, o) : GatesOf(x) = S
          BY <2>2, SetIsCombination
        <5>2. PICK c \in 1..Len(L) : L[c] = x
          BY <2>1, <3>1 DEF ListsAll, Lists
        <5> QED
          BY <5>1, <5>2
      <4> QED
        BY <3>1, <4>1, <4>2
    <3>2. CASE ~ (o <= NumGates)
      <4>1. L = << >>
        BY <2>1, <3>2 DEF ListsAll
      <4> QED
        BY <3>2, <4>1
    <3> QED
      BY <3>1, <3>2
  <2> QED
    BY <2>5, <2>6
<1>2. Spec => []ListInv
  BY InitList, ListInvKept, TypeInvariance, PTL DEF Spec
<1> QED
  BY <1>1, <1>2, TypeInvariance, PTL
-----------------------------------------------------------------------------
\* The offers.

\* The test for idle gates: the used gates and the selected ones are all gates
\* if and only if no gate is idle.
LEMMA FitsIfNotIdle ==
  ASSUME TypeOK, NEW outs \in SUBSET Gates
  PROVE  UsedGates \cup outs = Gates <=> Idle(outs) = {}
<1>1. /\ num_inputs \in Nat /\ NumGates \in Nat /\ Gates \subseteq Nat
      /\ net \in Seq(Nat \X Nat)
  BY NetworkType
<1>2. \A n \in 1..NumGates, side \in 1..2 : net[n][side] \in Nat
  <2> SUFFICES ASSUME NEW n \in 1..NumGates, NEW side \in 1..2
               PROVE  net[n][side] \in Nat
    OBVIOUS
  <2>1. net[n] \in Nat \X Nat
    BY <1>1 DEF NumGates
  <2> QED
    BY <2>1
<1>3. ASSUME NEW g \in Gates
      PROVE  g \in UsedGates <=> \E n \in 1..NumGates, side \in 1..2 : net[n][side] = num_inputs + g
  <2>1. g \in UsedGates <=> \E n \in 1..NumGates, side \in 1..2 : g = net[n][side] - num_inputs
    BY DEF UsedGates
  <2>2. \A n \in 1..NumGates, side \in 1..2 :
          g = net[n][side] - num_inputs <=> net[n][side] = num_inputs + g
    <3> TAKE n \in 1..NumGates, side \in 1..2
    <3> PICK s \in Nat : s = net[n][side]
      BY <1>2
    <3>1. g \in Nat /\ num_inputs \in Nat
      BY <1>1
    <3>2. g = s - num_inputs <=> s = num_inputs + g
      BY <3>1
    <3> QED
      BY <3>2
  <2> QED
    BY <2>1, <2>2
<1>4. \A g \in Gates : g \in Idle(outs) <=> g \notin outs /\ g \notin UsedGates
  BY <1>3 DEF Idle
<1>5. UsedGates \subseteq Gates /\ Idle(outs) \subseteq Gates
  BY DEF UsedGates, Idle
<1> QED
  BY <1>4, <1>5

\* The early test: with too many unused gates every choice leaves one idle.
LEMMA TooFewOutputs ==
  ASSUME TypeOK, NEW o \in Nat, NumGates - Cardinality(UsedGates) > o,
         NEW S \in kSubset(o, Gates)
  PROVE  Idle(S) # {}
<1>1. NumGates \in Nat /\ IsFiniteSet(Gates) /\ Cardinality(Gates) = NumGates
  BY NetworkType
<1>2. S \subseteq Gates /\ Cardinality(S) = o /\ UsedGates \subseteq Gates
  BY DEF kSubset, UsedGates
<1>3. IsFiniteSet(S) /\ IsFiniteSet(UsedGates) /\ IsFiniteSet(UsedGates \cap S)
  BY <1>1, <1>2, FS_Subset
<1>4. Cardinality(UsedGates \cup S)
        = Cardinality(UsedGates) + Cardinality(S) - Cardinality(UsedGates \cap S)
  BY <1>3, FS_Union
<1>5. Cardinality(UsedGates) \in Nat /\ Cardinality(UsedGates \cap S) \in Nat
  BY <1>3, FS_CardinalityType
<1>6. UsedGates \cup S # Gates
  <2> SUFFICES ASSUME UsedGates \cup S = Gates
               PROVE  FALSE
    OBVIOUS
  <2>1. NumGates = Cardinality(UsedGates) + o - Cardinality(UsedGates \cap S)
    BY <1>1, <1>2, <1>4
  <2> QED
    BY <1>1, <1>5, <2>1
<1> QED
  BY <1>2, <1>6, FitsIfNotIdle

\* What has been offered of a list is not touched by offers of another.
LEMMA OffersKept ==
  ASSUME [Next]_vars, combinations' = combinations, NEW o, offers'[o] = offers[o], NEW c
  PROVE  OfferedUpTo(o, c)' <=> OfferedUpTo(o, c)
<1>1. /\ \A outs : Key(outs)' = Key(outs)
      /\ \A outs : Idle(outs)' = Idle(outs)
  BY NetworkStays
<1>2. Fit(o, c)' = Fit(o, c)
  BY <1>1 DEF Fit
<1> QED
  BY <1>1, <1>2 DEF OfferedUpTo

\* Of the first 0 combinations nothing fits.
LEMMA NothingOffered ==
  ASSUME NEW o, offers[o] = << >>
  PROVE  OfferedUpTo(o, 0)
<1>1. Fit(o, 0) = {}
  BY DEF Fit
<1>2. Cardinality(Fit(o, 0)) = 0
  BY <1>1, FS_EmptySet
<1> QED
  BY <1>1, <1>2 DEF OfferedUpTo

\* A combination with an idle gate changes nothing.
LEMMA SkippedOne ==
  ASSUME NEW o, NEW c \in Nat \ {0}, OfferedUpTo(o, c - 1),
         Idle(GatesOf(combinations[o][c])) # {}
  PROVE  OfferedUpTo(o, c)
<1>1. 1..c = (1..c - 1) \cup {c}
  OBVIOUS
<1>2. Fit(o, c) = Fit(o, c - 1)
  BY <1>1 DEF Fit
<1> QED
  BY <1>2 DEF OfferedUpTo

\* A combination that fits adds its key.
LEMMA OfferedOne ==
  ASSUME TypeInv, [Next]_vars, combinations' = combinations,
         NEW o \in Outputs, NEW c \in Nat \ {0}, OfferedUpTo(o, c - 1),
         Idle(GatesOf(combinations[o][c])) = {},
         offers'[o] = Append(offers[o], Key(GatesOf(combinations[o][c])))
  PROVE  OfferedUpTo(o, c)'
<1> DEFINE F == Fit(o, c - 1)
           KeyAt(d) == Key(GatesOf(combinations[o][d]))
           L == offers[o]
           M == offers'[o]
<1>1. /\ \A outs : Key(outs)' = Key(outs)
      /\ \A outs : Idle(outs)' = Idle(outs)
  BY NetworkStays
<1>2. 1..c = (1..c - 1) \cup {c} /\ c \notin 1..c - 1
  OBVIOUS
<1>3. Fit(o, c) = F \cup {c} /\ c \notin F
  BY <1>2 DEF Fit
<1>4. Fit(o, c)' = F \cup {c}
  BY <1>1, <1>3 DEF Fit
<1>5. IsFiniteSet(F)
  <2>1. IsFiniteSet(1..c - 1) /\ F \subseteq 1..c - 1
    BY FS_Interval DEF Fit
  <2> QED
    BY <2>1, FS_Subset
<1>6. Cardinality(F \cup {c}) = Cardinality(F) + 1
  BY <1>3, <1>5, FS_AddElement
<1>7. /\ Len(L) = Cardinality(F)
      /\ \A n \in 1..Len(L) : \E d \in F : L[n] = KeyAt(d)
      /\ \A d \in F : \E n \in 1..Len(L) : L[n] = KeyAt(d)
  BY DEF OfferedUpTo
<1>8. L \in Seq({Key(outs) : outs \in kSubset(o, Gates)})
  BY DEF TypeInv
<1>9. /\ Len(M) = Len(L) + 1 /\ Len(L) \in Nat
      /\ M[Len(M)] = KeyAt(c) /\ \A n \in 1..Len(L) : M[n] = L[n]
  BY <1>8
<1>10. \A d : Key(GatesOf(combinations[o][d]))' = KeyAt(d)
  <2> TAKE d
  <2> PICK x : x = GatesOf(combinations[o][d])
    OBVIOUS
  <2>1. GatesOf(combinations'[o][d]) = x
    OBVIOUS
  <2>2. Key(x)' = Key(x)
    BY <1>1
  <2> QED
    BY <2>1, <2>2
<1> SUFFICES /\ Len(M) = Cardinality(F \cup {c})
             /\ \A n \in 1..Len(M) : \E d \in F \cup {c} : M[n] = KeyAt(d)
             /\ \A d \in F \cup {c} : \E n \in 1..Len(M) : M[n] = KeyAt(d)
  <2> HIDE DEF F, KeyAt
  <2>1. \A n \in 1..Len(M) : \E d \in F \cup {c} : M[n] = Key(GatesOf(combinations[o][d]))'
    <3> SUFFICES ASSUME NEW n \in 1..Len(M)
                 PROVE  \E d \in F \cup {c} : M[n] = Key(GatesOf(combinations[o][d]))'
      OBVIOUS
    <3>1. PICK d \in F \cup {c} : M[n] = KeyAt(d)
      OBVIOUS
    <3>2. M[n] = Key(GatesOf(combinations[o][d]))'
      BY <1>10, <3>1
    <3> QED
      BY <3>2
  <2>2. \A d \in F \cup {c} : \E n \in 1..Len(M) : M[n] = Key(GatesOf(combinations[o][d]))'
    <3> SUFFICES ASSUME NEW d \in F \cup {c}
                 PROVE  \E n \in 1..Len(M) : M[n] = Key(GatesOf(combinations[o][d]))'
      OBVIOUS
    <3>1. PICK n \in 1..Len(M) : M[n] = KeyAt(d)
      OBVIOUS
    <3>2. M[n] = Key(GatesOf(combinations[o][d]))'
      BY <1>10, <3>1
    <3> QED
      BY <3>2
  <2> QED
    BY <1>4, <2>1, <2>2 DEF OfferedUpTo
<1> HIDE DEF F, KeyAt, L, M
<1>11. \A n \in 1..Len(M) : \E d \in F \cup {c} : M[n] = KeyAt(d)
  <2> TAKE n \in 1..Len(M)
  <2>1. n \in 1..Len(L) \/ n = Len(M)
    BY <1>9
  <2> QED
    BY <1>7, <1>9, <2>1
<1>12. \A d \in F \cup {c} : \E n \in 1..Len(M) : M[n] = KeyAt(d)
  <2> TAKE d \in F \cup {c}
  <2>1. \A n \in 1..Len(L) : n \in 1..Len(M)
    BY <1>9
  <2>2. Len(M) \in 1..Len(M)
    BY <1>9
  <2> QED
    BY <1>7, <1>9, <2>1, <2>2
<1> QED
  BY <1>6, <1>7, <1>9, <1>11, <1>12

\* A list from which nothing more can fit is as good as gone through.
LEMMA NothingMoreFits ==
  ASSUME TypeInv, NEW o \in Outputs, NEW c \in Nat, OfferedUpTo(o, c), c <= Len(combinations[o]),
         \A d \in 1..Len(combinations[o]) : Idle(GatesOf(combinations[o][d])) # {}
  PROVE  OfferedUpTo(o, Len(combinations[o]))
<1>1. \A d \in 1..c : d \in 1..Len(combinations[o])
  <2>1. combinations[o] \in Seq(Increasing(NumGates, o))
    BY DEF TypeInv
  <2> QED
    BY <2>1
<1>2. Fit(o, c) = {} /\ Fit(o, Len(combinations[o])) = {}
  BY <1>1 DEF Fit
<1> QED
  BY <1>2 DEF OfferedUpTo

\* When Catalogue() turns from a number of outputs to the next it has offered
\* what fits, although it may have looked at no combination.
LEMMA SkippedAll ==
  ASSUME KeysExist, TypeInv, ListInv, OfferInv, SkipOutputs
  PROVE  OfferedUpTo(num_outputs, Len(combinations[num_outputs]))
<1> PICK o : o = num_outputs
  OBVIOUS
<1>1. /\ pc = "outputs" /\ o \in Outputs /\ o \in Nat /\ o \in 1..MaxOutputs
      /\ combinations[o] \in Seq(Increasing(NumGates, o)) /\ combo \in Nat \ {0}
  <2>1. o \in 1..MaxOutputs + 1 /\ o <= MaxOutputs /\ MaxOutputs \in Nat /\ pc = "outputs"
    BY CatalogueAssumption DEF SkipOutputs, TypeInv, TypeOK
  <2>2. o \in Outputs /\ o \in 1..MaxOutputs /\ o \in Nat
    BY <2>1 DEF Outputs
  <2>3. combinations[o] \in Seq(Increasing(NumGates, o))
    BY <2>2 DEF TypeInv
  <2>4. combo \in Nat \ {0}
    BY DEF TypeInv
  <2> QED
    BY <2>1, <2>2, <2>3, <2>4
<1>2. combo <= Len(combinations[o]) + 1 /\ OfferedUpTo(o, combo - 1)
  BY <1>1 DEF OfferInv
<1>3. ListsAll(o)
  BY <1>1 DEF ListInv
<1>4. Len(combinations[o]) \in Nat /\ combo - 1 \in Nat
  BY <1>1
<1>5. CASE o > NumGates
  <2>1. NumGates \in Nat
    BY NetworkType DEF TypeInv
  <2>2. combinations[o] = << >>
    BY <1>1, <1>3, <1>5, <2>1 DEF ListsAll
  <2>3. combo - 1 = Len(combinations[o])
    BY <1>1, <1>2, <2>2
  <2> QED
    BY <1>2, <2>3
<1>6. CASE NumGates - Cardinality(UsedGates) > o
  <2>1. \A d \in 1..Len(combinations[o]) : Idle(GatesOf(combinations[o][d])) # {}
    BY <1>1, <1>6, SelectedGates, TooFewOutputs DEF TypeInv
  <2>2. combo - 1 <= Len(combinations[o])
    BY <1>1, <1>2, <1>4
  <2> QED
    BY <1>1, <1>2, <1>4, <2>1, <2>2, NothingMoreFits
<1>7. CASE combo > Len(combinations[o])
  <2>1. combo - 1 = Len(combinations[o])
    BY <1>1, <1>2, <1>4, <1>7
  <2> QED
    BY <1>2, <2>1
<1>8. CASE MaxSize(num_inputs, o) = Number(0)
  <2>1. <<num_inputs, net>> \in Networks /\ NumGates \in Nat
    BY NetworkType DEF TypeInv, TypeOK, network
  <2>2. o > NumGates
    BY <1>1, <1>8, <2>1 DEF KeysExist, NumGates
  <2> QED
    BY <1>5, <2>2
<1> QED
  BY <1>5, <1>6, <1>7, <1>8 DEF SkipOutputs

LEMMA InitOffers == Init => OfferInv
<1> QED
  BY DEF Init, OfferInv

\* The steps of BuildCombinations() offer nothing.
LEMMA BuildingOffers ==
  ASSUME TypeInv, OfferInv, FirstOutputs \/ NextOutputs
  PROVE  OfferInv'
<1>1. pc \in {"build", "advance"} /\ offers' = offers /\ combo' = combo
  BY DEF FirstOutputs, NextOutputs, offerVars
<1>2. combo = 1 /\ \A o \in Outputs : offers[o] = << >>
  BY <1>1 DEF OfferInv
<1>3. CASE pc' \in {"build", "advance"}
  BY <1>1, <1>2, <1>3 DEF OfferInv
<1>4. CASE pc' \notin {"build", "advance"}
  <2>1. pc' = "outputs" /\ num_outputs' = 1 /\ combinations' = combinations
    BY <1>4, TypeInv DEF FirstOutputs, NextOutputs, TypeInv, TypeOK
  <2>2. \A o \in Outputs : OfferedUpTo(o, 0)'
    <3> TAKE o \in Outputs
    <3>1. OfferedUpTo(o, 0)
      BY <1>2, NothingOffered
    <3>2. [Next]_vars
      BY DEF Next
    <3>3. offers'[o] = offers[o]
      BY <1>1
    <3> QED
      BY <2>1, <3>1, <3>2, <3>3, OffersKept
  <2>3. \A o \in Outputs : combinations'[o] \in Seq(Increasing(NumGates, o))
    BY <2>1 DEF TypeInv
  <2>4. \A o \in Outputs : 1 <= Len(combinations'[o]) + 1 /\ ~ (o < 1)
    BY <2>3 DEF Outputs
  <2>5. 1 - 1 = 0
    OBVIOUS
  <2> SUFFICES ASSUME NEW o \in Outputs
               PROVE  /\ o < 1 => OfferedUpTo(o, Len(combinations[o]))'
                      /\ o = 1 => 1 <= Len(combinations'[o]) + 1 /\ OfferedUpTo(o, 0)'
                      /\ o > 1 => offers'[o] = << >>
    BY <1>1, <1>2, <2>1, <2>5 DEF OfferInv
  <2> QED
    BY <1>1, <1>2, <2>2, <2>4
<1> QED
  BY <1>3, <1>4

\* SkipOutputs goes on with the next number of outputs.
LEMMA SkippingOffers ==
  ASSUME KeysExist, TypeInv, ListInv, OfferInv, SkipOutputs
  PROVE  OfferInv'
<1> PICK k : k = num_outputs
  OBVIOUS
<1>1. /\ pc = "outputs" /\ pc' = "outputs" /\ num_outputs' = k + 1 /\ combo' = 1 /\ k \in Nat
      /\ combinations' = combinations /\ offers' = offers
  BY DEF SkipOutputs, buildVars, TypeInv, TypeOK
<1>2. OfferedUpTo(k, Len(combinations[k]))
  BY SkippedAll
<1>3. \A o, c : OfferedUpTo(o, c)' <=> OfferedUpTo(o, c)
  <2> TAKE o, c
  <2>1. [Next]_vars
    BY DEF Next
  <2> QED
    BY <1>1, <2>1, OffersKept
<1>4. \A o \in Outputs : /\ o < k => OfferedUpTo(o, Len(combinations[o]))
                         /\ o > k => offers[o] = << >>
  BY <1>1 DEF OfferInv
<1>5. \A o \in Outputs : Len(combinations[o]) \in Nat /\ o \in Nat
  <2> TAKE o \in Outputs
  <2>1. combinations[o] \in Seq(Increasing(NumGates, o))
    BY DEF TypeInv
  <2> QED
    BY <2>1 DEF Outputs
<1> SUFFICES ASSUME NEW o \in Outputs
             PROVE  /\ o < k + 1 => OfferedUpTo(o, Len(combinations[o]))'
                    /\ o = k + 1 => 1 <= Len(combinations[o]) + 1 /\ OfferedUpTo(o, 0)'
                    /\ o > k + 1 => offers[o] = << >>
  <2>1. 1 - 1 = 0
    OBVIOUS
  <2> QED
    BY <1>1, <2>1 DEF OfferInv
<1>6. o < k + 1 => o < k \/ o = k
  BY <1>1, <1>5
<1>7. o < k + 1 => OfferedUpTo(o, Len(combinations[o]))'
  <2> PICK c : c = Len(combinations[o])
    OBVIOUS
  <2>1. c = Len(combinations'[o])
    BY <1>1
  <2>2. o < k + 1 => OfferedUpTo(o, c)
    BY <1>2, <1>4, <1>6
  <2> QED
    BY <1>3, <2>1, <2>2
<1>8. o >= k + 1 => offers[o] = << >>
  BY <1>1, <1>4, <1>5
<1>9. o = k + 1 => OfferedUpTo(o, 0)'
  BY <1>1, <1>3, <1>5, <1>8, NothingOffered
<1> QED
  BY <1>1, <1>5, <1>7, <1>8, <1>9

\* The other steps of Catalogue() look at one combination.
LEMMA TryingOffers ==
  ASSUME TypeInv, TypeInv', OfferInv,
         \/ TryOutputs \/ SkipCombination \/ Offer \/ Abort \/ Return
  PROVE  OfferInv'
<1> PICK k, c : k = num_outputs /\ c = combo
  OBVIOUS
<1>1. [Next]_vars
  BY DEF Next
<1>2. combinations' = combinations /\ num_outputs' = k /\ k \in 1..MaxOutputs + 1
  BY DEF TryOutputs, SkipCombination, Offer, Abort, Return, buildVars, TypeInv, TypeOK
<1>3. pc \in {"outputs", "try"}
  BY DEF TryOutputs, SkipCombination, Offer, Abort, Return
<1>4. \A o \in Outputs :
        /\ o < k => OfferedUpTo(o, Len(combinations[o]))
        /\ o = k => c <= Len(combinations[o]) + 1 /\ OfferedUpTo(o, c - 1)
        /\ o > k => offers[o] = << >>
  BY <1>3 DEF OfferInv
<1>5. MaxOutputs \in Nat /\ c \in Nat \ {0} /\ \A o \in Outputs : o \in 1..MaxOutputs
  BY CatalogueAssumption DEF TypeInv, Outputs
<1>6. \A o, d : offers'[o] = offers[o] => (OfferedUpTo(o, d)' <=> OfferedUpTo(o, d))
  BY <1>1, <1>2, OffersKept
<1>7. ASSUME NEW o \in Outputs, offers'[o] = offers[o],
             OfferedUpTo(o, Len(combinations[o]))
      PROVE  OfferedUpTo(o, Len(combinations[o]))'
  <2> PICK d : d = Len(combinations[o])
    OBVIOUS
  <2>1. d = Len(combinations'[o])
    BY <1>2
  <2> QED
    BY <1>6, <1>7, <2>1
<1>8. CASE TryOutputs
  <2>1. pc' = "try" /\ offers' = offers /\ combo' = c
    BY <1>8 DEF TryOutputs, offerVars
  <2>2. \A o \in Outputs :
          /\ o < k => OfferedUpTo(o, Len(combinations[o]))'
          /\ o = k => c <= Len(combinations[o]) + 1 /\ OfferedUpTo(o, c - 1)'
          /\ o > k => offers'[o] = << >>
    BY <1>4, <1>6, <1>7, <2>1
  <2> QED
    BY <1>2, <2>1, <2>2 DEF OfferInv
<1>9. CASE SkipCombination \/ Offer
  <2>1. pc = "try" /\ pc' = "outputs" /\ combo' = c + 1
    BY <1>9 DEF SkipCombination, Offer
  <2>2. k <= MaxOutputs /\ k \in Outputs /\ c \in 1..Len(combinations[k])
    <3>1. k <= MaxOutputs /\ c \in 1..Len(combinations[k])
      BY <2>1 DEF TypeInv, TypeOK
    <3> QED
      BY <1>2, <3>1 DEF Outputs
  <2>3. Selected = GatesOf(combinations[k][c]) /\ Selected \in SUBSET Gates
    BY <2>2, SelectedGates DEF Selected, kSubset
  <2>4. \A o \in Outputs : o # k => offers'[o] = offers[o]
    BY <1>9 DEF SkipCombination, Offer, TypeInv
  <2>5. OfferedUpTo(k, c)'
    <3>1. CASE SkipCombination
      <4>1. Idle(GatesOf(combinations[k][c])) # {} /\ offers' = offers
        BY <2>3, <3>1, FitsIfNotIdle DEF SkipCombination, TypeInv
      <4>2. OfferedUpTo(k, c)
        BY <1>4, <1>5, <2>2, <4>1, SkippedOne
      <4> QED
        BY <1>6, <4>1, <4>2
    <3>2. CASE Offer
      <4>1. Idle(GatesOf(combinations[k][c])) = {}
        BY <2>3, <3>2, FitsIfNotIdle DEF Offer, TypeInv
      <4>2. offers'[k] = Append(offers[k], Key(GatesOf(combinations[k][c])))
        BY <2>2, <2>3, <3>2 DEF Offer, TypeInv
      <4> QED
        BY <1>1, <1>2, <1>4, <1>5, <2>2, <4>1, <4>2, OfferedOne
    <3> QED
      BY <1>9, <3>1, <3>2
  <2>6. \A o \in Outputs :
          /\ o < k => OfferedUpTo(o, Len(combinations[o]))'
          /\ o = k => c + 1 <= Len(combinations[o]) + 1 /\ OfferedUpTo(o, c)'
          /\ o > k => offers'[o] = << >>
    <3> TAKE o \in Outputs
    <3>1. o < k \/ o > k => o # k
      BY <1>2, <1>5
    <3>2. o = k => c + 1 <= Len(combinations[o]) + 1
      BY <1>5, <2>2
    <3> QED
      BY <1>4, <1>7, <2>4, <2>5, <3>1, <3>2
  <2>7. combo' - 1 = c /\ ~ (k > MaxOutputs)
    BY <1>2, <1>5, <2>1, <2>2
  <2>8. \A o \in Outputs :
          /\ o < k => OfferedUpTo(o, Len(combinations[o]))'
          /\ o = k => c + 1 <= Len(combinations'[o]) + 1 /\ OfferedUpTo(o, combo - 1)'
          /\ o > k => offers'[o] = << >>
    BY <1>2, <2>6, <2>7
  <2> QED
    BY <1>2, <2>1, <2>7, <2>8 DEF OfferInv
<1>10. CASE Abort
  <2>1. pc' = "done" /\ aborted' = TRUE
    BY <1>10 DEF Abort
  <2>2. /\ pc' \notin {"build", "advance"} /\ pc' \notin {"outputs", "try"}
        /\ ~ (pc' = "outputs") /\ ~ (pc' = "done" /\ ~ aborted')
    BY <2>1, Zenon
  <2> QED
    BY <2>2 DEF OfferInv
<1>11. CASE Return
  <2>1. pc' = "done" /\ offers' = offers /\ k > MaxOutputs
    BY <1>11 DEF Return, offerVars
  <2>2. \A o \in Outputs : o < k
    BY <1>2, <1>5, <2>1
  <2>3. \A o \in Outputs : OfferedUpTo(o, Len(combinations[o]))'
    BY <1>4, <1>7, <2>1, <2>2
  <2> QED
    BY <2>1, <2>3 DEF OfferInv
<1> QED
  BY <1>8, <1>9, <1>10, <1>11

LEMMA OfferInvKept ==
  ASSUME KeysExist
  PROVE  TypeInv /\ ListInv /\ OfferInv /\ [Next]_vars => OfferInv'
<1> SUFFICES ASSUME TypeInv, ListInv, OfferInv, [Next]_vars
             PROVE  OfferInv'
  OBVIOUS
<1>1. TypeInv'
  BY TypesKept
<1>2. CASE UNCHANGED vars
  <2>1. UNCHANGED <<num_outputs, pc, combinations, combo, offers, aborted>>
    BY <1>2 DEF vars, buildVars, offerVars
  <2>2. \A o, c : OfferedUpTo(o, c)' <=> OfferedUpTo(o, c)
    BY <2>1, OffersKept
  <2>3. \A o : OfferedUpTo(o, Len(combinations[o]))' <=> OfferedUpTo(o, Len(combinations[o]))
    <3> TAKE o
    <3> PICK d : d = Len(combinations[o])
      OBVIOUS
    <3>1. d = Len(combinations'[o])
      BY <2>1
    <3> QED
      BY <2>2, <3>1
  <2>4. \A o : OfferedUpTo(o, combo - 1)' <=> OfferedUpTo(o, combo - 1)
    <3> TAKE o
    <3> PICK d : d = combo - 1
      OBVIOUS
    <3>1. d = combo' - 1
      BY <2>1
    <3> QED
      BY <2>2, <3>1
  <2> QED
    BY <2>1, <2>3, <2>4 DEF OfferInv
<1> QED
  BY <1>1, <1>2, BuildingOffers, SkippingOffers, TryingOffers DEF Next, Finished

LEMMA OfferInvariance ==
  ASSUME KeysExist
  PROVE  Spec => [](TypeInv /\ ListInv /\ OfferInv)
<1>1. TypeInv /\ ListInv /\ OfferInv /\ [Next]_vars => (TypeInv /\ ListInv /\ OfferInv)'
  BY TypesKept, ListInvKept, OfferInvKept
<1> QED
  BY InitTypes, InitList, InitOffers, <1>1, PTL DEF Spec

\* A network offers one key for every set of outputs that leaves no gate idle,
\* and no other, unless the assertion on the number of outputs ends the program
\* (OffersComplete).
THEOREM EverythingOffered ==
  ASSUME KeysExist
  PROVE  Spec => []OffersComplete
<1>1. ASSUME TypeInv, ListInv, OfferInv
      PROVE  OffersComplete
  <2> SUFFICES ASSUME pc = "done", ~ aborted, NEW o \in Outputs
               PROVE  /\ {offers[o][n] : n \in 1..Len(offers[o])} =
                           {Key(outs) : outs \in OutputSets(o)}
                      /\ Len(offers[o]) = Cardinality(OutputSets(o))
    BY DEF OffersComplete
  <2> DEFINE L == combinations[o]
             F == Fit(o, Len(L))
  <2>1. OfferedUpTo(o, Len(L))
    BY <1>1 DEF OfferInv
  <2>2. ListsAll(o) /\ \A a, b \in 1..Len(L) : L[a] = L[b] => a = b
    BY <1>1 DEF ListInv
  <2>3. NumGates \in Nat /\ o \in Nat /\ Gates = 0..NumGates - 1
    BY <1>1, NetworkType DEF TypeInv, Outputs
  <2>4. \A d \in 1..Len(L) :
          L[d] \in Increasing(NumGates, o) /\ GatesOf(L[d]) \in kSubset(o, Gates)
    BY <1>1, SelectedGates
  <2>5. L \in Seq(Increasing(NumGates, o)) /\ Len(L) \in Nat
    <3>1. L \in Seq(Increasing(NumGates, o))
      BY <1>1 DEF TypeInv
    <3> QED
      BY <3>1
  <2>6. ASSUME NEW S \in OutputSets(o)
        PROVE  \E d \in F : GatesOf(L[d]) = S
    <3>1. S \in kSubset(o, Gates) /\ Idle(S) = {}
      BY DEF OutputSets, kSubset
    <3>2. PICK x \in Increasing(NumGates, o) : GatesOf(x) = S
      <4> HIDE DEF L, F
      <4>1. S \in kSubset(o, 0..NumGates - 1)
        BY <2>3, <3>1
      <4>2. \E x \in Increasing(NumGates, o) : GatesOf(x) = S
        BY <2>3, <4>1, SetIsCombination
      <4> QED
        BY <4>2
    <3>3. o <= NumGates
      <4>1. /\ IsFiniteSet(Gates) /\ Cardinality(Gates) = NumGates
            /\ S \subseteq Gates /\ Cardinality(S) = o
        BY <1>1, <3>1, NetworkType DEF TypeInv, kSubset
      <4> QED
        BY <4>1, FS_Subset
    <3>4. PICK d \in 1..Len(L) : L[d] = x
      BY <2>2, <3>3 DEF ListsAll, Lists
    <3> QED
      BY <3>1, <3>2, <3>4 DEF Fit
  <2>7. ASSUME NEW d \in F
        PROVE  GatesOf(L[d]) \in OutputSets(o)
    BY <2>4 DEF Fit, OutputSets, kSubset
  <2>8. \A a, b \in F : GatesOf(L[a]) = GatesOf(L[b]) => a = b
    <3> TAKE a, b \in F
    <3>1. a \in 1..Len(L) /\ b \in 1..Len(L)
      BY DEF Fit
    <3> QED
      BY <2>2, <2>3, <2>4, <3>1, CombinationOfSet
  <2>9. IsFiniteSet(F)
    <3>1. IsFiniteSet(1..Len(L)) /\ F \subseteq 1..Len(L)
      BY <2>5, FS_Interval DEF Fit
    <3> QED
      BY <3>1, FS_Subset
  <2>10. Cardinality(F) = Cardinality(OutputSets(o))
    <3> DEFINE g == [d \in F |-> GatesOf(L[d])]
    <3>1. /\ \A d \in F : g[d] = GatesOf(L[d]) /\ g[d] \in OutputSets(o)
          /\ g \in [F -> OutputSets(o)]
      BY <2>7
    <3>2. g \in Bijection(F, OutputSets(o))
      <4> HIDE DEF g
      <4> QED
        BY <2>6, <2>8, <3>1 DEF Bijection, Injection, Surjection, IsInjective
    <3> QED
      BY <2>9, <3>2, FS_Bijection DEF ExistsBijection
  <2>11. \A S \in OutputSets(o) : \E n \in 1..Len(offers[o]) : offers[o][n] = Key(S)
    <3> TAKE S \in OutputSets(o)
    <3>1. PICK d \in F : GatesOf(L[d]) = S
      BY <2>6
    <3> QED
      BY <2>1, <3>1 DEF OfferedUpTo
  <2>12. \A n \in 1..Len(offers[o]) : \E S \in OutputSets(o) : offers[o][n] = Key(S)
    <3> TAKE n \in 1..Len(offers[o])
    <3>1. PICK d \in F : offers[o][n] = Key(GatesOf(L[d]))
      BY <2>1 DEF OfferedUpTo
    <3> QED
      BY <2>7, <3>1
  <2>13. Len(offers[o]) = Cardinality(OutputSets(o))
    BY <2>1, <2>10 DEF OfferedUpTo
  <2> QED
    BY <2>11, <2>12, <2>13
<1> QED
  BY <1>1, OfferInvariance, PTL
-----------------------------------------------------------------------------
\* Truth tables.

\* The networks are in an order that can be evaluated, and worth a record, as
\* those of gatebuilder are.
NetworksUseful == \A pair \in Networks : Ordered(pair[2], pair[1]) /\ IsUseful(pair[2], pair[1])

\* No gate of a useful network has the table of a constant or of an input.
LEMMA GateTables ==
  ASSUME TypeOK, NetworksUseful, NEW g \in Gates
  PROVE  Truth(net, num_inputs)[num_inputs + g] \in Tables
<1>1. /\ num_inputs \in Nat \ {0} /\ net \in Seq(Nat \X Nat)
      /\ NumGates \in Nat /\ Gates = 0..NumGates - 1 /\ NumGates = Len(net)
  BY NetworkType DEF NumGates
<1>2. Ordered(net, num_inputs) /\ IsUseful(net, num_inputs)
  BY DEF TypeOK, network, NetworksUseful
<1> DEFINE on == Truth(net, num_inputs)
<1>3. num_inputs + g \in 0..num_inputs + Len(net) - 1
  BY <1>1
<1> HIDE DEF on
<1>4. FollowsWiring(on, net, num_inputs)
  BY <1>1, <1>2, TruthTables DEF on
<1>5. g \in 0..Len(net) - 1
  BY <1>1
<1>6. on[num_inputs + g] \notin
        {{}, Rows(num_inputs)} \cup {on[s] : s \in 0..num_inputs - 1}
  BY <1>2, <1>5 DEF IsUseful, on
<1>7. \A s \in 0..num_inputs - 1 : on[s] = {r \in Rows(num_inputs) : s \in r}
  <2> TAKE s \in 0..num_inputs - 1
  <2>1. s \in 0..num_inputs + Len(net) - 1 /\ s < num_inputs
    BY <1>1
  <2> QED
    BY <1>4, <2>1 DEF FollowsWiring
<1>8. on[num_inputs + g] \notin
        {{r \in Rows(num_inputs) : s \in r} : s \in 0..num_inputs - 1}
  <2> SUFFICES ASSUME NEW s \in 0..num_inputs - 1,
                      on[num_inputs + g] = {r \in Rows(num_inputs) : s \in r}
               PROVE  FALSE
    OBVIOUS
  <2>1. on[num_inputs + g] = on[s]
    BY <1>7
  <2> QED
    BY <1>6, <2>1
<1>9. on[num_inputs + g] \subseteq Rows(num_inputs)
  BY <1>3, <1>4 DEF FollowsWiring
<1> QED
  BY <1>6, <1>8, <1>9 DEF Tables, on

\* A key that is offered has as many tables as outputs, none of them constant
\* or a copy of an input: it is one of those that the size limit counts
\* (OffersAreKeys).
THEOREM KeysAreCounted ==
  ASSUME NetworksUseful
  PROVE  Spec => []OffersAreKeys
<1>1. ASSUME TypeInv
      PROVE  OffersAreKeys
  <2> SUFFICES ASSUME NEW o \in Outputs, NEW n \in 1..Len(offers[o]), offers[o][n] # NoKey
               PROVE  offers[o][n] \subseteq Tables /\ Cardinality(offers[o][n]) = o
    BY DEF OffersAreKeys
  <2>1. offers[o] \in Seq({Key(outs) : outs \in kSubset(o, Gates)})
    BY <1>1 DEF TypeInv
  <2>2. offers[o][n] \in {Key(outs) : outs \in kSubset(o, Gates)}
    BY <2>1
  <2>3. PICK outs \in kSubset(o, Gates) : offers[o][n] = Key(outs)
    BY <2>2
  <2>4. outs \subseteq Gates /\ Cardinality(outs) = o
    BY DEF kSubset
  <2> DEFINE tables == {Truth(net, num_inputs)[num_inputs + g] : g \in outs}
  <2>5. Key(outs) = IF Cardinality(tables) = Cardinality(outs) THEN tables ELSE NoKey
    BY DEF Key
  <2>6. tables \subseteq Tables
    BY <1>1, <2>4, GateTables DEF TypeInv
  <2> HIDE DEF tables
  <2> QED
    BY <2>3, <2>4, <2>5, <2>6
<1> QED
  BY <1>1, TypeInvariance, PTL
-----------------------------------------------------------------------------
\* The assertion.

\* There is no way to choose more things than there are.
LEMMA TooManyChosen ==
  ASSUME NEW i \in Nat, NEW n \in Nat, NEW o \in Nat, n < o,
         TablesWorthAGate(i) = Number(n)
  PROVE  MaxSize(i, o) = Number(0)
<1>1. Large.class = "large" /\ \A m : Number(m).class = "number" /\ Number(m).value = m
  BY DEF Large, Number
<1>2. i < 6
  BY <1>1 DEF TablesWorthAGate
<1>3. Least({o, n - o}) < 0
  <2>1. \A x : x \in {o, n - o} /\ (\A y \in {o, n - o} : x <= y) => x = n - o
    OBVIOUS
  <2>2. n - o \in {o, n - o} /\ \A y \in {o, n - o} : n - o <= y
    OBVIOUS
  <2>3. (CHOOSE x \in {o, n - o} : \A y \in {o, n - o} : x <= y) = n - o
    BY <2>1, <2>2
  <2> QED
    BY <2>3 DEF Least
<1>4. Binomial(Number(n), o) = Number(0)
  <2> DEFINE k == Least({o, n - o})
  <2>1. Binomial(Number(n), o) =
          CASE k < 0  -> Number(0)
            [] k = 0  -> Number(1)
            [] k = 1  -> Number(n)
            [] OTHER  -> IF n > 1000 THEN NotANumber ELSE Quotient(n, k)
    BY <1>1 DEF Binomial
  <2>2. k < 0 /\ k # 0 /\ k # 1
    <3>1. k \in {o, n - o}
      <4>1. \E x \in {o, n - o} : \A y \in {o, n - o} : x <= y
        OBVIOUS
      <4> QED
        BY <4>1 DEF Least
    <3> QED
      BY <1>3, <3>1
  <2> HIDE DEF k
  <2> QED
    BY <2>1, <2>2
<1> QED
  BY <1>1, <1>2, <1>4 DEF MaxSize

\* A number of outputs whose lore has no room is not tried.
LEMMA TriedHasRoom ==
  Spec => [](TypeInv /\ (pc = "try" => MaxSize(num_inputs, num_outputs) # Number(0)))
<1> DEFINE Room == pc = "try" => MaxSize(num_inputs, num_outputs) # Number(0)
<1>1. Init => Room
  BY DEF Init
<1>2. TypeInv /\ Room /\ [Next]_vars => Room'
  <2> SUFFICES ASSUME TypeInv, Room, [Next]_vars
               PROVE  Room'
    OBVIOUS
  <2>1. num_inputs' = num_inputs
    BY NetworkStays
  <2>2. CASE TryOutputs
    BY <2>1, <2>2 DEF TryOutputs
  <2>3. CASE UNCHANGED vars
    BY <2>1, <2>3 DEF vars
  <2>4. CASE ~TryOutputs /\ ~UNCHANGED vars
    <3>1. pc' # "try"
      BY <2>4 DEF Next, FirstOutputs, NextOutputs, SkipOutputs, SkipCombination, Offer,
                  Abort, Return, Finished
    <3> QED
      BY <3>1
  <2> QED
    BY <2>2, <2>3, <2>4
<1> QED
  BY <1>1, <1>2, TypeInvariance, PTL DEF Spec

\* The loop over num_outputs goes one further than the assertion in it allows,
\* but if there are fewer tables than that, as for the networks of 2 inputs that
\* main() takes (12 tables, 16 outputs), the size limit keeps it from failing.
THEOREM AssertionHolds ==
  ASSUME \A pair \in Networks : \E n \in Nat :
           n < MaxOutputs /\ TablesWorthAGate(pair[1]) = Number(n)
  PROVE  Spec => []~aborted
<1> DEFINE Room == pc = "try" => MaxSize(num_inputs, num_outputs) # Number(0)
<1>1. Init => ~aborted
  BY DEF Init
<1>2. TypeInv /\ Room /\ ~aborted /\ [Next]_vars => ~aborted'
  <2> SUFFICES ASSUME TypeInv, Room, ~aborted, Abort
               PROVE  FALSE
    BY DEF Next, FirstOutputs, NextOutputs, SkipOutputs, TryOutputs, SkipCombination, Offer,
           Return, Finished, vars, network, buildVars, offerVars
  <2>1. num_outputs \in Nat /\ num_outputs >= MaxOutputs /\ MaxOutputs \in Nat
    BY CatalogueAssumption DEF TypeInv, TypeOK, Abort
  <2>2. num_inputs \in Nat /\ <<num_inputs, net>> \in Networks
    BY CatalogueAssumption DEF TypeInv, TypeOK, network
  <2>3. PICK n \in Nat : n < MaxOutputs /\ TablesWorthAGate(num_inputs) = Number(n)
    BY <2>2
  <2>4. MaxSize(num_inputs, num_outputs) = Number(0)
    BY <2>1, <2>2, <2>3, TooManyChosen
  <2> QED
    BY <2>4 DEF Abort
<1> QED
  BY <1>1, <1>2, TriedHasRoom, PTL DEF Spec
=============================================================================
