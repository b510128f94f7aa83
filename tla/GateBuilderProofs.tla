-------------------------- MODULE GateBuilderProofs --------------------------
(***************************************************************************)
(* Proofs about GateBuilder, for every list of work, number of threads and *)
(* number of kills: the wirings are free of loops, every record is a       *)
(* network worth keeping, and when main() goes on exactly one network of   *)
(* each class that is worth it was stored.                                 *)
(***************************************************************************)
EXTENDS GateBuilder, SharedFacts

\* Where a thread may be.
Labels == {"idle", "unused", "order", "catalogue", "inc", "wraps"}

\* A wiring whose gates read inputs and earlier gates.
Wired(g) ==
  /\ g \in [0..Last -> Nat]
  /\ \A p \in 0..Last : g[p] \in 0..num_inputs + (p \div 2) - 1

\* A thread with wiring g that changes place p next and is at the label.  A
\* wiring that Catalogue() gets to see has two gates with equal sources or a
\* double negation at most in its first two gates, which the odometer never
\* changes.
HereAt(label, g, p) ==
  /\ round <= Len(Work)
  /\ p \in 0..Last
  /\ Wired(g)
  /\ label = "wraps" => p >= 4
  /\ label \in {"unused", "order", "catalogue"} =>
       /\ p = Last
       /\ ~HasDuplicates(g)
       /\ NotNots(g) \subseteq {1}
  /\ label \in {"order", "catalogue"} => Unused(g) = {}
  /\ label = "catalogue" => Misplaced(g) = {}

\* The types, those of the files and the domains included.
TypeInv ==
  /\ round \in 1..Len(Work) + 1
  /\ handles \subseteq Threads
  /\ aborted \in BOOLEAN
  /\ restarts \in 0..MaxRestarts
  /\ pc \in [Threads -> Labels]
  /\ jobs \subseteq Jobs(round)
  /\ DOMAIN gate_inputs = Threads
  /\ DOMAIN pos = Threads
  /\ files \in [1..Len(Work) -> [Threads -> Seq(Seq(Nat \X Nat))]]

\* Every thread within a job is where it may be.
JobInv == \A t \in Threads : pc[t] # "idle" => HereAt(pc[t], gate_inputs[t], pos[t])

\* A network that is worth a record in the files of Work[w].
WorthRecord(net, w) ==
  /\ Len(net) = Work[w][2]
  /\ Ordered(net, Work[w][1])
  /\ IsUseful(net, Work[w][1])

\* Every record is a network in an order that can be evaluated, and useful.
RecordsUseful ==
  \A w \in 1..Len(Work), t \in Threads :
    \A r \in 1..Len(files[w][t]) : WorthRecord(files[w][t][r], w)

\* The invariant of the odometer and the files.
IInv == TypeInv /\ JobInv /\ RecordsUseful
-----------------------------------------------------------------------------
\* The work at hand.

\* The sizes of the networks of the round.
LEMMA WorkType ==
  ASSUME NEW w \in 1..Len(Work)
  PROVE  Work[w][1] \in Nat \ {0} /\ Work[w][2] \in Nat \ {0}
<1>1. Work \in Seq((Nat \ {0}) \X (Nat \ {0}))
  BY WorkAssumption
<1>2. Work[w] \in (Nat \ {0}) \X (Nat \ {0})
  BY <1>1
<1> QED
  BY <1>2

\* The sizes while there is work.
LEMMA RoundType ==
  ASSUME round \in 1..Len(Work) + 1, round <= Len(Work)
  PROVE  /\ num_inputs \in Nat \ {0} /\ num_gates \in Nat \ {0}
         /\ Last \in Nat /\ Last = 2 * num_gates - 1 /\ round \in 1..Len(Work)
<1>1. Len(Work) \in Nat
  BY WorkAssumption
<1>2. round \in 1..Len(Work)
  BY <1>1
<1>3. Work[round][1] \in Nat \ {0} /\ Work[round][2] \in Nat \ {0}
  BY <1>2, WorkType
<1> QED
  BY <1>2, <1>3 DEF num_inputs, num_gates, Last

\* Least() is an element and no larger than any other.
LEMMA LeastIsLeast ==
  ASSUME NEW S, S \subseteq Nat, S # {}
  PROVE  Least(S) \in S /\ \A y \in S : Least(S) <= y
<1>1. Least(S) = CHOOSE x \in S : \A y \in S : x <= y
  BY DEF Least
<1> QED
  BY LeastExists, <1>1

\* The two places of a gate.
LEMMA Places ==
  ASSUME NEW n \in Nat
  PROVE  /\ 2 * n \in Nat /\ (2 * n) \div 2 = n /\ (2 * n + 1) \div 2 = n
         /\ \A k \in Nat : n < k => 2 * n + 1 <= 2 * k - 1
  OBVIOUS
-----------------------------------------------------------------------------
\* The first wiring of a job.

\* The pair that the n-th gate starts with.
NewPair(net, n) == <<0, Least({s \in 0..n : \A m \in 1..n - 1 : net[m] # <<0, s>>})>>

\* f[n] are the first n gates that a job starts with.
Grows(f, job, k) ==
  /\ f = [n \in 1..k |-> f[n]]
  /\ \A n \in 1..k : f[n] = IF n <= 2 THEN SubSeq(job, 1, n)
                            ELSE Append(f[n - 1], NewPair(f[n - 1], n))

\* The recursion that adds the gates one by one has a solution.
LEMMA GrowthExists ==
  ASSUME NEW job, NEW N \in Nat
  PROVE  \E f : Grows(f, job, N)
<1> DEFINE Exists(k) == \E f : Grows(f, job, k)
           Bad == {k \in 0..N : ~ Exists(k)}
<1> HIDE DEF Exists
<1>1. ASSUME Bad # {}
      PROVE  FALSE
  <2>1. Bad \subseteq Nat
    OBVIOUS
  <2>2. PICK k \in Bad : \A c \in Bad : k <= c
    BY <1>1, <2>1, LeastExists
  <2>3. k \in 0..N /\ ~ Exists(k)
    BY <2>2
  <2>4. k # 0
    <3> DEFINE f == [n \in {} |-> job]
    <3>1. f = [n \in 1..0 |-> f[n]] /\ 1..0 = {}
      OBVIOUS
    <3>2. Exists(0)
      BY <3>1 DEF Exists, Grows
    <3> QED
      BY <2>3, <3>2
  <2>5. k - 1 \in 0..N /\ k - 1 \notin Bad
    BY <2>2, <2>3, <2>4
  <2>6. PICK f : Grows(f, job, k - 1)
    BY <2>5 DEF Exists
  <2> DEFINE Body(h, n) == IF n <= 2 THEN SubSeq(job, 1, n)
                           ELSE Append(h[n - 1], NewPair(h[n - 1], n))
             g == [n \in 1..k |-> IF n # k THEN f[n] ELSE Body(f, k)]
  <2>7. \A n \in 1..k : g[n] = Body(f, n)
    <3> TAKE n \in 1..k
    <3>1. CASE n = k
      BY <3>1
    <3>2. CASE n # k
      <4>1. n \in 1..k - 1
        BY <2>3, <3>2
      <4>2. f[n] = Body(f, n)
        BY <2>6, <4>1 DEF Grows
      <4> QED
        BY <3>2, <4>2
    <3> QED
      BY <3>1, <3>2
  <2>8. \A n \in 1..k : g[n] = Body(g, n)
    <3> TAKE n \in 1..k
    <3>1. CASE n <= 2
      BY <2>7, <3>1
    <3>2. CASE ~ (n <= 2)
      <4>1. n - 1 \in 1..k /\ n - 1 # k
        BY <2>3, <3>2
      <4>2. g[n - 1] = f[n - 1]
        BY <4>1
      <4> HIDE DEF g
      <4> QED
        BY <2>7, <3>2, <4>2
    <3> QED
      BY <3>1, <3>2
  <2>9. g = [n \in 1..k |-> g[n]]
    OBVIOUS
  <2>10. Exists(k)
    <3> HIDE DEF g
    <3> QED
      BY <2>8, <2>9 DEF Exists, Grows
  <2> QED
    BY <2>3, <2>10
<1>2. N \in 0..N
  OBVIOUS
<1>3. Exists(N)
  BY <1>1, <1>2
<1> QED
  BY <1>3 DEF Exists

\* One of n pairs is not among n - 1.
LEMMA PairIsFree ==
  ASSUME NEW n \in Nat \ {0}, NEW net
  PROVE  \E s \in 0..n - 1 : \A m \in 1..n - 1 : net[m] # <<0, s>>
<1> SUFFICES ASSUME \A s \in 0..n - 1 : \E m \in 1..n - 1 : net[m] = <<0, s>>
             PROVE  FALSE
  OBVIOUS
<1> DEFINE at == [s \in 0..n - 1 |-> CHOOSE m \in 1..n - 1 : net[m] = <<0, s>>]
<1>1. \A s \in 0..n - 1 : at[s] \in 1..n - 1 /\ net[at[s]] = <<0, s>>
  OBVIOUS
<1>2. at \in [0..n - 1 -> 1..n - 1]
  BY <1>1
<1>3. /\ IsFiniteSet(0..n - 1) /\ Cardinality(0..n - 1) = n
      /\ IsFiniteSet(1..n - 1) /\ Cardinality(1..n - 1) = n - 1
  BY FS_Interval
<1> HIDE DEF at
<1>4. Cardinality(1..n - 1) < Cardinality(0..n - 1)
  BY <1>3
<1>5. \E x, y \in 0..n - 1 : x # y /\ at[x] = at[y]
  <2> DEFINE S == 0..n - 1
             T == 1..n - 1
  <2> HIDE DEF S, T
  <2>1. IsFiniteSet(S) /\ IsFiniteSet(T) /\ Cardinality(T) < Cardinality(S) /\ at \in [S -> T]
    BY <1>2, <1>3, <1>4 DEF S, T
  <2>2. \E x, y \in S : x # y /\ at[x] = at[y]
    BY <2>1, FS_PigeonHole
  <2> QED
    BY <2>2 DEF S
<1>6. PICK x, y \in 0..n - 1 : x # y /\ at[x] = at[y]
  BY <1>5
<1>7. <<0, x>> = <<0, y>>
  BY <1>1, <1>6
<1> QED
  BY <1>6, <1>7

\* A smaller second source would repeat the sources of an earlier gate.
LeastNew(net, a) == \A s \in Nat : s < net[a][2] => \E m \in 1..a - 1 : net[m] = <<0, s>>

\* The first n gates of a job read inputs and earlier gates, and no two have the
\* same sources; the first two are those of the job, and from the third on they
\* read input 0 and the first source that makes them new.
Started(net, job, n) ==
  /\ net \in Seq(Nat \X Nat) /\ Len(net) = n
  /\ Ordered(net, num_inputs)
  /\ \A a, b \in 1..n : net[a] = net[b] => a = b
  /\ \A a \in 1..n : /\ a <= 2 => net[a] = job[a]
                     /\ a > 2 => net[a][1] = 0 /\ LeastNew(net, a)

\* The two pairs of a job.
LEMMA JobType ==
  ASSUME round \in 1..Len(Work) + 1, round <= Len(Work), NEW job \in Jobs(round)
  PROVE  /\ job = <<job[1], job[2]>>
         /\ job[1] \in (0..num_inputs - 1) \X (0..num_inputs - 1)
         /\ job[2] \in (0..num_inputs) \X (0..num_inputs)
         /\ num_gates > 1 => job[1] # job[2]
<1>1. job \in Iterations(Work[round][1]) /\ ~SkipJob(job, Work[round][2])
  BY DEF Jobs
<1> QED
  BY <1>1, RoundType DEF Iterations, SkipJob, num_inputs, num_gates

\* The pairs of a job are its first two gates.
LEMMA StartOfJob ==
  ASSUME round \in 1..Len(Work) + 1, round <= Len(Work), NEW job \in Jobs(round),
         NEW n \in 1..num_gates, n <= 2
  PROVE  Started(SubSeq(job, 1, n), job, n)
<1>1. /\ num_inputs \in Nat \ {0} /\ num_gates \in Nat \ {0}
      /\ job = <<job[1], job[2]>>
      /\ job[1] \in (0..num_inputs - 1) \X (0..num_inputs - 1)
      /\ job[2] \in (0..num_inputs) \X (0..num_inputs)
      /\ num_gates > 1 => job[1] # job[2]
  BY RoundType, JobType
<1>2. job[1] \in Nat \X Nat /\ job[2] \in Nat \X Nat
  BY <1>1
<1>3. \A p, q \in Nat \X Nat : <<p, q>> \in Seq(Nat \X Nat) /\ Len(<<p, q>>) = 2
  OBVIOUS
<1>4. job \in Seq(Nat \X Nat) /\ Len(job) = 2
  <2> PICK p, q : p = job[1] /\ q = job[2]
    OBVIOUS
  <2> QED
    BY <1>1, <1>2, <1>3
<1> DEFINE net == SubSeq(job, 1, n)
<1>5. /\ net \in Seq(Nat \X Nat) /\ Len(net) = n
      /\ \A m \in 1..n : net[m] = job[m]
  <2>1. \A q \in Seq(Nat \X Nat) : n \in 1..Len(q) =>
          /\ SubSeq(q, 1, n) \in Seq(Nat \X Nat) /\ Len(SubSeq(q, 1, n)) = n
          /\ \A m \in 1..n : SubSeq(q, 1, n)[m] = q[m]
    OBVIOUS
  <2>2. n \in 1..2
    BY <1>1
  <2> QED
    BY <1>4, <2>1, <2>2
<1>6. \A m \in 1..n : m = 1 \/ (m = 2 /\ num_gates > 1)
  BY <1>1
<1> HIDE DEF net
<1>7. Ordered(net, num_inputs)
  <2>1. \A m \in 1..n : job[m][1] \in 0..num_inputs + m - 2 /\ job[m][2] \in 0..num_inputs + m - 2
    <3> TAKE m \in 1..n
    <3>a. /\ job[1][1] \in 0..num_inputs - 1 /\ job[1][2] \in 0..num_inputs - 1
          /\ job[2][1] \in 0..num_inputs /\ job[2][2] \in 0..num_inputs
      BY <1>1
    <3>b. num_inputs + 1 - 2 = num_inputs - 1 /\ num_inputs + 2 - 2 = num_inputs
      BY <1>1
    <3>1. CASE m = 1
      BY <3>a, <3>b, <3>1
    <3>2. CASE m = 2
      BY <3>a, <3>b, <3>2
    <3> QED
      BY <1>6, <3>1, <3>2
  <2> QED
    BY <1>5, <2>1 DEF Ordered
<1>8. \A a, b \in 1..n : net[a] = net[b] => a = b
  <2>1. ASSUME NEW a \in 1..n, NEW b \in 1..n, net[a] = net[b]
        PROVE  a = b
    <3>1. job[a] = job[b]
      BY <1>5, <2>1
    <3>2. CASE num_gates > 1
      <4>1. job[1] # job[2]
        BY <1>1, <3>2
      <4> QED
        BY <1>6, <3>1, <4>1
    <3>3. CASE ~ (num_gates > 1)
      BY <1>6, <3>3
    <3> QED
      BY <3>2, <3>3
  <2> QED
    BY <2>1
<1>9. Started(net, job, n)
  BY <1>5, <1>6, <1>7, <1>8 DEF Started
<1> QED
  BY <1>9 DEF net

\* A gate with a new pair goes well with those before it.
LEMMA AnotherGate ==
  ASSUME round \in 1..Len(Work) + 1, round <= Len(Work), NEW n \in 1..num_gates, ~ (n <= 2),
         NEW net, NEW job, Started(net, job, n - 1)
  PROVE  Started(Append(net, NewPair(net, n)), job, n)
<1> DEFINE S == {s \in 0..n : \A m \in 1..n - 1 : net[m] # <<0, s>>}
           x == Least(S)
           new == Append(net, <<0, x>>)
<1>1. num_inputs \in Nat \ {0} /\ num_gates \in Nat \ {0} /\ n \in Nat \ {0}
  BY RoundType
<1>2. PICK y \in 0..n - 1 : \A m \in 1..n - 1 : net[m] # <<0, y>>
  BY <1>1, PairIsFree
<1>3. S \subseteq Nat /\ y \in S
  BY <1>1, <1>2
<1>4. x \in S /\ x <= y
  <2> HIDE DEF S
  <2> QED
    BY <1>3, LeastIsLeast
<1>5. NewPair(net, n) = <<0, x>>
  BY DEF NewPair
<1> HIDE DEF x
<1>6. /\ x \in 0..n - 1 /\ \A m \in 1..n - 1 : net[m] # <<0, x>>
      /\ \A s \in Nat : s < x => \E m \in 1..n - 1 : net[m] = <<0, s>>
  <2>1. \A s \in S : x <= s
    <3> HIDE DEF S
    <3> QED
      BY <1>3, LeastIsLeast DEF x
  <2>2. x \in 0..n - 1 /\ \A m \in 1..n - 1 : net[m] # <<0, x>>
    BY <1>1, <1>2, <1>4
  <2>3. ASSUME NEW s \in Nat, s < x, \A m \in 1..n - 1 : net[m] # <<0, s>>
        PROVE  FALSE
    <3>1. s \in S
      BY <1>1, <2>2, <2>3
    <3> HIDE DEF S
    <3>2. x <= s
      BY <2>1, <3>1
    <3> QED
      BY <1>1, <2>2, <2>3, <3>2
  <2> QED
    BY <2>2, <2>3
<1>7. net \in Seq(Nat \X Nat) /\ Len(net) = n - 1
  BY DEF Started
<1>8. /\ new \in Seq(Nat \X Nat) /\ Len(new) = n
      /\ \A m \in 1..n - 1 : new[m] = net[m]
      /\ new[n] = <<0, x>>
  <2>1. <<0, x>> \in Nat \X Nat
    BY <1>1, <1>6
  <2>2. \A q \in Seq(Nat \X Nat) : \A e \in Nat \X Nat :
          /\ Append(q, e) \in Seq(Nat \X Nat) /\ Len(Append(q, e)) = Len(q) + 1
          /\ \A m \in 1..Len(q) : Append(q, e)[m] = q[m]
          /\ Append(q, e)[Len(q) + 1] = e
    OBVIOUS
  <2>3. n - 1 + 1 = n
    BY <1>1
  <2> HIDE DEF S
  <2> QED
    BY <1>7, <2>1, <2>2, <2>3
<1>9. \A m \in 1..n : m \in 1..n - 1 \/ m = n
  BY <1>1
<1> HIDE DEF new
<1>10. Ordered(new, num_inputs)
  <2>1. \A m \in 1..n - 1 : /\ net[m][1] \in 0..num_inputs + m - 2
                           /\ net[m][2] \in 0..num_inputs + m - 2
    BY <1>7 DEF Started, Ordered
  <2>2. 0 \in 0..num_inputs + n - 2 /\ x \in 0..num_inputs + n - 2
    BY <1>1, <1>6
  <2>3. new[n][1] = 0 /\ new[n][2] = x
    BY <1>8
  <2> QED
    BY <1>8, <1>9, <2>1, <2>2, <2>3 DEF Ordered
<1>11. \A a, b \in 1..n : new[a] = new[b] => a = b
  <2>1. \A a, b \in 1..n - 1 : net[a] = net[b] => a = b
    BY DEF Started
  <2>2. \A m \in 1..n - 1 : net[m] # <<0, x>>
    BY <1>6
  <2>3. \A a \in 1..n - 1 : new[a] # new[n]
    BY <1>8, <2>2
  <2>4. \A a, b \in 1..n - 1 : new[a] = new[b] => a = b
    BY <1>8, <2>1
  <2> QED
    BY <1>9, <2>3, <2>4
<1>12. \A a \in 1..n : /\ a <= 2 => new[a] = job[a]
                       /\ a > 2 => new[a][1] = 0 /\ LeastNew(new, a)
  <2>1. \A a \in 1..n - 1 : /\ a <= 2 => net[a] = job[a]
                            /\ a > 2 => net[a][1] = 0 /\ LeastNew(net, a)
    BY DEF Started
  <2>2. new[n][1] = 0 /\ new[n][2] = x
    BY <1>8
  <2>3. LeastNew(new, n)
    <3> SUFFICES ASSUME NEW s \in Nat, s < new[n][2]
                 PROVE  \E m \in 1..n - 1 : new[m] = <<0, s>>
      BY DEF LeastNew
    <3> QED
      BY <1>6, <1>8, <2>2
  <2>4. \A a \in 1..n - 1 : LeastNew(net, a) => LeastNew(new, a)
    <3> SUFFICES ASSUME NEW a \in 1..n - 1, LeastNew(net, a), NEW s \in Nat, s < new[a][2]
                 PROVE  \E m \in 1..a - 1 : new[m] = <<0, s>>
      BY DEF LeastNew
    <3>1. PICK m \in 1..a - 1 : net[m] = <<0, s>>
      BY <1>8 DEF LeastNew
    <3>2. m \in 1..n - 1
      BY <1>1
    <3> QED
      BY <1>8, <3>1, <3>2
  <2> QED
    BY <1>1, <1>8, <1>9, <2>1, <2>2, <2>3, <2>4
<1>13. Started(new, job, n)
  BY <1>8, <1>10, <1>11, <1>12 DEF Started
<1> QED
  BY <1>5, <1>13 DEF new

\* So the first network of a job is free of loops and repetitions.
LEMMA FirstNetworks ==
  ASSUME round \in 1..Len(Work) + 1, round <= Len(Work), NEW job \in Jobs(round)
  PROVE  Started(FirstNetwork(job), job, num_gates)
<1> DEFINE Is(first) == first = [n \in 1..num_gates |->
        IF n <= 2 THEN SubSeq(job, 1, n)
        ELSE Append(first[n - 1],
               <<0, Least({s \in 0..n : \A m \in 1..n - 1 : first[n - 1][m] # <<0, s>>})>>)]
<1>1. num_gates \in Nat \ {0}
  BY RoundType
<1>2. PICK f : Grows(f, job, num_gates)
  BY <1>1, GrowthExists
<1>3. Is(f)
  BY <1>2 DEF Grows, NewPair
<1>4. FirstNetwork(job) = (CHOOSE first : Is(first))[num_gates]
  BY DEF FirstNetwork
<1>5. PICK h : h = CHOOSE first : Is(first)
  OBVIOUS
<1>6. Is(h)
  <2> HIDE DEF Is
  <2> QED
    BY <1>3, <1>5
<1>7. \A n \in 1..num_gates : h[n] = IF n <= 2 THEN SubSeq(job, 1, n)
                                    ELSE Append(h[n - 1], NewPair(h[n - 1], n))
  BY <1>6 DEF NewPair
<1> DEFINE Bad == {n \in 1..num_gates : ~ Started(h[n], job, n)}
<1>8. ASSUME Bad # {}
      PROVE  FALSE
  <2>1. Bad \subseteq Nat
    OBVIOUS
  <2>2. PICK n \in Bad : \A c \in Bad : n <= c
    BY <1>8, <2>1, LeastExists
  <2>3. n \in 1..num_gates /\ ~ Started(h[n], job, n)
    BY <2>2
  <2>4. CASE n <= 2
    <3>1. h[n] = SubSeq(job, 1, n)
      BY <1>7, <2>3, <2>4
    <3> QED
      BY <2>3, <2>4, <3>1, StartOfJob
  <2>5. CASE ~ (n <= 2)
    <3>1. n - 1 \in 1..num_gates /\ ~ (n <= n - 1)
      BY <1>1, <2>3, <2>5
    <3>2. Started(h[n - 1], job, n - 1)
      BY <2>2, <3>1
    <3>3. h[n] = Append(h[n - 1], NewPair(h[n - 1], n))
      BY <1>7, <2>3, <2>5
    <3> QED
      BY <2>3, <2>5, <3>2, <3>3, AnotherGate
  <2> QED
    BY <2>4, <2>5
<1>9. Started(h[num_gates], job, num_gates)
  BY <1>1, <1>8
<1> QED
  BY <1>4, <1>5, <1>9
-----------------------------------------------------------------------------
\* Wirings.

\* The places of gate m, and what they may hold.
LEMMA PlacesOfGate ==
  ASSUME round \in 1..Len(Work) + 1, round <= Len(Work), NEW m \in 0..num_gates - 1
  PROVE  /\ m \in Nat /\ 2 * m \in 0..Last /\ 2 * m + 1 \in 0..Last
         /\ (2 * m) \div 2 = m /\ (2 * m + 1) \div 2 = m
         /\ (2 * m) % 2 = 0 /\ (2 * m + 1) % 2 = 1
         /\ \A g : Wired(g) => /\ g[2 * m] \in 0..num_inputs + m - 1
                               /\ g[2 * m + 1] \in 0..num_inputs + m - 1
<1>1. num_gates \in Nat \ {0} /\ Last = 2 * num_gates - 1 /\ m \in Nat
  BY RoundType
<1>2. 2 * m \in 0..Last /\ 2 * m + 1 \in 0..Last
  BY <1>1
<1>3. /\ (2 * m) \div 2 = m /\ (2 * m + 1) \div 2 = m
      /\ (2 * m) % 2 = 0 /\ (2 * m + 1) % 2 = 1
  BY <1>1
<1>4. \A g : Wired(g) => /\ g[2 * m] \in 0..num_inputs + m - 1
                         /\ g[2 * m + 1] \in 0..num_inputs + m - 1
  BY <1>2, <1>3 DEF Wired
<1> QED
  BY <1>1, <1>2, <1>3, <1>4

\* Every place is one of a gate.
LEMMA GateOfPlace ==
  ASSUME round \in 1..Len(Work) + 1, round <= Len(Work), NEW p \in 0..Last
  PROVE  /\ p \div 2 \in 0..num_gates - 1
         /\ (p % 2 = 0 /\ p = 2 * (p \div 2)) \/ (p % 2 = 1 /\ p = 2 * (p \div 2) + 1)
<1>1. num_gates \in Nat \ {0} /\ Last = 2 * num_gates - 1
  BY RoundType
<1> QED
  BY <1>1

\* The places of the first wiring of a job are the sources of its first network.
LEMMA FirstWiringPlaces ==
  ASSUME round \in 1..Len(Work) + 1, round <= Len(Work), NEW job, NEW m \in 0..num_gates - 1
  PROVE  /\ FirstWiring(job)[2 * m] = FirstNetwork(job)[m + 1][1]
         /\ FirstWiring(job)[2 * m + 1] = FirstNetwork(job)[m + 1][2]
<1> PICK g, net : g = FirstWiring(job) /\ net = FirstNetwork(job)
  OBVIOUS
<1>1. g = [p \in 0..Last |-> net[(p \div 2) + 1][(p % 2) + 1]]
  BY DEF FirstWiring
<1>2. /\ 2 * m \in 0..Last /\ 2 * m + 1 \in 0..Last
      /\ (2 * m) \div 2 = m /\ (2 * m + 1) \div 2 = m
      /\ (2 * m) % 2 = 0 /\ (2 * m + 1) % 2 = 1
  BY PlacesOfGate
<1> QED
  BY <1>1, <1>2

\* A job starts with a wiring that may be stored, but for its first two gates.
LEMMA FirstWiringFits ==
  ASSUME round \in 1..Len(Work) + 1, round <= Len(Work), NEW job \in Jobs(round)
  PROVE  HereAt("unused", FirstWiring(job), Last)
<1> DEFINE g == FirstWiring(job)
           net == FirstNetwork(job)
<1>1. num_inputs \in Nat \ {0} /\ num_gates \in Nat \ {0} /\ Last \in Nat
  BY RoundType
<1>2. Started(net, job, num_gates)
  BY FirstNetworks
<1>3. g = [p \in 0..Last |-> net[(p \div 2) + 1][(p % 2) + 1]]
  BY DEF FirstWiring
<1> HIDE DEF g, net
<1>4. /\ net \in Seq(Nat \X Nat) /\ Len(net) = num_gates
      /\ Ordered(net, num_inputs)
      /\ \A a, b \in 1..num_gates : net[a] = net[b] => a = b
      /\ \A a \in 1..num_gates : a > 2 => net[a][1] = 0
  BY <1>2 DEF Started
<1>5. \A m \in 0..num_gates - 1 : m + 1 \in 1..num_gates
  BY <1>1
<1>6. \A m \in 0..num_gates - 1 : g[2 * m] = net[m + 1][1] /\ g[2 * m + 1] = net[m + 1][2]
  BY FirstWiringPlaces DEF g, net
<1>7. \A m \in 0..num_gates - 1 :
        /\ g[2 * m] \in 0..num_inputs + m - 1
        /\ g[2 * m + 1] \in 0..num_inputs + m - 1
  <2> TAKE m \in 0..num_gates - 1
  <2>1. /\ net[m + 1][1] \in 0..num_inputs + (m + 1) - 2
        /\ net[m + 1][2] \in 0..num_inputs + (m + 1) - 2
    BY <1>4, <1>5 DEF Ordered
  <2> QED
    BY <1>1, <1>6, <2>1
<1>8. Wired(g)
  <2>1. \A p \in 0..Last : g[p] \in 0..num_inputs + (p \div 2) - 1
    <3> TAKE p \in 0..Last
    <3>1. /\ p \div 2 \in 0..num_gates - 1
          /\ p = 2 * (p \div 2) \/ p = 2 * (p \div 2) + 1
      BY GateOfPlace
    <3> QED
      BY <1>7, <3>1
  <2> QED
    BY <1>3, <2>1 DEF Wired
<1>9. ~HasDuplicates(g)
  <2> SUFFICES ASSUME NEW m \in 0..num_gates - 1, NEW n \in 0..num_gates - 1,
                      m < n, Pair(g, m) = Pair(g, n)
               PROVE  FALSE
    BY DEF HasDuplicates
  <2>1. m + 1 \in 1..num_gates /\ n + 1 \in 1..num_gates
    BY <1>5
  <2>2. net[m + 1] \in Nat \X Nat /\ net[n + 1] \in Nat \X Nat
    BY <1>4, <2>1
  <2>3. g[2 * m] = g[2 * n] /\ g[2 * m + 1] = g[2 * n + 1]
    BY DEF Pair
  <2>4. net[m + 1][1] = net[n + 1][1] /\ net[m + 1][2] = net[n + 1][2]
    BY <1>6, <2>3
  <2>5. net[m + 1] = net[n + 1]
    BY <2>2, <2>4
  <2>6. m + 1 = n + 1
    BY <1>4, <2>1, <2>5
  <2> QED
    BY <1>1, <2>6
<1>10. NotNots(g) \subseteq {1}
  <2> SUFFICES ASSUME NEW n \in 1..num_gates - 1, n # 1, g[2 * n] >= num_inputs
               PROVE  FALSE
    BY DEF NotNots
  <2>1. n \in 0..num_gates - 1 /\ n + 1 \in 1..num_gates /\ n + 1 > 2
    BY <1>1
  <2>2. g[2 * n] = 0
    BY <1>4, <1>6, <2>1
  <2> QED
    BY <1>1, <2>2
<1> QED
  BY <1>1, <1>8, <1>9, <1>10 DEF HereAt, g

\* A place may become any source of its gate; what is reset fits as well.
LEMMA ResetFits ==
  ASSUME round \in 1..Len(Work) + 1, round <= Len(Work), NEW g, Wired(g), NEW p \in 0..Last,
         NEW s \in 0..num_inputs + (p \div 2) - 1
  PROVE  Wired(Reset(g, p, s))
<1>1. num_inputs \in Nat \ {0} /\ Last \in Nat
  BY RoundType
<1> DEFINE h == Reset(g, p, s)
<1>2. h = [q \in 0..Last |->
             IF q < p THEN g[q] ELSE IF q = p \/ (q = p + 1 /\ p % 2 = 0) THEN s ELSE 0]
  BY DEF Reset
<1> HIDE DEF h
<1>3. \A q \in 0..Last : h[q] \in 0..num_inputs + (q \div 2) - 1
  <2> TAKE q \in 0..Last
  <2>1. CASE q < p
    BY <1>2, <2>1 DEF Wired
  <2>2. CASE q = p
    BY <1>2, <2>2
  <2>3. CASE q = p + 1 /\ p % 2 = 0
    <3>1. q \div 2 = p \div 2
      BY <2>3
    <3> QED
      BY <1>2, <2>3, <3>1
  <2>4. CASE ~ (q < p) /\ q # p /\ ~ (q = p + 1 /\ p % 2 = 0)
    <3>1. h[q] = 0
      BY <1>2, <2>4
    <3> QED
      BY <1>1, <3>1
  <2> QED
    BY <2>1, <2>2, <2>3, <2>4
<1>4. h \in [0..Last -> Nat]
  <2>1. \A q \in 0..Last : h[q] \in Nat
    BY <1>1, <1>3
  <2> QED
    BY <1>2, <2>1
<1> QED
  BY <1>3, <1>4 DEF Wired, h

\* So may a place alone.
LEMMA PlaceFits ==
  ASSUME NEW g, Wired(g), NEW p \in 0..Last, NEW s \in 0..num_inputs + (p \div 2) - 1
  PROVE  Wired([g EXCEPT ![p] = s])
  BY DEF Wired
-----------------------------------------------------------------------------
\* The steps of a thread within a job.

\* Thread t goes to a label, with wiring g and place p; the others stay.
Moves(t, label, g, p) ==
  /\ round' = round
  /\ pc' = [pc EXCEPT ![t] = label]
  /\ DOMAIN gate_inputs' = Threads
  /\ gate_inputs'[t] = g
  /\ \A u \in Threads \ {t} : gate_inputs'[u] = gate_inputs[u]
  /\ DOMAIN pos' = Threads
  /\ pos'[t] = p
  /\ \A u \in Threads \ {t} : pos'[u] = pos[u]

\* Where a thread may be depends on the round.
LEMMA HereKept ==
  ASSUME round' = round, NEW label, NEW g, NEW p
  PROVE  HereAt(label, g, p)' <=> HereAt(label, g, p)
BY DEF HereAt, Wired, HasDuplicates, NotNots, Unused, Misplaced, Swappable, Inputs, Last,
       num_inputs, num_gates

\* What a step of a thread keeps, if the thread may be where it goes.
LEMMA MovesKeep ==
  ASSUME TypeInv, JobInv, NEW t \in Threads, NEW label \in Labels, NEW g, NEW p,
         Moves(t, label, g, p), label # "idle" => HereAt(label, g, p)
  PROVE  /\ JobInv'
         /\ pc' \in [Threads -> Labels]
         /\ DOMAIN gate_inputs' = Threads /\ DOMAIN pos' = Threads
<1>1. pc \in [Threads -> Labels]
  BY DEF TypeInv
<1>2. /\ round' = round
      /\ pc' \in [Threads -> Labels]
      /\ pc'[t] = label /\ gate_inputs'[t] = g /\ pos'[t] = p
      /\ \A u \in Threads \ {t} :
           pc'[u] = pc[u] /\ gate_inputs'[u] = gate_inputs[u] /\ pos'[u] = pos[u]
      /\ DOMAIN gate_inputs' = Threads /\ DOMAIN pos' = Threads
  BY <1>1 DEF Moves
<1>3. JobInv'
  <2> SUFFICES ASSUME NEW u \in Threads, pc'[u] # "idle"
               PROVE  HereAt(pc[u], gate_inputs[u], pos[u])'
    BY DEF JobInv
  <2> PICK l, h, q : l = pc'[u] /\ h = gate_inputs'[u] /\ q = pos'[u]
    OBVIOUS
  <2>1. HereAt(l, h, q)
    <3>1. CASE u = t
      BY <1>2, <3>1
    <3>2. CASE u # t
      BY <1>2, <3>2 DEF JobInv
    <3> QED
      BY <3>1, <3>2
  <2>2. HereAt(l, h, q)'
    BY <1>2, <2>1, HereKept
  <2> QED
    BY <2>2
<1> QED
  BY <1>2, <1>3

\* A thread at work has a wiring.
LEMMA AtWork ==
  ASSUME TypeInv, JobInv, NEW t \in Threads, pc[t] # "idle"
  PROVE  /\ round \in 1..Len(Work) + 1 /\ round <= Len(Work)
         /\ HereAt(pc[t], gate_inputs[t], pos[t])
         /\ pos[t] \in 0..Last /\ Wired(gate_inputs[t])
         /\ num_inputs \in Nat \ {0} /\ num_gates \in Nat \ {0}
         /\ Last \in Nat /\ Last = 2 * num_gates - 1
<1>1. HereAt(pc[t], gate_inputs[t], pos[t]) /\ round \in 1..Len(Work) + 1
  BY DEF TypeInv, JobInv
<1>2. round <= Len(Work) /\ pos[t] \in 0..Last /\ Wired(gate_inputs[t])
  BY <1>1 DEF HereAt
<1> QED
  BY <1>1, <1>2, RoundType

\* A step that leaves the wiring alone.
LEMMA StaysAt ==
  ASSUME TypeInv, NEW t \in Threads, NEW label,
         GoTo(t, label), UNCHANGED <<round, jobVars>>
  PROVE  Moves(t, label, gate_inputs[t], pos[t])
BY DEF TypeInv, GoTo, Moves, jobVars

\* inc_from: the place is the last one of the gate.
LEMMA IncFromMoves ==
  ASSUME TypeInv, NEW t \in Threads, NEW n, IncFrom(t, n), UNCHANGED <<round, gate_inputs>>
  PROVE  Moves(t, "inc", gate_inputs[t], 2 * n + 1)
BY DEF TypeInv, IncFrom, GoTo, Moves

\* At "inc" nothing but the types is asked for.
LEMMA AtInc ==
  ASSUME round <= Len(Work), NEW g, Wired(g), NEW p \in 0..Last
  PROVE  HereAt("inc", g, p)
BY DEF HereAt

\* A thread starts its job at the first wiring of it.
LEMMA TakeJobMoves ==
  ASSUME TypeInv, JobInv, NEW t \in Threads, TakeJob(t)
  PROVE  /\ JobInv' /\ pc' \in [Threads -> Labels]
         /\ DOMAIN gate_inputs' = Threads /\ DOMAIN pos' = Threads
<1>1. round \in 1..Len(Work) + 1 /\ round <= Len(Work)
  BY DEF TypeInv, TakeJob, Working
<1>2. PICK job \in jobs : gate_inputs' = [gate_inputs EXCEPT ![t] = FirstWiring(job)]
  BY DEF TakeJob
<1>3. job \in Jobs(round)
  BY DEF TypeInv
<1>4. HereAt("unused", FirstWiring(job), Last)
  BY <1>1, <1>3, FirstWiringFits
<1> PICK g : g = FirstWiring(job)
  OBVIOUS
<1>5. Moves(t, "unused", g, Last)
  BY <1>2 DEF TypeInv, TakeJob, GoTo, Moves
<1> QED
  BY <1>4, <1>5, MovesKeep DEF Labels

\* An input that is not used yet, put in the last place, makes a pair that is
\* new, and no double negation.
LEMMA UnusedInputFits ==
  ASSUME round \in 1..Len(Work) + 1, round <= Len(Work), NEW g, HereAt("unused", g, Last),
         NEW s \in Unused(g)
  PROVE  HereAt("unused", [g EXCEPT ![Last] = s], Last)
<1> DEFINE h == [g EXCEPT ![Last] = s]
           last == num_gates - 1
<1>1. /\ num_inputs \in Nat \ {0} /\ num_gates \in Nat \ {0}
      /\ Last \in Nat /\ Last = 2 * num_gates - 1
  BY RoundType
<1>2. /\ Wired(g) /\ ~HasDuplicates(g) /\ NotNots(g) \subseteq {1}
  BY DEF HereAt
<1>3. s \in 0..num_inputs - 1 /\ \A p \in 0..Last : g[p] # s
  BY DEF Unused, Inputs
<1>4. Last = 2 * last + 1 /\ last \in 0..num_gates - 1 /\ Last \div 2 = last
  BY <1>1
<1>5. DOMAIN g = 0..Last
  BY <1>2 DEF Wired
<1>6. h[Last] = s /\ \A p \in 0..Last : p # Last => h[p] = g[p]
  BY <1>1, <1>5
<1>7. Wired(h)
  <2>1. s \in 0..num_inputs + (Last \div 2) - 1
    BY <1>1, <1>3, <1>4
  <2> QED
    BY <1>1, <1>2, <2>1, PlaceFits
<1> HIDE DEF h
<1>8. \A m \in 0..num_gates - 1 :
        /\ 2 * m \in 0..Last /\ 2 * m # Last /\ 2 * m + 1 \in 0..Last
        /\ m # last => 2 * m + 1 # Last
  BY <1>1
<1>9. ~HasDuplicates(h)
  <2> SUFFICES ASSUME NEW m \in 0..num_gates - 1, NEW n \in 0..num_gates - 1,
                      m < n, Pair(h, m) = Pair(h, n)
               PROVE  FALSE
    BY DEF HasDuplicates
  <2>1. h[2 * m] = h[2 * n] /\ h[2 * m + 1] = h[2 * n + 1]
    BY DEF Pair
  <2>2. m # last
    BY <1>1
  <2>3. h[2 * m] = g[2 * m] /\ h[2 * m + 1] = g[2 * m + 1] /\ h[2 * n] = g[2 * n]
    BY <1>6, <1>8, <2>2
  <2>4. n # last
    BY <1>3, <1>4, <1>6, <1>8, <2>1, <2>3
  <2>5. h[2 * n + 1] = g[2 * n + 1]
    BY <1>6, <1>8, <2>4
  <2>6. Pair(g, m) = Pair(g, n)
    BY <2>1, <2>3, <2>5 DEF Pair
  <2> QED
    BY <1>2, <2>6 DEF HasDuplicates
<1>10. NotNots(h) \subseteq {1}
  <2> SUFFICES ASSUME NEW n \in NotNots(h), n # 1
               PROVE  FALSE
    OBVIOUS
  <2> DEFINE m == h[2 * n] - num_inputs
  <2>1. /\ n \in 1..num_gates - 1 /\ IsNot(h, n)
        /\ h[2 * n] >= num_inputs /\ IsNot(h, m)
    BY DEF NotNots
  <2>2. n \in 0..num_gates - 1
    BY <1>1, <2>1
  <2>3. h[2 * n] \in 0..num_inputs + n - 1
    BY <1>7, <2>2, PlacesOfGate
  <2>4. m \in 0..num_gates - 1 /\ m < n
    BY <1>1, <2>1, <2>3
  <2>5. n # last
    BY <1>1, <1>3, <1>4, <1>6, <2>1 DEF IsNot
  <2>6. m # last
    BY <1>1, <2>1, <2>4
  <2>7. h[2 * n] = g[2 * n] /\ h[2 * n + 1] = g[2 * n + 1]
    BY <1>6, <1>8, <2>2, <2>5
  <2>8. m = g[2 * n] - num_inputs
    BY <2>7
  <2> HIDE DEF m
  <2>9. h[2 * m] = g[2 * m] /\ h[2 * m + 1] = g[2 * m + 1]
    BY <1>6, <1>8, <2>4, <2>6
  <2>10. n \in NotNots(g)
    BY <2>1, <2>7, <2>8, <2>9 DEF NotNots, IsNot
  <2> QED
    BY <1>2, <2>10
<1>11. HereAt("unused", h, Last)
  BY <1>1, <1>7, <1>9, <1>10 DEF HereAt
<1> QED
  BY <1>11 DEF h

\* A helpful input in the last place is one that the place may refer to.
LEMMA FixUnusedMoves ==
  ASSUME TypeInv, JobInv, NEW t \in Threads, FixUnused(t)
  PROVE  /\ JobInv' /\ pc' \in [Threads -> Labels]
         /\ DOMAIN gate_inputs' = Threads /\ DOMAIN pos' = Threads
<1> DEFINE g == gate_inputs[t]
           helpful == {s \in Unused(g) : s > g[pos[t]]}
<1>1. pc[t] = "unused" /\ UNCHANGED <<round, pos>>
  BY DEF FixUnused
<1>2. /\ round \in 1..Len(Work) + 1 /\ round <= Len(Work)
      /\ HereAt("unused", g, pos[t]) /\ pos[t] \in 0..Last /\ Wired(g)
  BY <1>1, AtWork
<1>3. /\ pos[t] = Last /\ ~HasDuplicates(g) /\ NotNots(g) \subseteq {1}
  BY <1>2 DEF HereAt
<1>4. CASE Unused(g) = {} /\ GoTo(t, "order") /\ UNCHANGED gate_inputs
  <2>1. Moves(t, "order", g, pos[t])
    BY <1>1, <1>4, StaysAt DEF jobVars
  <2>2. HereAt("order", g, pos[t])
    BY <1>2, <1>3, <1>4 DEF HereAt
  <2> QED
    BY <2>1, <2>2, MovesKeep DEF Labels
<1>5. CASE Unused(g) # {} /\ pos[t] < 4 /\ GoTo(t, "inc") /\ UNCHANGED gate_inputs
  <2>1. Moves(t, "inc", g, pos[t])
    BY <1>1, <1>5, StaysAt DEF jobVars
  <2> QED
    BY <1>2, <2>1, AtInc, MovesKeep DEF Labels
<1>6. CASE Unused(g) # {} /\ pos[t] >= 4 /\ helpful = {} /\ GoTo(t, "wraps")
           /\ UNCHANGED gate_inputs
  <2>1. Moves(t, "wraps", g, pos[t])
    BY <1>1, <1>6, StaysAt DEF jobVars
  <2>2. HereAt("wraps", g, pos[t])
    BY <1>2, <1>6 DEF HereAt
  <2> QED
    BY <2>1, <2>2, MovesKeep DEF Labels
<1>7. CASE /\ pos[t] >= 4 /\ helpful # {}
           /\ gate_inputs' = [gate_inputs EXCEPT ![t][pos[t]] = Least(helpful)]
           /\ UNCHANGED pc
  <2>1. helpful \subseteq Nat
    BY DEF Unused, Inputs
  <2>2. Least(helpful) \in helpful
    BY <1>7, <2>1, LeastIsLeast
  <2>3. Least(helpful) \in Unused(g)
    BY <2>2
  <2> PICK s : s = Least(helpful)
    OBVIOUS
  <2> PICK h : h = [g EXCEPT ![Last] = s]
    OBVIOUS
  <2>4. HereAt("unused", h, Last)
    BY <1>2, <1>3, <2>3, UnusedInputFits
  <2>5. gate_inputs' = [gate_inputs EXCEPT ![t] = h]
    BY <1>3, <1>7
  <2>6. Moves(t, "unused", h, Last)
    <3>1. pc' = [pc EXCEPT ![t] = "unused"]
      BY <1>1, <1>7 DEF TypeInv
    <3> QED
      BY <1>1, <1>3, <2>5, <3>1 DEF TypeInv, Moves
  <2> QED
    BY <2>4, <2>6, MovesKeep DEF Labels
<1> QED
  BY <1>4, <1>5, <1>6, <1>7 DEF FixUnused

\* Only wirings in order go on to Catalogue().
LEMMA CheckOrderMoves ==
  ASSUME TypeInv, JobInv, NEW t \in Threads, CheckOrder(t)
  PROVE  /\ JobInv' /\ pc' \in [Threads -> Labels]
         /\ DOMAIN gate_inputs' = Threads /\ DOMAIN pos' = Threads
<1> DEFINE g == gate_inputs[t]
           n == Least(Misplaced(g))
<1>1. pc[t] = "order" /\ UNCHANGED <<round, gate_inputs>>
  BY DEF CheckOrder
<1>2. /\ round \in 1..Len(Work) + 1 /\ round <= Len(Work)
      /\ HereAt("order", g, pos[t]) /\ pos[t] \in 0..Last /\ Wired(g)
      /\ num_gates \in Nat \ {0}
  BY <1>1, AtWork
<1>3. CASE Misplaced(g) = {} /\ GoTo(t, "catalogue") /\ UNCHANGED pos
  <2>1. Moves(t, "catalogue", g, pos[t])
    BY <1>1, <1>3, StaysAt DEF jobVars
  <2>2. HereAt("catalogue", g, pos[t])
    BY <1>2, <1>3 DEF HereAt
  <2> QED
    BY <2>1, <2>2, MovesKeep DEF Labels
<1>4. CASE Misplaced(g) # {} /\ Unordered(g, n) /\ GoTo(t, "inc") /\ UNCHANGED pos
  <2>1. Moves(t, "inc", g, pos[t])
    BY <1>1, <1>4, StaysAt DEF jobVars
  <2> QED
    BY <1>2, <2>1, AtInc, MovesKeep DEF Labels
<1>5. CASE Misplaced(g) # {} /\ ~Unordered(g, n) /\ IncFrom(t, n)
  <2>1. Misplaced(g) \subseteq 1..num_gates - 1
    BY DEF Misplaced
  <2>2. n \in Misplaced(g)
    <3>1. Misplaced(g) \subseteq Nat
      BY <2>1
    <3> QED
      BY <1>5, <3>1, LeastIsLeast
  <2>3. n \in 0..num_gates - 1
    BY <2>1, <2>2
  <2>4. 2 * n + 1 \in 0..Last
    BY <1>2, <2>3, PlacesOfGate
  <2>5. Moves(t, "inc", g, 2 * n + 1)
    BY <1>1, <1>5, IncFromMoves
  <2> QED
    BY <1>2, <2>4, <2>5, AtInc, MovesKeep DEF Labels
<1> QED
  BY <1>3, <1>4, <1>5 DEF CheckOrder

\* The network of a wiring, as it is stored.
LEMMA NetworkOfWiring ==
  ASSUME round \in 1..Len(Work) + 1, round <= Len(Work), NEW g, Wired(g)
  PROVE  /\ Network(g) \in Seq(Nat \X Nat) /\ Len(Network(g)) = num_gates
         /\ \A m \in 0..num_gates - 1 : Network(g)[m + 1] = <<g[2 * m], g[2 * m + 1]>>
         /\ Ordered(Network(g), num_inputs)
<1>1. num_inputs \in Nat \ {0} /\ num_gates \in Nat \ {0}
  BY RoundType
<1> DEFINE net == Network(g)
<1>2. net = [n \in 1..num_gates |-> <<g[2 * (n - 1)], g[2 * (n - 1) + 1]>>]
  BY DEF Network, Pair
<1> HIDE DEF net
<1>3. \A n \in 1..num_gates : /\ n - 1 \in 0..num_gates - 1
                              /\ g[2 * (n - 1)] \in 0..num_inputs + n - 2
                              /\ g[2 * (n - 1) + 1] \in 0..num_inputs + n - 2
  <2> TAKE n \in 1..num_gates
  <2>1. n - 1 \in 0..num_gates - 1
    BY <1>1
  <2>2. /\ g[2 * (n - 1)] \in 0..num_inputs + (n - 1) - 1
        /\ g[2 * (n - 1) + 1] \in 0..num_inputs + (n - 1) - 1
    BY <2>1, PlacesOfGate
  <2> QED
    BY <1>1, <2>1, <2>2
<1>4. \A n \in 1..num_gates :
        /\ net[n] = <<g[2 * (n - 1)], g[2 * (n - 1) + 1]>>
        /\ net[n] \in Nat \X Nat
  BY <1>1, <1>2, <1>3
<1>5. net \in Seq(Nat \X Nat) /\ Len(net) = num_gates
  <2>1. net \in [1..num_gates -> Nat \X Nat]
    BY <1>2, <1>4
  <2> QED
    BY <1>1, <2>1
<1>6. \A m \in 0..num_gates - 1 : net[m + 1] = <<g[2 * m], g[2 * m + 1]>>
  <2> TAKE m \in 0..num_gates - 1
  <2>1. m + 1 \in 1..num_gates /\ (m + 1) - 1 = m
    BY <1>1
  <2> QED
    BY <1>4, <2>1
<1>7. Ordered(net, num_inputs)
  <2>1. \A n \in 1..num_gates :
          net[n][1] = g[2 * (n - 1)] /\ net[n][2] = g[2 * (n - 1) + 1]
    BY <1>4
  <2>2. \A n \in 1..num_gates : /\ net[n][1] \in 0..num_inputs + n - 2
                                /\ net[n][2] \in 0..num_inputs + n - 2
    BY <1>3, <2>1
  <2> QED
    BY <1>5, <2>2 DEF Ordered
<1> QED
  BY <1>5, <1>6, <1>7 DEF net

\* The gates that Catalogue() objects to are gates.
LEMMA BadGatesAreGates ==
  ASSUME NEW net, NEW i
  PROVE  BadGates(net, i) \subseteq 0..Len(net) - 1
BY DEF BadGates, ConstantGates, CopyGates

\* The places after a bad gate are reset.
LEMMA SkipBadGateMoves ==
  ASSUME TypeInv, JobInv, NEW t \in Threads, SkipBadGate(t)
  PROVE  /\ JobInv' /\ pc' \in [Threads -> Labels]
         /\ DOMAIN gate_inputs' = Threads /\ DOMAIN pos' = Threads
<1> DEFINE g == gate_inputs[t]
           bad == BadGates(Network(g), num_inputs)
           n == Least(bad)
<1>1. /\ pc[t] = "catalogue" /\ UNCHANGED <<round, gate_inputs>>
      /\ bad # {} /\ IncFrom(t, n)
  BY DEF SkipBadGate
<1>2. /\ round \in 1..Len(Work) + 1 /\ round <= Len(Work) /\ Wired(g)
      /\ num_gates \in Nat \ {0}
  BY <1>1, AtWork
<1>3. bad \subseteq 0..num_gates - 1
  BY <1>2, NetworkOfWiring, BadGatesAreGates
<1> HIDE DEF bad
<1>4. n \in bad
  <2>1. bad \subseteq Nat
    BY <1>3
  <2> QED
    BY <1>1, <2>1, LeastIsLeast
<1>5. 2 * n + 1 \in 0..Last
  BY <1>2, <1>3, <1>4, PlacesOfGate
<1>6. Moves(t, "inc", g, 2 * n + 1)
  BY <1>1, IncFromMoves
<1> QED
  BY <1>2, <1>5, <1>6, AtInc, MovesKeep DEF Labels

\* After a record the last place is incremented.
LEMMA RecordMoves ==
  ASSUME TypeInv, JobInv, NEW t \in Threads, Record(t)
  PROVE  /\ JobInv' /\ pc' \in [Threads -> Labels]
         /\ DOMAIN gate_inputs' = Threads /\ DOMAIN pos' = Threads
<1>1. pc[t] = "catalogue" /\ UNCHANGED <<round, jobVars>> /\ GoTo(t, "inc")
  BY DEF Record
<1>2. Moves(t, "inc", gate_inputs[t], pos[t])
  BY <1>1, StaysAt
<1> QED
  BY <1>1, <1>2, AtWork, AtInc, MovesKeep DEF Labels

\* The places of the job itself are never incremented.
LEMMA JobDoneMoves ==
  ASSUME TypeInv, JobInv, NEW t \in Threads, JobDone(t)
  PROVE  /\ JobInv' /\ pc' \in [Threads -> Labels]
         /\ DOMAIN gate_inputs' = Threads /\ DOMAIN pos' = Threads
<1>1. Moves(t, "idle", << >>, 0)
  BY DEF TypeInv, JobDone, EndJob, GoTo, Moves
<1> QED
  BY <1>1, MovesKeep DEF Labels

\* An incremented wiring is free of loops; without repetitions it is looked at.
LEMMA IncrementMoves ==
  ASSUME TypeInv, JobInv, NEW t \in Threads, Increment(t)
  PROVE  /\ JobInv' /\ pc' \in [Threads -> Labels]
         /\ DOMAIN gate_inputs' = Threads /\ DOMAIN pos' = Threads
<1> DEFINE g == gate_inputs[t]
           p == pos[t]
           s == g[p] + 1
<1>1. pc[t] = "inc" /\ p >= 4 /\ round' = round
  BY DEF Increment
<1>2. /\ round \in 1..Len(Work) + 1 /\ round <= Len(Work) /\ p \in 0..Last /\ Wired(g)
      /\ num_inputs \in Nat \ {0} /\ num_gates \in Nat \ {0} /\ Last \in Nat
  BY <1>1, AtWork
<1>3. CASE s >= num_inputs + (p \div 2)
  <2>1. GoTo(t, "wraps") /\ UNCHANGED jobVars
    BY <1>3 DEF Increment
  <2>2. Moves(t, "wraps", g, p)
    BY <1>1, <2>1, StaysAt
  <2>3. HereAt("wraps", g, p)
    BY <1>1, <1>2 DEF HereAt
  <2> QED
    BY <2>2, <2>3, MovesKeep DEF Labels
<1>4. CASE ~ (s >= num_inputs + (p \div 2))
  <2> PICK h : h = Reset(g, p, s)
    OBVIOUS
  <2>1. /\ gate_inputs' = [gate_inputs EXCEPT ![t] = h]
        /\ \/ HasDuplicates(h) /\ pos' = [pos EXCEPT ![t] = Last] /\ GoTo(t, "inc")
           \/ ~HasDuplicates(h) /\ NotNots(h) # {} /\ IncFrom(t, Least(NotNots(h)))
           \/ ~HasDuplicates(h) /\ NotNots(h) = {} /\ pos' = [pos EXCEPT ![t] = Last]
              /\ GoTo(t, "unused")
    BY <1>4 DEF Increment
  <2>2. Wired(h)
    <3>1. g[p] \in 0..num_inputs + (p \div 2) - 1
      BY <1>2 DEF Wired
    <3>2. s \in 0..num_inputs + (p \div 2) - 1
      <4> PICK limit, old : limit = num_inputs + (p \div 2) /\ old = g[p]
        OBVIOUS
      <4>1. limit \in Int /\ old \in 0..limit - 1
        BY <1>2, <3>1
      <4>2. old + 1 \in 0..limit - 1
        BY <1>4, <4>1
      <4>3. s = old + 1
        OBVIOUS
      <4> HIDE DEF s
      <4> QED
        BY <1>2, <4>2, <4>3
    <3> QED
      BY <1>2, <3>2, ResetFits
  <2>3. CASE pos' = [pos EXCEPT ![t] = Last] /\ GoTo(t, "inc")
    <3>1. Moves(t, "inc", h, Last)
      BY <1>1, <2>1, <2>3 DEF TypeInv, GoTo, Moves
    <3> QED
      BY <1>2, <2>2, <3>1, AtInc, MovesKeep DEF Labels
  <2>4. CASE NotNots(h) # {} /\ IncFrom(t, Least(NotNots(h)))
    <3> PICK n : n = Least(NotNots(h))
      OBVIOUS
    <3>1. NotNots(h) \subseteq 1..num_gates - 1
      BY DEF NotNots
    <3>2. n \in NotNots(h)
      <4>1. NotNots(h) \subseteq Nat
        BY <3>1
      <4> QED
        BY <2>4, <4>1, LeastIsLeast
    <3>3. n \in 0..num_gates - 1
      BY <3>1, <3>2
    <3>4. 2 * n + 1 \in 0..Last
      BY <1>2, <3>3, PlacesOfGate
    <3>5. Moves(t, "inc", h, 2 * n + 1)
      BY <1>1, <2>1, <2>4 DEF TypeInv, IncFrom, GoTo, Moves
    <3> QED
      BY <1>2, <2>2, <3>4, <3>5, AtInc, MovesKeep DEF Labels
  <2>5. CASE ~HasDuplicates(h) /\ NotNots(h) = {} /\ pos' = [pos EXCEPT ![t] = Last]
             /\ GoTo(t, "unused")
    <3>1. Moves(t, "unused", h, Last)
      BY <1>1, <2>1, <2>5 DEF TypeInv, GoTo, Moves
    <3>2. HereAt("unused", h, Last)
      BY <1>2, <2>2, <2>5 DEF HereAt
    <3> QED
      BY <3>1, <3>2, MovesKeep DEF Labels
  <2> QED
    BY <2>1, <2>3, <2>4, <2>5
<1> QED
  BY <1>3, <1>4

\* A place that wraps is reset, and the one before it is next.
LEMMA WrapMoves ==
  ASSUME TypeInv, JobInv, NEW t \in Threads, Wrap(t)
  PROVE  /\ JobInv' /\ pc' \in [Threads -> Labels]
         /\ DOMAIN gate_inputs' = Threads /\ DOMAIN pos' = Threads
<1> DEFINE g == gate_inputs[t]
           p == pos[t]
<1>1. pc[t] = "wraps" /\ round' = round
  BY DEF Wrap
<1>2. /\ round \in 1..Len(Work) + 1 /\ round <= Len(Work) /\ p \in 0..Last /\ Wired(g)
      /\ HereAt("wraps", g, p)
      /\ num_inputs \in Nat \ {0} /\ num_gates \in Nat \ {0} /\ Last \in Nat
  BY <1>1, AtWork
<1>3. p >= 4
  BY <1>2 DEF HereAt
<1>4. CASE p = 4
  <2>1. EndJob(t)
    BY <1>4 DEF Wrap
  <2>2. Moves(t, "idle", << >>, 0)
    BY <1>1, <2>1 DEF TypeInv, EndJob, GoTo, Moves
  <2> QED
    BY <2>2, MovesKeep DEF Labels
<1>5. CASE p # 4
  <2> PICK h : h = [g EXCEPT ![p] = 0]
    OBVIOUS
  <2>1. /\ gate_inputs' = [gate_inputs EXCEPT ![t] = h]
        /\ pos' = [pos EXCEPT ![t] = p - 1] /\ GoTo(t, "inc")
    BY <1>5 DEF Wrap
  <2>2. Wired(h)
    <3>1. 0 \in 0..num_inputs + (p \div 2) - 1
      BY <1>2
    <3> QED
      BY <1>2, <3>1, PlaceFits
  <2>3. p - 1 \in 0..Last
    BY <1>2, <1>3
  <2> PICK q : q = p - 1
    OBVIOUS
  <2>4. Moves(t, "inc", h, q)
    BY <1>1, <2>1 DEF TypeInv, GoTo, Moves
  <2> QED
    BY <1>2, <2>2, <2>3, <2>4, AtInc, MovesKeep DEF Labels
<1> QED
  BY <1>4, <1>5
-----------------------------------------------------------------------------
\* Records.

\* If the second gate of a wiring undoes the negation that is the first one,
\* it copies an input.  So Catalogue() finds it.
LEMMA DoubleNegationIsBad ==
  ASSUME round \in 1..Len(Work) + 1, round <= Len(Work), NEW g, Wired(g), 1 \in NotNots(g)
  PROVE  BadGates(Network(g), num_inputs) # {}
<1> DEFINE net == Network(g)
           i == num_inputs
           on == Truth(net, i)
<1>1. i \in Nat \ {0} /\ num_gates \in Nat \ {0}
  BY RoundType
<1>2. /\ net \in Seq(Nat \X Nat) /\ Len(net) = num_gates
      /\ \A m \in 0..num_gates - 1 : net[m + 1] = <<g[2 * m], g[2 * m + 1]>>
      /\ Ordered(net, i)
  BY NetworkOfWiring
<1>3. /\ 1 \in 1..num_gates - 1 /\ IsNot(g, 1) /\ g[2 * 1] >= i /\ IsNot(g, g[2 * 1] - i)
  BY DEF NotNots
<1>4. 0 \in 0..num_gates - 1 /\ 1 \in 0..num_gates - 1
  BY <1>1, <1>3
<1>5. /\ g[2 * 0] \in 0..i + 0 - 1 /\ g[2 * 0 + 1] \in 0..i + 0 - 1
      /\ g[2 * 1] \in 0..i + 1 - 1 /\ g[2 * 1 + 1] \in 0..i + 1 - 1
  BY <1>4, PlacesOfGate
<1>6. g[2] = i /\ g[3] = i
  BY <1>1, <1>3, <1>5 DEF IsNot
<1>7. g[0] = g[1] /\ g[0] \in 0..i - 1
  <2>1. g[2 * 1] - i = 0
    BY <1>1, <1>6
  <2>2. IsNot(g, 0)
    BY <1>3, <2>1
  <2> QED
    BY <1>1, <1>5, <2>2 DEF IsNot
<1>8. net[1] = <<g[0], g[1]>> /\ net[2] = <<g[2], g[3]>>
  BY <1>2, <1>4
<1>9. net[1][1] = g[0] /\ net[1][2] = g[0] /\ net[2][1] = i /\ net[2][2] = i
  BY <1>6, <1>7, <1>8
<1> PICK b : b = g[0]
  OBVIOUS
<1> HIDE DEF net, i
<1>10. b \in 0..i - 1 /\ b < i /\ b \in 0..i + Len(net) - 1
  BY <1>1, <1>2, <1>7
<1>11. /\ i \in 0..i + Len(net) - 1 /\ i >= i /\ i - i + 1 = 1
       /\ i + 1 \in 0..i + Len(net) - 1 /\ i + 1 >= i /\ (i + 1) - i + 1 = 2
  <2>1. Len(net) \in Nat /\ Len(net) > 1
    BY <1>1, <1>2, <1>3
  <2> QED
    BY <1>1, <2>1
<1> HIDE DEF on
<1>12. FollowsWiring(on, net, i)
  BY <1>1, <1>2, TruthTables DEF on
<1>13. on[b] \subseteq Rows(i)
  BY <1>10, <1>12 DEF FollowsWiring
<1>14. on[i] = Rows(i) \ (on[b] \cap on[b]) /\ on[i + 1] = Rows(i) \ (on[i] \cap on[i])
  <2>1. on[i] = Rows(i) \ (on[net[1][1]] \cap on[net[1][2]])
    BY <1>11, <1>12 DEF FollowsWiring
  <2>2. on[i + 1] = Rows(i) \ (on[net[2][1]] \cap on[net[2][2]])
    BY <1>11, <1>12 DEF FollowsWiring
  <2> QED
    BY <1>9, <2>1, <2>2
<1>15. on[i + 1] = on[b]
  BY <1>13, <1>14
<1>16. 1 \in CopyGates(net, i)
  <2>1. 1 \in 0..Len(net) - 1
    BY <1>1, <1>2, <1>3
  <2> QED
    BY <1>10, <1>15, <2>1 DEF CopyGates, on
<1>17. BadGates(net, i) # {}
  BY <1>16 DEF BadGates
<1> QED
  BY <1>17 DEF net, i

\* Whatever passes the tests of the odometer and of Catalogue() is useful.
LEMMA StoredIsUseful ==
  ASSUME round \in 1..Len(Work) + 1, NEW g, NEW p, HereAt("catalogue", g, p),
         BadGates(Network(g), num_inputs) = {}
  PROVE  WorthRecord(Network(g), round) /\ Network(g) \in Seq(Nat \X Nat)
<1> DEFINE net == Network(g)
           i == num_inputs
<1>1. /\ round <= Len(Work) /\ Wired(g) /\ ~HasDuplicates(g) /\ NotNots(g) \subseteq {1}
      /\ Unused(g) = {}
  BY DEF HereAt
<1>2. /\ i \in Nat \ {0} /\ num_gates \in Nat \ {0}
      /\ i = Work[round][1] /\ num_gates = Work[round][2]
  BY <1>1, RoundType DEF num_inputs, num_gates
<1>3. /\ net \in Seq(Nat \X Nat) /\ Len(net) = num_gates
      /\ \A m \in 0..num_gates - 1 : net[m + 1] = <<g[2 * m], g[2 * m + 1]>>
      /\ Ordered(net, i)
  BY <1>1, NetworkOfWiring
<1>4. NotNots(g) = {}
  BY <1>1, DoubleNegationIsBad
<1>5. \A m \in 0..num_gates - 1 : net[m + 1][1] = g[2 * m] /\ net[m + 1][2] = g[2 * m + 1]
  BY <1>3
<1>6. \A n \in 1..num_gates : n - 1 \in 0..num_gates - 1 /\ (n - 1) + 1 = n
  BY <1>2
<1>7. \A n \in 1..num_gates :
        net[n][1] = g[2 * (n - 1)] /\ net[n][2] = g[2 * (n - 1) + 1]
  <2> TAKE n \in 1..num_gates
  <2>1. net[(n - 1) + 1][1] = g[2 * (n - 1)] /\ net[(n - 1) + 1][2] = g[2 * (n - 1) + 1]
    BY <1>5, <1>6
  <2> QED
    BY <1>6, <2>1
<1> HIDE DEF net
<1>8. \A s \in 0..i - 1 : \E n \in 1..Len(net) : s \in {net[n][1], net[n][2]}
  <2> TAKE s \in 0..i - 1
  <2>1. PICK q \in 0..Last : g[q] = s
    BY <1>1 DEF Unused, Inputs
  <2>2. /\ q \div 2 \in 0..num_gates - 1
        /\ q = 2 * (q \div 2) \/ q = 2 * (q \div 2) + 1
    BY <1>1, GateOfPlace
  <2> PICK k : k = q \div 2
    OBVIOUS
  <2>3. k + 1 \in 1..Len(net)
    <3>1. Len(net) = num_gates /\ k \in 0..num_gates - 1
      BY <1>3, <2>2
    <3> QED
      BY <1>2, <3>1
  <2>4. s = net[k + 1][1] \/ s = net[k + 1][2]
    BY <1>5, <2>1, <2>2
  <2> QED
    BY <2>3, <2>4
<1>9. \A m, n \in 1..Len(net) : net[m] = net[n] => m = n
  <2>1. ASSUME NEW m \in 1..num_gates, NEW n \in 1..num_gates, m < n
        PROVE  net[m] # net[n]
    <3>1. m - 1 \in 0..num_gates - 1 /\ n - 1 \in 0..num_gates - 1 /\ m - 1 < n - 1
      BY <1>6, <2>1
    <3>2. Pair(g, m - 1) # Pair(g, n - 1)
      BY <1>1, <3>1 DEF HasDuplicates
    <3> QED
      BY <1>7, <3>2 DEF Pair
  <2> QED
    BY <1>2, <1>3, <2>1
<1>10. \A m, n \in 1..Len(net) :
         net[n] = <<i + m - 1, i + m - 1>> => net[m][1] # net[m][2]
  <2> SUFFICES ASSUME NEW m \in 1..num_gates, NEW n \in 1..num_gates,
                      net[n] = <<i + m - 1, i + m - 1>>, net[m][1] = net[m][2]
               PROVE  FALSE
    BY <1>3
  <2>1. net[n][1] = i + m - 1 /\ net[n][2] = i + m - 1
    OBVIOUS
  <2>2. g[2 * (n - 1)] = i + m - 1 /\ IsNot(g, n - 1)
    BY <1>7, <2>1 DEF IsNot
  <2>3. g[2 * (n - 1)] \in 0..i + (n - 1) - 1
    BY <1>1, <1>6, PlacesOfGate
  <2>4. n - 1 \in 1..num_gates - 1 /\ g[2 * (n - 1)] >= i /\ g[2 * (n - 1)] - i = m - 1
    <3> PICK x : x = g[2 * (n - 1)]
      OBVIOUS
    <3>1. x = i + m - 1 /\ x \in 0..i + (n - 1) - 1
      BY <2>2, <2>3
    <3>2. i \in Nat /\ num_gates \in Nat /\ m \in 1..num_gates /\ n \in 1..num_gates
      BY <1>2
    <3> HIDE DEF i
    <3>3. x >= i /\ x - i = m - 1 /\ n # 1
      BY <3>1, <3>2
    <3>4. n - 1 \in 1..num_gates - 1
      BY <3>2, <3>3
    <3> QED
      BY <3>3, <3>4
  <2>5. IsNot(g, m - 1)
    BY <1>7 DEF IsNot
  <2>6. n - 1 \in NotNots(g)
    BY <2>2, <2>4, <2>5 DEF NotNots
  <2> QED
    BY <1>4, <2>6
<1>11. \A n \in 0..Len(net) - 1 :
         Truth(net, i)[i + n] \notin {{}, Rows(i)} \cup {Truth(net, i)[s] : s \in 0..i - 1}
  <2>1. ConstantGates(net, i) = {} /\ CopyGates(net, i) = {}
    BY DEF BadGates, net
  <2> QED
    BY <2>1 DEF ConstantGates, CopyGates
<1>12. IsUseful(net, i)
  BY <1>8, <1>9, <1>10, <1>11 DEF IsUseful
<1> HIDE DEF i
<1>13. WorthRecord(net, round)
  BY <1>2, <1>3, <1>12 DEF WorthRecord
<1> QED
  BY <1>3, <1>13 DEF net
-----------------------------------------------------------------------------
\* The files.

\* Every record of the file of some thread is useful.
LEMMA FileType ==
  ASSUME TypeInv, RecordsUseful, NEW w \in 1..Len(Work), NEW t \in Threads
  PROVE  /\ files[w][t] \in Seq(Seq(Nat \X Nat)) /\ Len(files[w][t]) \in Nat
         /\ \A r \in 1..Len(files[w][t]) : WorthRecord(files[w][t][r], w)
<1>1. files[w][t] \in Seq(Seq(Nat \X Nat))
  BY DEF TypeInv
<1>2. Len(files[w][t]) \in Nat
  BY <1>1
<1> QED
  BY <1>1, <1>2 DEF RecordsUseful

\* A new record is useful too.
LEMMA RecordKeepsFiles ==
  ASSUME TypeInv, JobInv, RecordsUseful, NEW t \in Threads, Record(t)
  PROVE  /\ files' \in [1..Len(Work) -> [Threads -> Seq(Seq(Nat \X Nat))]]
         /\ RecordsUseful'
<1> DEFINE net == Network(gate_inputs[t])
           old == IF t \in handles THEN files[round][t] ELSE << >>
<1>1. /\ pc[t] = "catalogue"
      /\ BadGates(net, num_inputs) = {}
      /\ files' = [files EXCEPT ![round][t] = Append(old, net)]
  BY DEF Record
<1>2. /\ round \in 1..Len(Work) + 1 /\ round <= Len(Work)
      /\ HereAt("catalogue", gate_inputs[t], pos[t])
  BY <1>1, AtWork
<1>3. round \in 1..Len(Work)
  BY <1>2, RoundType
<1>4. WorthRecord(net, round) /\ net \in Seq(Nat \X Nat)
  BY <1>1, <1>2, StoredIsUseful
<1>5. /\ old \in Seq(Seq(Nat \X Nat)) /\ Len(old) \in Nat
      /\ \A r \in 1..Len(old) : WorthRecord(old[r], round)
  <2>1. CASE t \in handles
    BY <1>3, <2>1, FileType
  <2>2. CASE t \notin handles
    <3>1. old = << >>
      BY <2>2
    <3> HIDE DEF old
    <3> QED
      BY <3>1
  <2> QED
    BY <2>1, <2>2
<1> HIDE DEF net, old
<1> PICK new : new = Append(old, net)
  OBVIOUS
<1>6. new \in Seq(Seq(Nat \X Nat)) /\ Len(new) = Len(old) + 1
  BY <1>4, <1>5
<1>7. \A r \in 1..Len(new) : WorthRecord(new[r], round)
  <2> TAKE r \in 1..Len(new)
  <2>1. CASE r = Len(old) + 1
    <3>1. new[r] = net
      BY <1>4, <1>5, <2>1
    <3> QED
      BY <1>4, <3>1
  <2>2. CASE r # Len(old) + 1
    <3>1. r \in 1..Len(old)
      BY <1>5, <1>6, <2>2
    <3>2. new[r] = old[r]
      BY <1>4, <1>5, <3>1
    <3> QED
      BY <1>5, <3>1, <3>2
  <2> QED
    BY <2>1, <2>2
<1>8. /\ files \in [1..Len(Work) -> [Threads -> Seq(Seq(Nat \X Nat))]]
      /\ files' = [files EXCEPT ![round][t] = new]
  BY <1>1 DEF TypeInv
<1>9. files' \in [1..Len(Work) -> [Threads -> Seq(Seq(Nat \X Nat))]]
  BY <1>3, <1>6, <1>8
<1>10. \A w \in 1..Len(Work), u \in Threads :
         files'[w][u] = IF w = round /\ u = t THEN new ELSE files[w][u]
  BY <1>3, <1>8
<1>11. \A w \in 1..Len(Work), u \in Threads :
         \A r \in 1..Len(files'[w][u]) : WorthRecord(files'[w][u][r], w)
  <2> TAKE w \in 1..Len(Work), u \in Threads
  <2>1. CASE w = round /\ u = t
    BY <1>7, <1>10, <2>1
  <2>2. CASE ~ (w = round /\ u = t)
    <3>1. files'[w][u] = files[w][u]
      BY <1>10, <2>2
    <3> QED
      BY <3>1, FileType
  <2> QED
    BY <2>1, <2>2
<1> QED
  BY <1>9, <1>11 DEF RecordsUseful

\* The records that a kill leaves in a file were in it.
LEMMA KeptIsUseful ==
  ASSUME TypeInv, RecordsUseful, round \in 1..Len(Work), NEW t \in Threads, NEW file \in Kept(t)
  PROVE  /\ file \in Seq(Seq(Nat \X Nat))
         /\ \A r \in 1..Len(file) : WorthRecord(file[r], round)
<1> PICK f : f = files[round][t]
  OBVIOUS
<1>1. /\ f \in Seq(Seq(Nat \X Nat)) /\ Len(f) \in Nat
      /\ \A r \in 1..Len(f) : WorthRecord(f[r], round)
  BY FileType
<1>2. file = f \/ \E n \in 0..Len(f) : file = SubSeq(f, 1, n)
  BY DEF Kept
<1>3. CASE file = f
  BY <1>1, <1>3
<1>4. CASE \E n \in 0..Len(f) : file = SubSeq(f, 1, n)
  <2> PICK n \in 0..Len(f) : file = SubSeq(f, 1, n)
    BY <1>4
  <2>1. /\ file \in Seq(Seq(Nat \X Nat)) /\ Len(file) = n
        /\ \A r \in 1..n : r \in 1..Len(f) /\ file[r] = f[r]
    BY <1>1
  <2> QED
    BY <1>1, <2>1
<1> QED
  BY <1>2, <1>3, <1>4

\* A new run starts over, with the files of the last.
LEMMA RestartKeeps ==
  ASSUME TypeInv, JobInv, RecordsUseful, Restart
  PROVE  IInv'
<1>1. round \in 1..Len(Work)
  BY RoundType DEF TypeInv, Restart, Working
<1>2. /\ restarts' = restarts + 1 /\ restarts < MaxRestarts
      /\ round' = 1 /\ jobs' = Jobs(1)
      /\ pc' = [t \in Threads |-> "idle"]
      /\ gate_inputs' = [t \in Threads |-> << >>]
      /\ pos' = [t \in Threads |-> 0]
      /\ handles' = {} /\ aborted' = aborted
  BY DEF Restart
<1>3. PICK kept \in [Threads -> UNION {Kept(t) : t \in Threads}] :
        /\ \A t \in Threads : kept[t] \in Kept(t)
        /\ files' = [files EXCEPT ![round] = kept]
  BY DEF Restart
<1>4. \A t \in Threads :
        /\ kept[t] \in Seq(Seq(Nat \X Nat))
        /\ \A r \in 1..Len(kept[t]) : WorthRecord(kept[t][r], round)
  BY <1>1, <1>3, KeptIsUseful
<1>5. kept \in [Threads -> Seq(Seq(Nat \X Nat))]
  BY <1>4
<1>6. files \in [1..Len(Work) -> [Threads -> Seq(Seq(Nat \X Nat))]]
  BY DEF TypeInv
<1>7. files' \in [1..Len(Work) -> [Threads -> Seq(Seq(Nat \X Nat))]]
  BY <1>1, <1>3, <1>5, <1>6
<1>8. \A w \in 1..Len(Work) : files'[w] = IF w = round THEN kept ELSE files[w]
  BY <1>1, <1>3, <1>6
<1>9. \A w \in 1..Len(Work), u \in Threads :
        \A r \in 1..Len(files'[w][u]) : WorthRecord(files'[w][u][r], w)
  <2> TAKE w \in 1..Len(Work), u \in Threads
  <2>1. CASE w = round
    BY <1>4, <1>8, <2>1
  <2>2. CASE w # round
    <3>1. files'[w][u] = files[w][u]
      BY <1>8, <2>2
    <3> QED
      BY <3>1, FileType
  <2> QED
    BY <2>1, <2>2
<1>10. RecordsUseful'
  BY <1>9 DEF RecordsUseful
<1>11. JobInv'
  BY <1>2 DEF JobInv
<1>12. TypeInv'
  <2>1. restarts' \in 0..MaxRestarts
    BY <1>2, WorkAssumption DEF TypeInv
  <2>2. round' \in 1..Len(Work) + 1 /\ jobs' \subseteq Jobs(round')
    BY <1>1, <1>2
  <2>3. /\ pc' \in [Threads -> Labels]
        /\ DOMAIN gate_inputs' = Threads /\ DOMAIN pos' = Threads
    BY <1>2 DEF Labels
  <2>4. handles' \subseteq Threads /\ aborted' \in BOOLEAN
    BY <1>2 DEF TypeInv
  <2> QED
    BY <1>7, <2>1, <2>2, <2>3, <2>4 DEF TypeInv
<1> QED
  BY <1>10, <1>11, <1>12 DEF IInv

\* The next round starts.
LEMMA EndWorkKeeps ==
  ASSUME TypeInv, JobInv, RecordsUseful, EndWork
  PROVE  IInv'
<1>1. round \in 1..Len(Work) /\ Len(Work) \in Nat
  BY RoundType, WorkAssumption DEF TypeInv, EndWork, Working
<1>2. /\ \A t \in Threads : pc[t] = "idle"
      /\ round' = round + 1 /\ jobs' = Jobs(round + 1) /\ handles' = {}
      /\ UNCHANGED <<pc, gate_inputs, pos, files, aborted, restarts>>
  BY DEF EndWork, jobVars
<1>3. JobInv'
  BY <1>2 DEF JobInv
<1>4. RecordsUseful'
  BY <1>2 DEF RecordsUseful
<1>5. TypeInv'
  <2>1. round' \in 1..Len(Work) + 1 /\ jobs' \subseteq Jobs(round')
    BY <1>1, <1>2
  <2> QED
    BY <1>2, <2>1 DEF TypeInv
<1> QED
  BY <1>3, <1>4, <1>5 DEF IInv
-----------------------------------------------------------------------------
\* The invariant.

\* The first round.
LEMMA InitIInv == Init => IInv
<1> SUFFICES ASSUME Init
             PROVE  IInv
  OBVIOUS
<1>1. Len(Work) \in Nat /\ MaxRestarts \in Nat
  BY WorkAssumption
<1>2. TypeInv
  <2>1. /\ round \in 1..Len(Work) + 1 /\ jobs \subseteq Jobs(round)
        /\ restarts \in 0..MaxRestarts
    BY <1>1 DEF Init
  <2>2. << >> \in Seq(Seq(Nat \X Nat))
    OBVIOUS
  <2>3. files \in [1..Len(Work) -> [Threads -> Seq(Seq(Nat \X Nat))]]
    BY <2>2 DEF Init
  <2> QED
    BY <2>1, <2>3 DEF Init, TypeInv, Labels
<1>3. JobInv
  BY DEF Init, JobInv
<1>4. RecordsUseful
  <2> SUFFICES ASSUME NEW w \in 1..Len(Work), NEW t \in Threads
               PROVE  \A r \in 1..Len(files[w][t]) : WorthRecord(files[w][t][r], w)
    BY DEF RecordsUseful
  <2>1. files[w][t] = << >>
    BY DEF Init
  <2>2. 1..Len(files[w][t]) = {}
    BY <2>1
  <2> QED
    BY <2>2
<1> QED
  BY <1>2, <1>3, <1>4 DEF IInv

\* Every step of a thread.
LEMMA WorkerKeeps ==
  ASSUME TypeInv, JobInv, RecordsUseful, NEW t \in Threads, Worker(t)
  PROVE  IInv'
<1>1. /\ round' = round /\ restarts' = restarts
      /\ jobs' \subseteq jobs /\ aborted' \in BOOLEAN /\ handles' \subseteq Threads
  BY DEF Worker, TakeJob, FixUnused, CheckOrder, SkipBadGate, Record, Abort, JobDone, Increment,
         Wrap, TypeInv, fileVars
<1>2. /\ JobInv' /\ pc' \in [Threads -> Labels]
      /\ DOMAIN gate_inputs' = Threads /\ DOMAIN pos' = Threads
  <2>1. CASE Abort(t)
    <3>1. UNCHANGED <<round, pc, gate_inputs, pos>>
      BY <2>1 DEF Abort, jobVars
    <3>2. JobInv'
      <4> SUFFICES ASSUME NEW u \in Threads, pc[u] # "idle"
                   PROVE  HereAt(pc[u], gate_inputs[u], pos[u])'
        BY <3>1 DEF JobInv
      <4> PICK l, h, q : l = pc[u] /\ h = gate_inputs[u] /\ q = pos[u]
        OBVIOUS
      <4>1. HereAt(l, h, q)
        BY DEF JobInv
      <4>2. HereAt(l, h, q)'
        BY <3>1, <4>1, HereKept
      <4> QED
        BY <3>1, <4>2
    <3> QED
      BY <3>1, <3>2 DEF TypeInv
  <2> QED
    BY <2>1, TakeJobMoves, FixUnusedMoves, CheckOrderMoves, SkipBadGateMoves, RecordMoves,
       JobDoneMoves, IncrementMoves, WrapMoves DEF Worker
<1>3. /\ files' \in [1..Len(Work) -> [Threads -> Seq(Seq(Nat \X Nat))]]
      /\ RecordsUseful'
  <2>1. CASE Record(t)
    BY <2>1, RecordKeepsFiles
  <2>2. CASE files' = files
    BY <2>2 DEF TypeInv, RecordsUseful
  <2>3. Record(t) \/ files' = files
    BY DEF Worker, TakeJob, FixUnused, CheckOrder, SkipBadGate, Abort, JobDone, Increment,
           Wrap, fileVars
  <2> QED
    BY <2>1, <2>2, <2>3
<1>4. TypeInv'
  <2>1. jobs' \subseteq Jobs(round')
    BY <1>1 DEF TypeInv
  <2> QED
    BY <1>1, <1>2, <1>3, <2>1 DEF TypeInv
<1> QED
  BY <1>2, <1>3, <1>4 DEF IInv

\* A step of nobody.
LEMMA StutterKeeps ==
  ASSUME TypeInv, JobInv, RecordsUseful, UNCHANGED vars
  PROVE  IInv'
<1>1. UNCHANGED <<round, jobs, pc, gate_inputs, pos, handles, files, aborted, restarts>>
  BY DEF vars, jobVars, fileVars
<1>2. JobInv'
  <2> SUFFICES ASSUME NEW u \in Threads, pc[u] # "idle"
               PROVE  HereAt(pc[u], gate_inputs[u], pos[u])'
    BY <1>1 DEF JobInv
  <2> PICK l, h, q : l = pc[u] /\ h = gate_inputs[u] /\ q = pos[u]
    OBVIOUS
  <2>1. HereAt(l, h, q)
    BY DEF JobInv
  <2>2. HereAt(l, h, q)'
    BY <1>1, <2>1, HereKept
  <2> QED
    BY <1>1, <2>2
<1> QED
  BY <1>1, <1>2 DEF TypeInv, RecordsUseful, IInv

\* IInv is inductive.
LEMMA Invariance == Spec => []IInv
<1>1. IInv /\ [Next]_vars => IInv'
  <2> SUFFICES ASSUME TypeInv, JobInv, RecordsUseful, [Next]_vars
               PROVE  IInv'
    BY DEF IInv
  <2> QED
    BY WorkerKeeps, EndWorkKeeps, RestartKeeps, StutterKeeps DEF Next, Finished
<1> QED
  BY InitIInv, <1>1, PTL DEF Spec
-----------------------------------------------------------------------------
\* One network of each class.

\* None of the first k gates could be exchanged for one that sorts before it.
Settled(w, i, k) ==
  \A m, c \in 1..Len(w) :
    m <= k /\ m < c /\ w[c][1] < i + m - 1 /\ w[c][2] < i + m - 1 => ~Less(w[c], w[m])

\* Gate c becomes gate k; those in between make room.
Moved(n, k, c) == [a \in 1..n |-> IF a = c THEN k ELSE IF a >= k /\ a < c THEN a + 1 ELSE a]

\* That gives the gates different numbers.
LEMMA MovedNumbers ==
  ASSUME NEW n \in Nat, NEW k \in 1..n, NEW c \in 1..n, k <= c
  PROVE  /\ Moved(n, k, c) \in Renumberings(n)
         /\ \A a \in 1..n : /\ a = c => Moved(n, k, c)[a] = k
                            /\ a >= k /\ a < c => Moved(n, k, c)[a] = a + 1
                            /\ a < k \/ a > c => Moved(n, k, c)[a] = a
<1> DEFINE p == Moved(n, k, c)
<1>1. \A a \in 1..n : p[a] = IF a = c THEN k ELSE IF a >= k /\ a < c THEN a + 1 ELSE a
  BY DEF Moved
<1>2. p = [a \in 1..n |-> p[a]]
  BY DEF Moved
<1> HIDE DEF p
<1>3. \A a \in 1..n : /\ a = c => p[a] = k
                      /\ a >= k /\ a < c => p[a] = a + 1
                      /\ a < k \/ a > c => p[a] = a
                      /\ p[a] \in 1..n
  <2> TAKE a \in 1..n
  <2>1. CASE a = c
    BY <1>1, <2>1
  <2>2. CASE a >= k /\ a < c
    BY <1>1, <2>2
  <2>3. CASE a < k \/ a > c
    BY <1>1, <2>3
  <2> QED
    BY <2>1, <2>2, <2>3
<1>4. ASSUME NEW a \in 1..n, NEW b \in 1..n, p[a] = p[b]
      PROVE  a = b
  <2>1. /\ a = c => p[a] = k
        /\ a >= k /\ a < c => p[a] = a + 1
        /\ a < k \/ a > c => p[a] = a
    BY <1>3
  <2>2. /\ b = c => p[b] = k
        /\ b >= k /\ b < c => p[b] = b + 1
        /\ b < k \/ b > c => p[b] = b
    BY <1>3
  <2> QED
    BY <1>4, <2>1, <2>2
<1>5. p \in Renumberings(n)
  <2>1. p \in [1..n -> 1..n]
    BY <1>2, <1>3
  <2> QED
    BY <1>4, <2>1 DEF Renumberings
<1> QED
  BY <1>3, <1>5 DEF p

\* A source that comes before gate k keeps its number, and no other gets there.
LEMMA EarlySources ==
  ASSUME NEW i \in Nat, NEW n \in Nat, NEW k \in 1..n, NEW c \in 1..n, k <= c,
         NEW s \in 0..i + n - 1
  PROVE  /\ s < i + k - 1 => Renamed(Moved(n, k, c), i, s) = s
         /\ Renamed(Moved(n, k, c), i, s) < i + k - 1 => s < i + k - 1
         /\ s <= i + c - 2 => Renamed(Moved(n, k, c), i, s) <= s + 1
         /\ s > i + c - 2 => Renamed(Moved(n, k, c), i, s) <= s
<1> PICK p : p = Moved(n, k, c)
  OBVIOUS
<1>1. CASE s < i
  <2>1. Renamed(p, i, s) = s
    BY <1>1 DEF Renamed
  <2> QED
    BY <1>1, <2>1
<1>2. CASE s >= i
  <2> PICK a : a = s - i + 1
    OBVIOUS
  <2>1. a \in 1..n /\ s = i + a - 1
    BY <1>2
  <2>2. Renamed(p, i, s) = i + p[a] - 1
    BY <1>2 DEF Renamed
  <2>3. /\ a = c => p[a] = k
        /\ a >= k /\ a < c => p[a] = a + 1
        /\ a < k \/ a > c => p[a] = a
    BY <2>1, MovedNumbers
  <2>4. CASE a = c
    <3>1. Renamed(p, i, s) = i + k - 1
      BY <2>2, <2>3, <2>4
    <3> QED
      BY <2>1, <2>4, <3>1
  <2>5. CASE a >= k /\ a < c
    <3>1. Renamed(p, i, s) = i + (a + 1) - 1
      BY <2>2, <2>3, <2>5
    <3> QED
      BY <2>1, <2>5, <3>1
  <2>6. CASE a < k \/ a > c
    <3>1. Renamed(p, i, s) = i + a - 1
      BY <2>2, <2>3, <2>6
    <3> QED
      BY <2>1, <2>6, <3>1
  <2> QED
    BY <2>1, <2>4, <2>5, <2>6
<1> QED
  BY <1>1, <1>2

\* The sources of a gate that come before gate k.
Early(w, i, k, a) == w[a][1] < i + k - 1 /\ w[a][2] < i + k - 1

\* A gate that depends on none of those from k on may become gate k.
LEMMA GateMoved ==
  ASSUME NEW i \in Nat, NEW n \in Nat, NEW w, IsNetwork(w, i, n),
         NEW k \in 1..n, NEW c \in 1..n, k <= c, Early(w, i, k, c)
  PROVE  \E z : /\ IsNetwork(z, i, n)
                /\ Renumbers(Moved(n, k, c), w, z, i)
                /\ \A a \in 1..n : Early(w, i, k, a) => z[Moved(n, k, c)[a]] = w[a]
                /\ \A a \in 1..n : Early(z, i, k, Moved(n, k, c)[a]) => Early(w, i, k, a)
<1> PICK p : p = Moved(n, k, c)
  OBVIOUS
<1>1. /\ p \in Renumberings(n)
      /\ \A a \in 1..n : /\ a = c => p[a] = k
                         /\ a >= k /\ a < c => p[a] = a + 1
                         /\ a < k \/ a > c => p[a] = a
  BY MovedNumbers
<1> PICK z : z = Renumber(w, i, p)
  OBVIOUS
<1>2. z \in Seq(Nat \X Nat) /\ Len(z) = n /\ Renumbers(p, w, z, i)
  BY <1>1, RenumberRenumbers
<1>3. \A a \in 1..n : /\ w[a] = <<w[a][1], w[a][2]>> /\ w[a][1] <= w[a][2]
                      /\ w[a][1] \in 0..i + a - 2 /\ w[a][2] \in 0..i + a - 2
                      /\ w[a][1] \in 0..i + n - 1 /\ w[a][2] \in 0..i + n - 1
  BY SourcesOf
<1> DEFINE u(a) == Renamed(p, i, w[a][1])
           v(a) == Renamed(p, i, w[a][2])
<1>4. \A s \in 0..i + n - 1 : /\ s < i + k - 1 => Renamed(p, i, s) = s
                              /\ Renamed(p, i, s) < i + k - 1 => s < i + k - 1
                              /\ s <= i + c - 2 => Renamed(p, i, s) <= s + 1
                              /\ s > i + c - 2 => Renamed(p, i, s) <= s
  BY EarlySources
<1>5. \A a \in 1..n : u(a) \in Nat /\ v(a) \in Nat
  <2> TAKE a \in 1..n
  <2>1. u(a) \in 0..i + n - 1 /\ v(a) \in 0..i + n - 1
    BY <1>1, <1>3, RenamedType
  <2> HIDE DEF u, v
  <2> QED
    BY <2>1
<1>6. \A a \in 1..n : z[p[a]] = SortedPair(u(a), v(a))
  <2>1. Len(w) = n
    BY DEF IsNetwork
  <2> QED
    BY <1>2, <2>1 DEF Renumbers
<1>7. \A a \in 1..n : /\ {z[p[a]][1], z[p[a]][2]} = {u(a), v(a)}
                      /\ z[p[a]][1] <= z[p[a]][2]
  <2> HIDE DEF u, v
  <2> TAKE a \in 1..n
  <2>1. u(a) \in Nat /\ v(a) \in Nat /\ z[p[a]] = SortedPair(u(a), v(a))
    BY <1>5, <1>6
  <2>2. /\ SortedPair(u(a), v(a))[1] <= SortedPair(u(a), v(a))[2]
        /\ {SortedPair(u(a), v(a))[1], SortedPair(u(a), v(a))[2]} = {u(a), v(a)}
    BY <2>1, PairInOrder
  <2> QED
    BY <2>1, <2>2
<1>8. \A b \in 1..n : \E a \in 1..n : p[a] = b
  BY <1>1, IsOnto
<1>9. \A a \in 1..n : u(a) <= i + p[a] - 2 /\ v(a) <= i + p[a] - 2
  <2> TAKE a \in 1..n
  <2>1. p[a] \in 1..n
    BY <1>1, Numbers
  <2>2. /\ u(a) \in Nat /\ v(a) \in Nat
        /\ w[a][1] \in 0..i + a - 2 /\ w[a][2] \in 0..i + a - 2
        /\ w[a][1] \in 0..i + n - 1 /\ w[a][2] \in 0..i + n - 1
    BY <1>3, <1>5
  <2>3. /\ w[a][1] < i + k - 1 => u(a) = w[a][1]
        /\ w[a][1] <= i + c - 2 => u(a) <= w[a][1] + 1
        /\ w[a][1] > i + c - 2 => u(a) <= w[a][1]
    BY <1>4, <2>2
  <2>4. /\ w[a][2] < i + k - 1 => v(a) = w[a][2]
        /\ w[a][2] <= i + c - 2 => v(a) <= w[a][2] + 1
        /\ w[a][2] > i + c - 2 => v(a) <= w[a][2]
    BY <1>4, <2>2
  <2> HIDE DEF u, v
  <2>5. CASE a = c
    <3>1. p[a] = k /\ w[a][1] < i + k - 1 /\ w[a][2] < i + k - 1
      BY <1>1, <2>5 DEF Early
    <3> QED
      BY <2>1, <2>2, <2>3, <2>4, <3>1
  <2>6. CASE a >= k /\ a < c
    <3>1. p[a] = a + 1
      BY <1>1, <2>6
    <3> QED
      BY <2>2, <2>3, <2>4, <2>6, <3>1
  <2>7. CASE a < k
    <3>1. p[a] = a
      BY <1>1, <2>7
    <3> QED
      BY <2>2, <2>3, <2>4, <2>7, <3>1
  <2>8. CASE a > c
    <3>1. p[a] = a
      BY <1>1, <2>8
    <3> QED
      BY <2>2, <2>3, <2>4, <2>8, <3>1
  <2> QED
    BY <2>5, <2>6, <2>7, <2>8
<1>10. \A b \in 1..n : /\ z[b][1] <= z[b][2]
                       /\ z[b][1] \in 0..i + b - 2 /\ z[b][2] \in 0..i + b - 2
  <2> TAKE b \in 1..n
  <2>1. PICK a \in 1..n : p[a] = b
    BY <1>8
  <2>2. u(a) \in 0..i + b - 2 /\ v(a) \in 0..i + b - 2
    <3>1. u(a) \in Nat /\ v(a) \in Nat /\ u(a) <= i + b - 2 /\ v(a) <= i + b - 2
      BY <1>5, <1>9, <2>1
    <3> HIDE DEF u, v
    <3> QED
      BY <3>1
  <2>3. {z[b][1], z[b][2]} = {u(a), v(a)} /\ z[b][1] <= z[b][2]
    BY <1>7, <2>1
  <2> HIDE DEF u, v
  <2> QED
    BY <2>2, <2>3
<1>11. IsNetwork(z, i, n)
  BY <1>2, <1>10 DEF IsNetwork, Ordered
<1>12. ASSUME NEW a \in 1..n, Early(w, i, k, a)
       PROVE  z[p[a]] = w[a]
  <2>1. u(a) = w[a][1] /\ v(a) = w[a][2]
    BY <1>3, <1>4, <1>12 DEF Early
  <2>2. SortedPair(w[a][1], w[a][2]) = <<w[a][1], w[a][2]>>
    BY <1>3 DEF SortedPair
  <2> HIDE DEF u, v
  <2> QED
    BY <1>3, <1>6, <2>1, <2>2
<1>13. ASSUME NEW a \in 1..n, Early(z, i, k, p[a])
       PROVE  Early(w, i, k, a)
  <2>1. {z[p[a]][1], z[p[a]][2]} = {u(a), v(a)}
    BY <1>7
  <2>2. u(a) < i + k - 1 /\ v(a) < i + k - 1
    <3> HIDE DEF u, v
    <3> QED
      BY <1>13, <2>1 DEF Early
  <2> QED
    BY <1>3, <1>4, <2>2 DEF Early
<1> QED
  BY <1>2, <1>11, <1>12, <1>13

\* Among some gates, one sorts after no other.
LEMMA LeastPair ==
  ASSUME NEW S, S # {}, NEW w, \A c \in S : w[c][1] \in Nat /\ w[c][2] \in Nat
  PROVE  \E c \in S : \A d \in S : ~Less(w[d], w[c])
<1>1. PICK x \in {w[c][1] : c \in S} : \A y \in {w[c][1] : c \in S} : x <= y
  <2>1. {w[c][1] : c \in S} \subseteq Nat /\ {w[c][1] : c \in S} # {}
    OBVIOUS
  <2> QED
    BY <2>1, LeastExists
<1>2. PICK e \in S : w[e][1] = x
  BY <1>1
<1> DEFINE T == {w[c][2] : c \in {d \in S : w[d][1] = x}}
<1>3. PICK y \in T : \A z \in T : y <= z
  <2>1. T \subseteq Nat
    OBVIOUS
  <2>2. w[e][2] \in T
    BY <1>2
  <2> HIDE DEF T
  <2> QED
    BY <2>1, <2>2, LeastExists
<1>4. PICK c \in S : w[c][1] = x /\ w[c][2] = y
  BY <1>3
<1>5. \A d \in S : ~Less(w[d], w[c])
  <2> SUFFICES ASSUME NEW d \in S, Less(w[d], w[c])
               PROVE  FALSE
    OBVIOUS
  <2>1. w[d][1] < x \/ (w[d][1] = x /\ w[d][2] < y)
    BY <1>4 DEF Less
  <2>2. x <= w[d][1] /\ x \in Nat /\ w[d][1] \in Nat
    BY <1>1
  <2>3. w[d][1] = x /\ w[d][2] < y
    BY <2>1, <2>2
  <2>4. w[d][2] \in T
    BY <2>3
  <2>5. y <= w[d][2] /\ y \in Nat /\ w[d][2] \in Nat
    BY <1>3, <2>4, <1>4
  <2> QED
    BY <2>3, <2>5
<1> QED
  BY <1>5

\* If the first gates are settled, the next one can be.
LEMMA SettlesNext ==
  ASSUME NEW i \in Nat, NEW n \in Nat, NEW w, IsNetwork(w, i, n),
         NEW k \in 1..n, Settled(w, i, k - 1)
  PROVE  \E z : /\ IsNetwork(z, i, n) /\ Settled(z, i, k)
               /\ \E p \in Renumberings(n) : Renumbers(p, w, z, i)
<1> DEFINE C == {c \in k..n : Early(w, i, k, c)}
<1>1. \A a \in 1..n : /\ w[a][1] \in 0..i + a - 2 /\ w[a][2] \in 0..i + a - 2
                      /\ w[a][1] \in Nat /\ w[a][2] \in Nat
  BY SourcesOf
<1>2. k \in C
  <2>1. w[k][1] \in 0..i + k - 2 /\ w[k][2] \in 0..i + k - 2
    BY <1>1
  <2> QED
    BY <2>1 DEF Early
<1>3. PICK c \in C : \A d \in C : ~Less(w[d], w[c])
  <2>1. \A d \in C : w[d][1] \in Nat /\ w[d][2] \in Nat
    BY <1>1
  <2> HIDE DEF C
  <2> QED
    BY <1>2, <2>1, LeastPair
<1>4. c \in 1..n /\ k <= c /\ Early(w, i, k, c)
  OBVIOUS
<1> PICK p : p = Moved(n, k, c)
  OBVIOUS
<1>5. PICK z : /\ IsNetwork(z, i, n)
               /\ Renumbers(p, w, z, i)
               /\ \A a \in 1..n : Early(w, i, k, a) => z[p[a]] = w[a]
               /\ \A a \in 1..n : Early(z, i, k, p[a]) => Early(w, i, k, a)
  BY <1>4, GateMoved
<1>6. /\ p \in Renumberings(n)
      /\ \A a \in 1..n : /\ a = c => p[a] = k
                         /\ a >= k /\ a < c => p[a] = a + 1
                         /\ a < k \/ a > c => p[a] = a
  BY <1>4, MovedNumbers
<1>7. Len(w) = n /\ Len(z) = n
  BY <1>5 DEF IsNetwork
<1>8. Settled(z, i, k)
  <2> SUFFICES ASSUME NEW m \in 1..n, NEW b \in 1..n, m <= k, m < b,
                      z[b][1] < i + m - 1, z[b][2] < i + m - 1, Less(z[b], z[m])
               PROVE  FALSE
    BY <1>7 DEF Settled
  <2>1. PICK a \in 1..n : p[a] = b
    BY <1>6, IsOnto
  <2>2. Early(z, i, k, b)
    <3>1. z[b][1] \in Nat /\ z[b][2] \in Nat
      BY <1>5, SourcesOf
    <3> QED
      BY <3>1 DEF Early
  <2>3. Early(w, i, k, a) /\ z[b] = w[a]
    BY <1>5, <2>1, <2>2
  <2>4. CASE m < k
    <3>1. p[m] = m
      BY <1>6, <2>4
    <3>2. Early(w, i, k, m)
      BY <1>1, <2>4 DEF Early
    <3>3. z[m] = w[m]
      BY <1>5, <3>1, <3>2
    <3>4. m < a
      <4>1. a < k => p[a] = a
        BY <1>6
      <4> QED
        BY <2>1, <2>4, <4>1
    <3>5. ~Less(w[a], w[m])
      <4>1. m <= k - 1 /\ w[a][1] < i + m - 1 /\ w[a][2] < i + m - 1
        BY <2>3, <2>4
      <4> QED
        BY <1>7, <3>4, <4>1 DEF Settled
    <3> QED
      BY <2>3, <3>3, <3>5
  <2>5. CASE m = k
    <3>1. p[c] = k /\ z[k] = w[c]
      BY <1>4, <1>5, <1>6
    <3>2. a >= k
      <4>1. a < k => p[a] = a
        BY <1>6
      <4> QED
        BY <2>1, <2>5, <4>1
    <3>3. a \in C
      BY <2>3, <3>2
    <3>4. ~Less(w[a], w[c])
      BY <1>3, <3>3
    <3> QED
      BY <2>3, <2>5, <3>1, <3>4
  <2> QED
    BY <2>4, <2>5
<1> QED
  BY <1>5, <1>6, <1>8

\* So the gates of every network can be numbered in such a way that no two of
\* them could be exchanged for a network that sorts before it.
LEMMA CanBeSettled ==
  ASSUME NEW i \in Nat, NEW n \in Nat, NEW w, IsNetwork(w, i, n)
  PROVE  \E z : /\ IsNetwork(z, i, n) /\ Settled(z, i, n)
               /\ \E p \in Renumberings(n) : Renumbers(p, w, z, i)
<1> DEFINE Possible(k) == \E z : /\ IsNetwork(z, i, n) /\ Settled(z, i, k)
                                 /\ \E p \in Renumberings(n) : Renumbers(p, w, z, i)
           K == {k \in 1..n + 1 : Possible(k - 1)}
<1>1. Possible(0)
  <2>1. [a \in 1..n |-> a] \in Renumberings(n) /\ Renumbers([a \in 1..n |-> a], w, w, i)
    BY KeepsNumbers
  <2>2. Settled(w, i, 0)
    BY DEF Settled
  <2> QED
    BY <2>1, <2>2
<1>2. ASSUME NEW k \in 1..n, Possible(k - 1)
      PROVE  Possible(k)
  <2>1. PICK y : /\ IsNetwork(y, i, n) /\ Settled(y, i, k - 1)
                 /\ \E p \in Renumberings(n) : Renumbers(p, w, y, i)
    BY <1>2
  <2>2. PICK z : /\ IsNetwork(z, i, n) /\ Settled(z, i, k)
                 /\ \E q \in Renumberings(n) : Renumbers(q, y, z, i)
    BY <2>1, SettlesNext
  <2>3. y \in Seq(Nat \X Nat) /\ Len(y) = n
    BY <2>1 DEF IsNetwork
  <2>4. \E r \in Renumberings(n) : Renumbers(r, w, z, i)
    BY <2>1, <2>2, <2>3, RenumbersTwice
  <2> QED
    BY <2>2, <2>4
<1> HIDE DEF Possible
<1>3. 1 \in K
  <2>1. 1 - 1 = 0 /\ 1 \in 1..n + 1
    OBVIOUS
  <2> QED
    BY <1>1, <2>1
<1>4. PICK k \in K : \A l \in K : l <= k
  <2>1. n + 1 \in Nat
    OBVIOUS
  <2>2. K \subseteq 1..n + 1
    OBVIOUS
  <2> HIDE DEF K
  <2>3. K # {}
    BY <1>3
  <2> QED
    BY <2>1, <2>2, <2>3, LastExists
<1>5. k = n + 1
  <2> SUFFICES ASSUME k # n + 1
               PROVE  FALSE
    OBVIOUS
  <2>1. k \in 1..n /\ Possible(k - 1)
    BY <1>4
  <2>2. Possible(k)
    BY <1>2, <2>1
  <2>3. k + 1 \in K
    BY <2>1, <2>2
  <2> QED
    BY <1>4, <2>1, <2>3
<1>6. Possible(n)
  BY <1>4, <1>5
<1> QED
  BY <1>6 DEF Possible

\* There is one such numbering only, if no two gates have the same sources.
LEMMA SettledOnce ==
  ASSUME NEW i \in Nat, NEW n \in Nat,
         NEW w, IsNetwork(w, i, n), Settled(w, i, n),
         \A a, b \in 1..n : w[a] = w[b] => a = b,
         NEW z, IsNetwork(z, i, n), Settled(z, i, n),
         NEW p \in Renumberings(n), Renumbers(p, w, z, i)
  PROVE  w = z
<1>1. /\ w \in Seq(Nat \X Nat) /\ Len(w) = n
      /\ z \in Seq(Nat \X Nat) /\ Len(z) = n
  BY DEF IsNetwork
<1>2. \A a \in 1..n : /\ w[a] = <<w[a][1], w[a][2]>> /\ w[a][1] <= w[a][2]
                      /\ w[a][1] \in 0..i + a - 2 /\ w[a][2] \in 0..i + a - 2
                      /\ w[a][1] \in 0..i + n - 1 /\ w[a][2] \in 0..i + n - 1
  BY SourcesOf
<1>3. \A a \in 1..n : /\ z[a] = <<z[a][1], z[a][2]>> /\ z[a][1] <= z[a][2]
                      /\ z[a][1] \in 0..i + a - 2 /\ z[a][2] \in 0..i + a - 2
  BY SourcesOf
<1>4. p \in [1..n -> 1..n] /\ \A a, b \in 1..n : p[a] = p[b] => a = b
  BY Numbers
<1>5. \A u, v \in Nat : {SortedPair(u, v)[1], SortedPair(u, v)[2]} = {u, v}
  BY PairInOrder
<1> DEFINE Bad == {k \in 1..n : p[k] # k}
\* Gates before the first one with another number keep their sources.
<1>6. ASSUME NEW k \in 1..n, \A a \in 1..n : a < k => p[a] = a, NEW a \in 1..n
      PROVE  /\ Early(w, i, k, a) => z[p[a]] = w[a]
             /\ Early(z, i, k, p[a]) => Early(w, i, k, a)
  <2>1. \A s \in 0..i + n - 1 : /\ s < i + k - 1 => Renamed(p, i, s) = s
                                /\ Renamed(p, i, s) < i + k - 1 => s < i + k - 1
    <3> TAKE s \in 0..i + n - 1
    <3>1. CASE s < i
      <4>1. Renamed(p, i, s) = s
        BY <3>1 DEF Renamed
      <4> QED
        BY <4>1
    <3>2. CASE s >= i
      <4> PICK b : b = s - i + 1
        OBVIOUS
      <4>1. b \in 1..n /\ s = i + b - 1 /\ p[b] \in 1..n
        BY <1>4, <3>2
      <4>2. Renamed(p, i, s) = i + p[b] - 1
        BY <3>2 DEF Renamed
      <4>3. b < k => p[b] = b
        BY <1>6, <4>1
      <4>4. p[b] < k => b = p[b]
        <5> SUFFICES ASSUME p[b] < k
                     PROVE  b = p[b]
          OBVIOUS
        <5>1. p[p[b]] = p[b]
          BY <1>6, <4>1
        <5> QED
          BY <1>4, <4>1, <5>1
      <4> QED
        BY <4>1, <4>2, <4>3, <4>4
    <3> QED
      BY <3>1, <3>2
  <2> PICK u, v : u = Renamed(p, i, w[a][1]) /\ v = Renamed(p, i, w[a][2])
    OBVIOUS
  <2>2. z[p[a]] = SortedPair(u, v)
    BY <1>1 DEF Renumbers
  <2>3. u \in Nat /\ v \in Nat
    <3>1. u \in 0..i + n - 1 /\ v \in 0..i + n - 1
      BY <1>2, RenamedType
    <3> QED
      BY <3>1
  <2>4. ASSUME Early(w, i, k, a)
        PROVE  z[p[a]] = w[a]
    <3>1. u = w[a][1] /\ v = w[a][2]
      BY <1>2, <2>1, <2>4 DEF Early
    <3> QED
      BY <1>2, <2>2, <3>1 DEF SortedPair
  <2>5. ASSUME Early(z, i, k, p[a])
        PROVE  Early(w, i, k, a)
    <3>1. {SortedPair(u, v)[1], SortedPair(u, v)[2]} = {u, v}
      BY <1>5, <2>3
    <3>2. u < i + k - 1 /\ v < i + k - 1
      BY <2>2, <2>5, <3>1 DEF Early
    <3> QED
      BY <1>2, <2>1, <3>2 DEF Early
  <2> QED
    BY <2>4, <2>5
<1>7. ASSUME Bad # {}
      PROVE  FALSE
  <2>1. Bad \subseteq Nat
    OBVIOUS
  <2>2. PICK k \in Bad : \A c \in Bad : k <= c
    BY <1>7, <2>1, LeastExists
  <2>3. k \in 1..n /\ p[k] # k
    BY <2>2
  <2>4. \A a \in 1..n : a < k => p[a] = a
    <3> SUFFICES ASSUME NEW a \in 1..n, a < k, p[a] # a
                 PROVE  FALSE
      OBVIOUS
    <3>1. a \in Bad
      OBVIOUS
    <3> QED
      BY <2>2, <2>3, <3>1
  <2> HIDE DEF Bad
  <2>5. PICK l \in 1..n : p[l] = k
    BY <2>3, IsOnto
  <2>6. l > k /\ p[k] \in 1..n /\ p[k] > k
    <3>1. l # k
      BY <2>3, <2>5
    <3>2. ~ (l < k)
      BY <2>4, <2>5, <3>1
    <3>3. p[k] \in 1..n
      BY <1>4, <2>3
    <3>4. ~ (p[k] < k)
      <4> SUFFICES ASSUME p[k] < k
                   PROVE  FALSE
        OBVIOUS
      <4>1. p[p[k]] = p[k]
        BY <2>4, <3>3
      <4> QED
        BY <1>4, <2>3, <3>3, <4>1
    <3> QED
      BY <2>3, <3>1, <3>2, <3>3, <3>4
  <2>7. Early(w, i, k, k) /\ Early(z, i, k, k)
    <3>1. /\ w[k][1] \in 0..i + k - 2 /\ w[k][2] \in 0..i + k - 2
          /\ z[k][1] \in 0..i + k - 2 /\ z[k][2] \in 0..i + k - 2
      BY <1>2, <1>3, <2>3
    <3> QED
      BY <2>3, <3>1 DEF Early
  <2>8. z[p[k]] = w[k]
    BY <1>6, <2>3, <2>4, <2>7
  <2>9. Early(w, i, k, l) /\ z[k] = w[l]
    BY <1>6, <2>3, <2>4, <2>5, <2>7
  <2>10. ~Less(w[l], w[k])
    BY <1>1, <2>3, <2>6, <2>9 DEF Settled, Early
  <2>11. ~Less(w[k], w[l])
    <3>1. z[p[k]][1] < i + k - 1 /\ z[p[k]][2] < i + k - 1
      BY <2>7, <2>8 DEF Early
    <3>2. \A b \in 1..n : k < b /\ Early(z, i, k, b) => ~Less(z[b], z[k])
      BY <1>1, <2>3 DEF Settled, Early
    <3>3. ~Less(z[p[k]], z[k])
      BY <2>6, <3>1, <3>2 DEF Early
    <3> QED
      BY <2>8, <2>9, <3>3
  <2>12. w[k] = w[l]
    <3>1. /\ w[k] = <<w[k][1], w[k][2]>> /\ w[k][1] \in Nat /\ w[k][2] \in Nat
          /\ w[l] = <<w[l][1], w[l][2]>> /\ w[l][1] \in Nat /\ w[l][2] \in Nat
      BY <1>2, <2>3
    <3>2. w[k][1] = w[l][1] /\ w[k][2] = w[l][2]
      BY <2>10, <2>11, <3>1 DEF Less
    <3> QED
      BY <3>1, <3>2
  <2> QED
    BY <2>3, <2>6, <2>12
<1>8. \A a \in 1..n : w[a] = z[a]
  <2> TAKE a \in 1..n
  <2>1. \A b \in 1..n : p[b] = b
    BY <1>7
  <2>2. Early(w, i, a, a)
    <3>1. w[a][1] \in 0..i + a - 2 /\ w[a][2] \in 0..i + a - 2
      BY <1>2
    <3> QED
      BY <3>1 DEF Early
  <2> HIDE DEF Bad
  <2>3. z[p[a]] = w[a]
    BY <1>6, <2>1, <2>2
  <2> QED
    BY <2>1, <2>3
<1> QED
  BY <1>1, <1>8
-----------------------------------------------------------------------------
\* The ledger: which wirings are still to come.

\* x comes after g in the order of the odometer, and differs from it at a place
\* up to p first.
Above(x, g, p) == \E q \in 0..p : x[q] > g[q] /\ \A r \in 0..q - 1 : x[r] = g[r]

\* The wiring x is still to come for a thread with wiring g that changes place p
\* next and is at the label.
Ahead(label, x, g, p) ==
  \/ label \in {"unused", "order", "catalogue"} /\ (x = g \/ Above(x, g, Last))
  \/ label = "inc" /\ Above(x, g, p)
  \/ label = "wraps" /\ Above(x, g, p - 1)

\* The job that a wiring belongs to.
JobOf(x) == <<Pair(x, 0), IF num_gates = 1 THEN <<0, 0>> ELSE Pair(x, 1)>>

\* The wirings that are to be stored.
Good(x) ==
  /\ Wired(x)
  /\ JobOf(x) \in Jobs(round)
  /\ ~HasDuplicates(x) /\ Unused(x) = {} /\ Misplaced(x) = {} /\ NotNots(x) = {}
  /\ BadGates(Network(x), num_inputs) = {}

\* x is still to come for a thread within the same job.
Pending(x, label, g, p) == label # "idle" /\ JobOf(x) = JobOf(g) /\ Ahead(label, x, g, p)
-----------------------------------------------------------------------------
\* Comparing wirings.

\* The places of a wiring hold natural numbers.
LEMMA PlacesAreNat ==
  ASSUME round \in 1..Len(Work) + 1, round <= Len(Work), NEW g, Wired(g)
  PROVE  \A q \in 0..Last : g[q] \in Nat
<1>1. num_inputs \in Nat
  BY RoundType
<1>2. \A q \in 0..Last : g[q] \in 0..num_inputs + (q \div 2) - 1
  BY DEF Wired
<1> QED
  BY <1>1, <1>2

\* Two wirings of a job have the same first two gates.
LEMMA JobShared ==
  ASSUME round \in 1..Len(Work) + 1, round <= Len(Work), NEW x, NEW g, JobOf(x) = JobOf(g)
  PROVE  \A q \in 0..Last : q < 4 => x[q] = g[q]
<1>1. num_gates \in Nat \ {0} /\ Last = 2 * num_gates - 1
  BY RoundType
<1>2. Pair(x, 0) = Pair(g, 0) /\ (num_gates # 1 => Pair(x, 1) = Pair(g, 1))
  BY DEF JobOf
<1>3. x[0] = g[0] /\ x[1] = g[1] /\ (num_gates # 1 => x[2] = g[2] /\ x[3] = g[3])
  BY <1>2 DEF Pair
<1>4. ASSUME NEW q \in 0..Last, q < 4
      PROVE  q = 0 \/ q = 1 \/ (num_gates # 1 /\ (q = 2 \/ q = 3))
  BY <1>1, <1>4
<1> QED
  BY <1>3, <1>4

\* And two wirings that begin alike are of one job.
LEMMA SameJob ==
  ASSUME round \in 1..Len(Work) + 1, round <= Len(Work), NEW x, NEW g,
         \A q \in 0..Last : q < 4 => x[q] = g[q]
  PROVE  JobOf(x) = JobOf(g)
<1>1. num_gates \in Nat \ {0} /\ Last = 2 * num_gates - 1
  BY RoundType
<1>2. x[0] = g[0] /\ x[1] = g[1]
  <2>1. 0 \in 0..Last /\ 1 \in 0..Last
    BY <1>1
  <2> QED
    BY <2>1
<1>3. num_gates # 1 => x[2] = g[2] /\ x[3] = g[3]
  <2>1. num_gates # 1 => 2 \in 0..Last /\ 3 \in 0..Last
    BY <1>1
  <2> QED
    BY <2>1
<1> QED
  BY <1>2, <1>3 DEF JobOf, Pair

\* So they do not differ at one of the first four places first.
LEMMA NotAboveJob ==
  ASSUME round \in 1..Len(Work) + 1, round <= Len(Work), NEW x, Wired(x), NEW g, Wired(g),
         JobOf(x) = JobOf(g), NEW p \in 0..Last, p < 4
  PROVE  ~Above(x, g, p)
<1> SUFFICES ASSUME NEW q \in 0..p, x[q] > g[q]
             PROVE  FALSE
  BY DEF Above
<1>1. Last \in Nat
  BY RoundType
<1>2. q \in 0..Last /\ q < 4
  BY <1>1
<1>3. x[q] = g[q] /\ g[q] \in Nat
  BY <1>2, JobShared, PlacesAreNat
<1> QED
  BY <1>3

\* A wiring does not come after itself.
LEMMA NotAboveItself ==
  ASSUME round \in 1..Len(Work) + 1, round <= Len(Work), NEW g, Wired(g), NEW p \in 0..Last
  PROVE  ~Above(g, g, p)
<1>1. \A q \in 0..Last : ~ (g[q] > g[q])
  BY PlacesAreNat
<1>2. \A q \in 0..p : q \in 0..Last
  BY RoundType
<1> QED
  BY <1>1, <1>2 DEF Above

\* Two wirings that differ do so at some place first.
LEMMA FirstDifference ==
  ASSUME round \in 1..Len(Work) + 1, round <= Len(Work), NEW x, Wired(x), NEW g, Wired(g), x # g
  PROVE  \E q \in 0..Last : x[q] # g[q] /\ \A r \in 0..q - 1 : x[r] = g[r]
<1> DEFINE D == {q \in 0..Last : x[q] # g[q]}
<1>1. D \subseteq Nat
  BY RoundType
<1>2. D # {}
  <2> SUFFICES ASSUME \A q \in 0..Last : x[q] = g[q]
               PROVE  FALSE
    OBVIOUS
  <2>1. x = [q \in 0..Last |-> x[q]] /\ g = [q \in 0..Last |-> g[q]]
    BY DEF Wired
  <2> QED
    BY <2>1
<1>3. PICK q \in D : \A r \in D : q <= r
  <2> HIDE DEF D
  <2> QED
    BY <1>1, <1>2, LeastExists
<1>4. \A r \in 0..q - 1 : x[r] = g[r]
  <2> SUFFICES ASSUME NEW r \in 0..q - 1, x[r] # g[r]
               PROVE  FALSE
    OBVIOUS
  <2>1. Last \in Nat /\ q \in 0..Last
    BY RoundType
  <2>2. r \in D
    BY <2>1
  <2> QED
    BY <1>3, <2>1, <2>2
<1> QED
  BY <1>4

\* If x is not what g is up to place k, it comes after g if it does so at a place
\* up to k.
LEMMA SkipTo ==
  ASSUME round \in 1..Len(Work) + 1, round <= Len(Work), NEW x, Wired(x), NEW g, Wired(g),
         NEW k \in 0..Last, ~ \A r \in 0..k : x[r] = g[r]
  PROVE  x = g \/ Above(x, g, Last) <=> Above(x, g, k)
<1>1. Last \in Nat /\ k \in 0..Last
  BY RoundType
<1>2. x # g
  OBVIOUS
<1>3. ASSUME NEW q \in 0..Last, x[q] > g[q], \A r \in 0..q - 1 : x[r] = g[r]
      PROVE  q \in 0..k
  <2> SUFFICES ASSUME q > k
               PROVE  FALSE
    BY <1>1
  <2>1. \A r \in 0..k : r \in 0..q - 1
    BY <1>1
  <2> QED
    BY <1>3, <2>1
<1>4. \A q \in 0..k : q \in 0..Last
  BY <1>1
<1> QED
  BY <1>2, <1>3, <1>4 DEF Above
-----------------------------------------------------------------------------
\* Whether a wiring is stored.

\* The sources of each gate of a good wiring are in order.
LEMMA GoodOrder ==
  ASSUME round \in 1..Len(Work) + 1, round <= Len(Work), NEW x, Good(x), NEW n \in 0..num_gates - 1
  PROVE  x[2 * n] <= x[2 * n + 1]
<1>1. num_gates \in Nat \ {0}
  BY RoundType
<1>2. 2 * n \in 0..Last /\ 2 * n + 1 \in 0..Last
  BY PlacesOfGate
<1>3. x[2 * n] \in Nat /\ x[2 * n + 1] \in Nat
  BY <1>2, PlacesAreNat DEF Good
<1>4. CASE n = 0
  <2>1. ~SkipJob(JobOf(x), num_gates)
    BY DEF Good, Jobs, num_gates
  <2>2. ~ (x[2 * 0] > x[2 * 0 + 1])
    BY <2>1 DEF SkipJob, JobOf, Pair
  <2> QED
    BY <1>3, <1>4, <2>2
<1>5. CASE n # 0
  <2>1. n \in 1..num_gates - 1
    BY <1>1, <1>5
  <2>2. ~Unordered(x, n)
    BY <2>1 DEF Good, Misplaced
  <2> QED
    BY <1>3, <2>2 DEF Unordered
<1> QED
  BY <1>4, <1>5

\* Gates up to n that two wirings have in common.
LEMMA SameGates ==
  ASSUME NEW n \in Nat, NEW x, NEW g, \A r \in 0..2 * n + 1 : x[r] = g[r]
  PROVE  \A m \in 0..n : /\ x[2 * m] = g[2 * m] /\ x[2 * m + 1] = g[2 * m + 1]
                         /\ Pair(x, m) = Pair(g, m)
<1> TAKE m \in 0..n
<1>1. 2 * m \in 0..2 * n + 1 /\ 2 * m + 1 \in 0..2 * n + 1
  OBVIOUS
<1>2. x[2 * m] = g[2 * m] /\ x[2 * m + 1] = g[2 * m + 1]
  BY <1>1
<1> QED
  BY <1>2 DEF Pair

\* Whether a gate is misplaced depends on the gates up to it only.
LEMMA MisplacedToo ==
  ASSUME round \in 1..Len(Work) + 1, round <= Len(Work), NEW x, NEW g, NEW n \in Misplaced(g),
         \A r \in 0..2 * n + 1 : x[r] = g[r]
  PROVE  n \in Misplaced(x)
<1>1. n \in 1..num_gates - 1 /\ n \in Nat /\ n \in 0..n
  BY RoundType DEF Misplaced
<1>2. \A m \in 0..n : /\ x[2 * m] = g[2 * m] /\ x[2 * m + 1] = g[2 * m + 1]
                      /\ Pair(x, m) = Pair(g, m)
  BY <1>1, SameGates
<1>3. x[2 * n] = g[2 * n] /\ x[2 * n + 1] = g[2 * n + 1] /\ Pair(x, n) = Pair(g, n)
  BY <1>1, <1>2
<1>4. CASE Unordered(g, n)
  BY <1>1, <1>3, <1>4 DEF Unordered, Misplaced
<1>5. CASE \E m \in 0..n - 1 : Swappable(g, m, n)
  <2>1. PICK m \in 0..n - 1 : Swappable(g, m, n)
    BY <1>5
  <2>2. m \in 0..n
    BY <1>1
  <2>3. Swappable(x, m, n)
    BY <1>2, <1>3, <2>1, <2>2 DEF Swappable
  <2> QED
    BY <1>1, <2>3 DEF Misplaced
<1> QED
  BY <1>4, <1>5 DEF Misplaced

\* So does whether a gate undoes a negation.
LEMMA NotNotToo ==
  ASSUME round \in 1..Len(Work) + 1, round <= Len(Work), NEW x, NEW g, Wired(g),
         NEW n \in NotNots(g), \A r \in 0..2 * n + 1 : x[r] = g[r]
  PROVE  n \in NotNots(x)
<1>1. /\ n \in 1..num_gates - 1 /\ n \in Nat /\ n \in 0..n /\ n \in 0..num_gates - 1
      /\ num_inputs \in Nat
  BY RoundType DEF NotNots
<1>2. \A m \in 0..n : x[2 * m] = g[2 * m] /\ x[2 * m + 1] = g[2 * m + 1]
  BY <1>1, SameGates
<1>3. x[2 * n] = g[2 * n] /\ x[2 * n + 1] = g[2 * n + 1]
  BY <1>1, <1>2
<1>4. IsNot(g, n) /\ g[2 * n] >= num_inputs /\ IsNot(g, g[2 * n] - num_inputs)
  BY DEF NotNots
<1> PICK m : m = g[2 * n] - num_inputs
  OBVIOUS
<1>5. m \in 0..n
  <2>1. g[2 * n] \in 0..num_inputs + n - 1
    BY <1>1, PlacesOfGate
  <2> QED
    BY <1>1, <1>4, <2>1
<1>6. IsNot(x, n) /\ IsNot(x, m)
  BY <1>2, <1>3, <1>4, <1>5 DEF IsNot
<1> QED
  BY <1>1, <1>3, <1>4, <1>6 DEF NotNots

\* The first k gates of two networks are the same.
SameStart(w, z, k) == \A a \in 1..k : w[a] = z[a]

\* Networks with the same first gates have the same truth tables up to there.
LEMMA SameTruth ==
  ASSUME NEW i \in Nat, NEW w \in Seq(Nat \X Nat), Ordered(w, i),
         NEW z \in Seq(Nat \X Nat), Ordered(z, i), Len(w) = Len(z),
         NEW k \in 0..Len(w), SameStart(w, z, k)
  PROVE  \A s \in 0..i + k - 1 : Truth(w, i)[s] = Truth(z, i)[s]
<1> PICK on, up : on = Truth(w, i) /\ up = Truth(z, i)
  OBVIOUS
<1>1. FollowsWiring(on, w, i) /\ FollowsWiring(up, z, i)
  BY TruthTables
<1> DEFINE Bad == {s \in 0..i + k - 1 : on[s] # up[s]}
<1>2. Len(w) \in Nat
  OBVIOUS
<1>3. ASSUME Bad # {}
      PROVE  FALSE
  <2>1. Bad \subseteq Nat
    OBVIOUS
  <2>2. PICK s \in Bad : \A r \in Bad : s <= r
    BY <1>3, <2>1, LeastExists
  <2>3. s \in 0..i + k - 1 /\ on[s] # up[s] /\ s \in 0..i + Len(w) - 1 /\ s \in 0..i + Len(z) - 1
    BY <1>2, <2>2
  <2>4. \A r \in 0..s - 1 : on[r] = up[r]
    <3> SUFFICES ASSUME NEW r \in 0..s - 1, on[r] # up[r]
                 PROVE  FALSE
      OBVIOUS
    <3>1. r \in Bad
      BY <1>2, <2>3
    <3> QED
      BY <2>2, <2>3, <3>1
  <2> HIDE DEF Bad
  <2>5. s >= i
    <3> PICK rows : rows = {r \in Rows(i) : s \in r}
      OBVIOUS
    <3>1. s < i => on[s] = rows
      BY <1>1, <2>3 DEF FollowsWiring
    <3>2. s < i => up[s] = rows
      BY <1>1, <2>3 DEF FollowsWiring
    <3>3. ~ (s < i)
      BY <2>3, <3>1, <3>2
    <3> QED
      BY <2>3, <3>3
  <2> PICK a : a = s - i + 1
    OBVIOUS
  <2>6. a \in 1..k /\ a \in 1..Len(w) /\ i + a - 2 = s - 1
    BY <1>2, <2>3, <2>5
  <2>7. w[a] = z[a] /\ w[a][1] \in 0..s - 1 /\ w[a][2] \in 0..s - 1
    BY <2>6 DEF Ordered, SameStart
  <2>8. on[s] = Rows(i) \ (on[w[a][1]] \cap on[w[a][2]])
    BY <1>1, <2>3, <2>5 DEF FollowsWiring
  <2>9. up[s] = Rows(i) \ (up[z[a][1]] \cap up[z[a][2]])
    BY <1>1, <2>3, <2>5 DEF FollowsWiring
  <2>10. on[w[a][1]] = up[w[a][1]] /\ on[w[a][2]] = up[w[a][2]]
    BY <2>4, <2>7
  <2> QED
    BY <2>3, <2>7, <2>8, <2>9, <2>10
<1> QED
  BY <1>3

\* Whether Catalogue() objects to a gate depends on the gates up to it only.
LEMMA BadToo ==
  ASSUME round \in 1..Len(Work) + 1, round <= Len(Work), NEW x, Wired(x), NEW g, Wired(g),
         NEW n \in BadGates(Network(g), num_inputs), \A r \in 0..2 * n + 1 : x[r] = g[r]
  PROVE  BadGates(Network(x), num_inputs) # {}
<1> PICK w, z, i : w = Network(g) /\ z = Network(x) /\ i = num_inputs
  OBVIOUS
<1>1. i \in Nat /\ num_gates \in Nat
  BY RoundType
<1>2. /\ w \in Seq(Nat \X Nat) /\ Len(w) = num_gates /\ Ordered(w, i)
      /\ \A m \in 0..num_gates - 1 : w[m + 1] = <<g[2 * m], g[2 * m + 1]>>
  BY NetworkOfWiring
<1>3. /\ z \in Seq(Nat \X Nat) /\ Len(z) = num_gates /\ Ordered(z, i)
      /\ \A m \in 0..num_gates - 1 : z[m + 1] = <<x[2 * m], x[2 * m + 1]>>
  BY NetworkOfWiring
<1>4. n \in ConstantGates(w, i) \/ n \in CopyGates(w, i)
  BY DEF BadGates
<1>5. n \in 0..num_gates - 1 /\ n \in Nat
  <2>1. n \in 0..Len(w) - 1
    BY <1>4 DEF ConstantGates, CopyGates
  <2> QED
    BY <1>1, <1>2, <2>1
<1>6. \A m \in 0..n : x[2 * m] = g[2 * m] /\ x[2 * m + 1] = g[2 * m + 1]
  BY <1>5, SameGates
<1>7. \A a \in 1..n + 1 : w[a] = z[a]
  <2> TAKE a \in 1..n + 1
  <2>1. a - 1 \in 0..n /\ a - 1 \in 0..num_gates - 1 /\ (a - 1) + 1 = a
    BY <1>1, <1>5
  <2> PICK m : m = a - 1
    OBVIOUS
  <2>2. w[m + 1] = <<g[2 * m], g[2 * m + 1]>> /\ z[m + 1] = <<x[2 * m], x[2 * m + 1]>>
    BY <1>2, <1>3, <2>1
  <2>3. x[2 * m] = g[2 * m] /\ x[2 * m + 1] = g[2 * m + 1]
    BY <1>6, <2>1
  <2> QED
    BY <2>1, <2>2, <2>3
<1>8. \A s \in 0..i + (n + 1) - 1 : Truth(w, i)[s] = Truth(z, i)[s]
  <2> PICK k : k = n + 1
    OBVIOUS
  <2>1. k \in 0..Len(w) /\ Len(w) = Len(z)
    BY <1>1, <1>2, <1>3, <1>5
  <2>2. SameStart(w, z, k)
    BY <1>7 DEF SameStart
  <2>3. \A s \in 0..i + k - 1 : Truth(w, i)[s] = Truth(z, i)[s]
    <3>1. /\ i \in Nat /\ w \in Seq(Nat \X Nat) /\ Ordered(w, i)
          /\ z \in Seq(Nat \X Nat) /\ Ordered(z, i)
      BY <1>1, <1>2, <1>3
    <3> QED
      BY <2>1, <2>2, <3>1, SameTruth
  <2> QED
    BY <2>3
<1>9. Truth(w, i)[i + n] = Truth(z, i)[i + n]
  BY <1>1, <1>5, <1>8
<1>10. \A s \in 0..i - 1 : Truth(w, i)[s] = Truth(z, i)[s]
  BY <1>1, <1>5, <1>8
<1>11. n \in ConstantGates(z, i) \/ n \in CopyGates(z, i)
  <2>1. CASE n \in ConstantGates(w, i)
    BY <1>2, <1>3, <1>9, <2>1 DEF ConstantGates
  <2>2. CASE n \in CopyGates(w, i)
    BY <1>2, <1>3, <1>9, <1>10, <2>2 DEF CopyGates
  <2> QED
    BY <1>4, <2>1, <2>2
<1> QED
  BY <1>11 DEF BadGates
-----------------------------------------------------------------------------
\* The steps of the odometer.

\* An input that a wiring lacks can only be in the last place of a good one that
\* is the same up to there.
LEMMA UnusedInputNeeded ==
  ASSUME round \in 1..Len(Work) + 1, round <= Len(Work), NEW x, Good(x), NEW g,
         NEW s \in Unused(g), \A r \in 0..Last - 1 : x[r] = g[r]
  PROVE  x[Last] = s
<1>1. Last \in Nat
  BY RoundType
<1>2. s \in Inputs /\ \A q \in 0..Last : g[q] # s
  BY DEF Unused
<1>3. s \notin Unused(x)
  BY DEF Good
<1>4. PICK q \in 0..Last : x[q] = s
  BY <1>2, <1>3 DEF Unused
<1>5. q = Last \/ q \in 0..Last - 1
  BY <1>1
<1> QED
  BY <1>2, <1>4, <1>5

\* The good wirings that come after g at a place up to p are the one where place
\* p is one more and what follows is reset, and those after it.
LEMMA ResetComes ==
  ASSUME round \in 1..Len(Work) + 1, round <= Len(Work), NEW x, Good(x), NEW g, Wired(g),
         NEW p \in 0..Last, NEW s, s = g[p] + 1, NEW h, Wired(h), h = Reset(g, p, s)
  PROVE  Above(x, g, p) <=> x = h \/ Above(x, h, Last)
<1>1. Last \in Nat /\ num_gates \in Nat \ {0} /\ Last = 2 * num_gates - 1
  BY RoundType
<1>2. \A q \in 0..Last : x[q] \in Nat /\ g[q] \in Nat /\ h[q] \in Nat
  BY PlacesAreNat DEF Good
<1>3. \A q \in 0..Last : h[q] = IF q < p THEN g[q]
                               ELSE IF q = p \/ (q = p + 1 /\ p % 2 = 0) THEN s ELSE 0
  BY DEF Reset
<1>4. h[p] = s /\ \A q \in 0..p - 1 : q \in 0..Last /\ h[q] = g[q]
  <2>1. \A q \in 0..p - 1 : q \in 0..Last /\ q < p
    BY <1>1
  <2> QED
    BY <1>3, <2>1
<1>5. ASSUME Above(x, g, p)
      PROVE  x = h \/ Above(x, h, Last)
  <2>1. PICK q \in 0..p : x[q] > g[q] /\ \A r \in 0..q - 1 : x[r] = g[r]
    BY <1>5 DEF Above
  <2>2. q \in 0..Last /\ \A r \in 0..q - 1 : r \in 0..p - 1
    BY <1>1
  <2>3. \A r \in 0..q - 1 : x[r] = h[r]
    BY <1>4, <2>1, <2>2
  <2>4. CASE q < p
    <3>1. x[q] > h[q]
      BY <1>1, <1>4, <2>1, <2>4
    <3> QED
      BY <2>2, <2>3, <3>1 DEF Above
  <2>5. CASE q = p /\ x[p] > s
    <3>1. x[q] > h[q]
      BY <1>4, <2>5
    <3> QED
      BY <2>2, <2>3, <3>1 DEF Above
  <2>6. CASE q = p /\ x[p] = s
    <3> SUFFICES ASSUME x # h
                 PROVE  Above(x, h, Last)
      OBVIOUS
    <3>1. PICK d \in 0..Last : x[d] # h[d] /\ \A r \in 0..d - 1 : x[r] = h[r]
      BY FirstDifference DEF Good
    <3>2. d > p
      <4> SUFFICES ASSUME d <= p
                   PROVE  FALSE
        BY <1>1
      <4>1. d = p \/ d \in 0..q - 1
        BY <1>1, <2>6
      <4> QED
        BY <1>4, <2>3, <2>6, <3>1, <4>1
    <3>3. CASE d = p + 1 /\ p % 2 = 0
      <4>1. h[d] = s
        BY <1>1, <1>3, <3>3
      <4>2. p \div 2 \in 0..num_gates - 1 /\ p = 2 * (p \div 2)
        BY <3>3, GateOfPlace
      <4>3. x[p] <= x[p + 1]
        BY <4>2, GoodOrder
      <4>4. x[d] >= h[d]
        BY <1>1, <1>2, <2>6, <3>3, <4>1, <4>3
      <4> QED
        BY <1>2, <3>1, <4>4 DEF Above
    <3>4. CASE ~ (d = p + 1 /\ p % 2 = 0)
      <4>1. h[d] = 0
        BY <1>1, <1>3, <3>2, <3>4
      <4>2. x[d] > h[d]
        BY <1>2, <3>1, <4>1
      <4> QED
        BY <3>1, <4>2 DEF Above
    <3> QED
      BY <3>3, <3>4
  <2>7. x[p] \in Nat /\ g[p] \in Nat
    BY <1>2
  <2> QED
    BY <1>1, <2>1, <2>4, <2>5, <2>6, <2>7
<1>6. ASSUME x = h
      PROVE  Above(x, g, p)
  <2>1. x[p] > g[p] /\ p \in 0..p
    BY <1>1, <1>2, <1>4, <1>6
  <2> QED
    BY <1>4, <1>6, <2>1 DEF Above
<1>7. ASSUME Above(x, h, Last)
      PROVE  Above(x, g, p)
  <2>1. PICK q \in 0..Last : x[q] > h[q] /\ \A r \in 0..q - 1 : x[r] = h[r]
    BY <1>7 DEF Above
  <2>2. x[q] \in Nat /\ h[q] \in Nat /\ x[p] \in Nat /\ g[p] \in Nat
    BY <1>2
  <2>3. CASE q < p
    <3>1. q \in 0..p /\ q \in 0..p - 1 /\ \A r \in 0..q - 1 : r \in 0..p - 1
      BY <1>1, <2>3
    <3>2. x[q] > g[q] /\ \A r \in 0..q - 1 : x[r] = g[r]
      BY <1>4, <2>1, <3>1
    <3> QED
      BY <3>1, <3>2 DEF Above
  <2>4. CASE q >= p
    <3>1. x[p] >= s
      <4>1. CASE q = p
        BY <1>4, <2>1, <2>2, <4>1
      <4>2. CASE q # p
        <5>1. p \in 0..q - 1
          BY <1>1, <2>4, <4>2
        <5> QED
          BY <1>4, <2>1, <2>2, <5>1
      <4> QED
        BY <4>1, <4>2
    <3>2. x[p] > g[p] /\ p \in 0..p
      BY <1>1, <2>2, <3>1
    <3>3. \A r \in 0..p - 1 : r \in 0..q - 1
      BY <1>1, <2>4
    <3>4. \A r \in 0..p - 1 : x[r] = g[r]
      BY <1>4, <2>1, <3>3
    <3> QED
      BY <3>2, <3>4 DEF Above
  <2> QED
    BY <1>1, <2>3, <2>4
<1> QED
  BY <1>5, <1>6, <1>7

\* All good wirings of a job are its first one or come after it.
LEMMA FirstComes ==
  ASSUME round \in 1..Len(Work) + 1, round <= Len(Work), NEW job \in Jobs(round)
  PROVE  /\ JobOf(FirstWiring(job)) = job
         /\ \A x : Good(x) /\ JobOf(x) = job =>
              x = FirstWiring(job) \/ Above(x, FirstWiring(job), Last)
<1> PICK g, net : g = FirstWiring(job) /\ net = FirstNetwork(job)
  OBVIOUS
<1>1. /\ num_inputs \in Nat \ {0} /\ num_gates \in Nat \ {0}
      /\ Last \in Nat /\ Last = 2 * num_gates - 1
  BY RoundType
<1>2. Started(net, job, num_gates)
  BY FirstNetworks
<1>3. \A a \in 1..num_gates :
        /\ a <= 2 => net[a] = job[a]
        /\ a > 2 => net[a][1] = 0 /\ LeastNew(net, a)
  BY <1>2 DEF Started
<1>4. \A a \in 1..num_gates :
        /\ Pair(g, a - 1) = net[a]
        /\ net[a] = <<net[a][1], net[a][2]>>
  <2> TAKE a \in 1..num_gates
  <2>1. a - 1 \in 0..num_gates - 1 /\ (a - 1) + 1 = a
    BY <1>1
  <2> PICK m : m = a - 1
    OBVIOUS
  <2>2. g[2 * m] = net[m + 1][1] /\ g[2 * m + 1] = net[m + 1][2]
    BY <2>1, FirstWiringPlaces
  <2>3. net[a] = <<net[a][1], net[a][2]>>
    <3>1. net \in Seq(Nat \X Nat) /\ Len(net) = num_gates
      BY <1>2 DEF Started
    <3>2. net[a] \in Nat \X Nat
      BY <3>1
    <3> QED
      BY <3>2
  <2> QED
    BY <2>1, <2>2, <2>3 DEF Pair
<1>5. Wired(g)
  <2>1. HereAt("unused", FirstWiring(job), Last)
    BY FirstWiringFits
  <2> QED
    BY <2>1 DEF HereAt
<1>6. JobOf(g) = job
  <2>1. /\ job = <<job[1], job[2]>>
        /\ job[1] \in (0..num_inputs - 1) \X (0..num_inputs - 1)
        /\ job[2] \in (0..num_inputs) \X (0..num_inputs)
    BY JobType
  <2>2. num_gates = 1 => job[2] = <<0, 0>>
    <3>1. ~SkipJob(job, num_gates)
      BY DEF Jobs, num_gates
    <3> QED
      BY <3>1 DEF SkipJob
  <2>3. Pair(g, 0) = job[1]
    <3>1. 1 \in 1..num_gates /\ 1 - 1 = 0
      BY <1>1
    <3> QED
      BY <1>3, <1>4, <3>1
  <2>4. num_gates # 1 => Pair(g, 1) = job[2]
    <3>1. num_gates # 1 => 2 \in 1..num_gates /\ 2 - 1 = 1
      BY <1>1
    <3> QED
      BY <1>3, <1>4, <3>1
  <2> QED
    BY <2>1, <2>2, <2>3, <2>4 DEF JobOf
<1>7. ASSUME NEW x, Good(x), JobOf(x) = job, x # g
      PROVE  Above(x, g, Last)
  <2>1. Wired(x)
    BY <1>7 DEF Good
  <2>2. PICK q \in 0..Last : x[q] # g[q] /\ \A r \in 0..q - 1 : x[r] = g[r]
    BY <1>5, <1>7, <2>1, FirstDifference
  <2>3. \A r \in 0..Last : r < 4 => x[r] = g[r]
    BY <1>6, <1>7, JobShared
  <2>4. q >= 4
    BY <1>1, <2>2, <2>3
  <2>5. x[q] \in Nat /\ g[q] \in Nat
    BY <1>5, <2>1, PlacesAreNat
  <2> PICK m, b : m = q \div 2 /\ b = m + 1
    OBVIOUS
  <2>6. /\ m \in 0..num_gates - 1
        /\ q = 2 * m \/ q = 2 * m + 1
        /\ b \in 1..num_gates /\ b > 2 /\ b - 1 = m
    BY <1>1, <2>4, GateOfPlace
  <2>7. g[2 * m] = 0 /\ g[2 * m + 1] = net[b][2] /\ LeastNew(net, b)
    <3>1. net[b][1] = 0 /\ LeastNew(net, b) /\ Pair(g, m) = <<net[b][1], net[b][2]>>
      BY <1>3, <1>4, <2>6
    <3> QED
      BY <3>1 DEF Pair
  <2>8. x[q] > g[q]
    <3>1. CASE q = 2 * m
      BY <2>2, <2>5, <2>7, <3>1
    <3>2. CASE q = 2 * m + 1
      <4> SUFFICES ASSUME x[q] < g[q]
                   PROVE  FALSE
        BY <2>2, <2>5
      <4> PICK s : s = x[q]
        OBVIOUS
      <4>1. s \in Nat /\ s < net[b][2]
        BY <2>5, <2>7, <3>2
      <4>2. PICK a \in 1..b - 1 : net[a] = <<0, s>>
        BY <2>7, <4>1 DEF LeastNew
      <4> PICK l : l = a - 1
        OBVIOUS
      <4>3. a \in 1..num_gates /\ l \in 0..num_gates - 1 /\ l < m
        BY <1>1, <2>6
      <4>4. Pair(g, l) = <<0, s>>
        BY <1>4, <4>2, <4>3
      <4>5. Pair(x, l) = Pair(g, l)
        <5>1. 2 * l \in 0..q - 1 /\ 2 * l + 1 \in 0..q - 1
          BY <1>1, <2>6, <3>2, <4>3
        <5>2. x[2 * l] = g[2 * l] /\ x[2 * l + 1] = g[2 * l + 1]
          BY <2>2, <5>1
        <5> QED
          BY <5>2 DEF Pair
      <4>6. Pair(x, m) = <<0, s>>
        <5>1. 2 * m \in 0..q - 1
          BY <1>1, <2>6, <3>2
        <5>2. x[2 * m] = 0 /\ x[2 * m + 1] = s
          BY <2>2, <2>7, <3>2, <5>1
        <5> QED
          BY <5>2 DEF Pair
      <4>7. HasDuplicates(x)
        BY <2>6, <4>3, <4>4, <4>5, <4>6 DEF HasDuplicates
      <4> QED
        BY <1>7, <4>7 DEF Good
    <3> QED
      BY <2>6, <3>1, <3>2
  <2> QED
    BY <2>2, <2>8 DEF Above
<1> QED
  BY <1>6, <1>7
-----------------------------------------------------------------------------
\* What is still to come.

\* A step of thread t to the label, with wiring h and place q, loses no good
\* wiring that was still to come, and adds none.
GoesOn(t, label, h, q) ==
  /\ label # "idle" => JobOf(h) = JobOf(gate_inputs[t])
  /\ \A x : Good(x) => (Pending(x, label, h, q) <=> Pending(x, pc[t], gate_inputs[t], pos[t]))

\* What is still to come, label by label.
LEMMA AheadAt ==
  ASSUME NEW x, NEW g, NEW p
  PROVE  /\ Ahead("unused", x, g, p) <=> x = g \/ Above(x, g, Last)
         /\ Ahead("order", x, g, p) <=> x = g \/ Above(x, g, Last)
         /\ Ahead("catalogue", x, g, p) <=> x = g \/ Above(x, g, Last)
         /\ Ahead("inc", x, g, p) <=> Above(x, g, p)
         /\ Ahead("wraps", x, g, p) <=> Above(x, g, p - 1)
BY DEF Ahead

\* It is enough to look at the good wirings of the job.
LEMMA WithinJob ==
  ASSUME NEW t, pc[t] # "idle", NEW label, label # "idle", NEW h, NEW q,
         JobOf(h) = JobOf(gate_inputs[t]),
         \A x : Good(x) /\ JobOf(x) = JobOf(gate_inputs[t]) =>
                  (Ahead(label, x, h, q) <=> Ahead(pc[t], x, gate_inputs[t], pos[t]))
  PROVE  GoesOn(t, label, h, q)
BY DEF GoesOn, Pending

\* The reasons to give a wiring up are none to give up a good one.
LEMMA UnusedGoesOn ==
  ASSUME TypeInv, JobInv, NEW t \in Threads, FixUnused(t)
  PROVE  \E label \in Labels : \E h, q : Moves(t, label, h, q) /\ GoesOn(t, label, h, q)
<1> PICK g, p : g = gate_inputs[t] /\ p = pos[t]
  OBVIOUS
<1> DEFINE helpful == {s \in Unused(g) : s > g[p]}
<1>1. pc[t] = "unused" /\ UNCHANGED <<round, pos>>
  BY DEF FixUnused
<1>2. /\ round \in 1..Len(Work) + 1 /\ round <= Len(Work)
      /\ HereAt("unused", g, p) /\ Wired(g) /\ num_gates \in Nat \ {0}
      /\ Last \in Nat /\ Last \in 0..Last /\ Last - 1 \in Int
  BY <1>1, AtWork
<1>3. p = Last
  BY <1>2 DEF HereAt
<1>4. \A x : Good(x) => Unused(x) = {}
  BY DEF Good
<1>5. CASE Unused(g) = {} /\ GoTo(t, "order") /\ UNCHANGED gate_inputs
  <2>1. Moves(t, "order", g, p)
    BY <1>1, <1>5, StaysAt DEF jobVars
  <2>2. GoesOn(t, "order", g, p)
    BY <1>1, AheadAt, WithinJob
  <2> QED
    BY <2>1, <2>2 DEF Labels
<1>6. CASE Unused(g) # {} /\ p < 4 /\ GoTo(t, "inc") /\ UNCHANGED gate_inputs
  <2>1. Moves(t, "inc", g, p)
    BY <1>1, <1>6, StaysAt DEF jobVars
  <2>2. \A x : Good(x) => (Ahead("inc", x, g, p) <=> Ahead("unused", x, g, p))
    BY <1>3, <1>4, <1>6, AheadAt
  <2>3. GoesOn(t, "inc", g, p)
    BY <1>1, <2>2, WithinJob
  <2> QED
    BY <2>1, <2>3 DEF Labels
<1>7. ASSUME NEW x, Good(x), NEW s \in Unused(g), Above(x, g, Last)
      PROVE  Above(x, g, Last - 1) \/ (x[Last] = s /\ s > g[Last] /\
                                       \A r \in 0..Last - 1 : x[r] = g[r])
  <2>1. PICK q \in 0..Last : x[q] > g[q] /\ \A r \in 0..q - 1 : x[r] = g[r]
    BY <1>7 DEF Above
  <2>2. CASE q = Last
    <3>1. x[Last] = s
      BY <1>2, <1>7, <2>1, <2>2, UnusedInputNeeded
    <3> QED
      BY <2>1, <2>2, <3>1
  <2>3. CASE q # Last
    <3>1. q \in 0..Last - 1
      BY <1>2, <2>3
    <3> QED
      BY <2>1, <3>1 DEF Above
  <2> QED
    BY <2>2, <2>3
<1>8. ASSUME NEW x, Above(x, g, Last - 1)
      PROVE  Above(x, g, Last)
  <2>1. \A q \in 0..Last - 1 : q \in 0..Last
    BY <1>2
  <2> QED
    BY <1>8, <2>1 DEF Above
<1>9. CASE Unused(g) # {} /\ p >= 4 /\ helpful = {} /\ GoTo(t, "wraps")
           /\ UNCHANGED gate_inputs
  <2>1. Moves(t, "wraps", g, p)
    BY <1>1, <1>9, StaysAt DEF jobVars
  <2>2. ASSUME NEW x, Good(x)
        PROVE  Ahead("wraps", x, g, p) <=> Ahead("unused", x, g, p)
    <3>1. x # g
      BY <1>4, <1>9, <2>2
    <3>2. Above(x, g, Last) => Above(x, g, Last - 1)
      <4> SUFFICES ASSUME Above(x, g, Last), ~Above(x, g, Last - 1)
                   PROVE  FALSE
        OBVIOUS
      <4>1. PICK s : s \in Unused(g)
        BY <1>9
      <4>2. s > g[Last]
        BY <1>7, <2>2, <4>1
      <4> QED
        BY <1>3, <1>9, <4>1, <4>2
    <3> QED
      BY <1>3, <1>8, <3>1, <3>2, AheadAt
  <2>3. GoesOn(t, "wraps", g, p)
    BY <1>1, <2>2, WithinJob
  <2> QED
    BY <2>1, <2>3 DEF Labels
<1>10. CASE /\ p >= 4 /\ helpful # {}
            /\ gate_inputs' = [gate_inputs EXCEPT ![t][p] = Least(helpful)]
            /\ UNCHANGED pc
  <2>1. helpful \subseteq Nat
    BY DEF Unused, Inputs
  <2>2. PICK s, h : s = Least(helpful) /\ h = [g EXCEPT ![Last] = s]
    OBVIOUS
  <2>3. s \in helpful
    BY <1>10, <2>1, <2>2, LeastIsLeast
  <2>4. s \in Unused(g) /\ s > g[Last] /\ s \in Nat
    BY <1>3, <2>1, <2>3
  <2> HIDE DEF helpful
  <2>5. gate_inputs' = [gate_inputs EXCEPT ![t] = h]
    BY <1>3, <1>10, <2>2
  <2>6. Moves(t, "unused", h, Last)
    <3>1. pc' = [pc EXCEPT ![t] = "unused"]
      BY <1>1, <1>10 DEF TypeInv
    <3> QED
      BY <1>1, <1>3, <2>5, <3>1 DEF TypeInv, Moves
  <2>7. h[Last] = s /\ \A r \in 0..Last - 1 : r \in 0..Last /\ h[r] = g[r]
    <3>1. DOMAIN g = 0..Last
      BY <1>2 DEF Wired
    <3>2. \A r \in 0..Last - 1 : r \in 0..Last /\ r # Last
      BY <1>2
    <3> QED
      BY <1>2, <2>2, <3>1, <3>2
  <2>8. JobOf(h) = JobOf(g)
    <3>1. \A q \in 0..Last : q < 4 => q \in 0..Last - 1
      BY <1>2, <1>3, <1>10
    <3>2. \A q \in 0..Last : q < 4 => h[q] = g[q]
      BY <2>7, <3>1
    <3> QED
      BY <1>2, <3>2, SameJob
  <2>9. Wired(h)
    <3>1. HereAt("unused", h, Last)
      BY <1>2, <1>3, <2>4, <2>2, UnusedInputFits
    <3> QED
      BY <3>1 DEF HereAt
  <2>10. ASSUME NEW x, Good(x)
        PROVE  Ahead("unused", x, h, Last) <=> Ahead("unused", x, g, p)
    <3>1. Wired(x) /\ x # g
      BY <1>4, <2>4, <2>10 DEF Good
    <3>2. x = h => Above(x, g, Last)
      <4> SUFFICES ASSUME x = h
                   PROVE  Above(x, g, Last)
        OBVIOUS
      <4>1. x[Last] > g[Last] /\ \A r \in 0..Last - 1 : x[r] = g[r]
        BY <2>4, <2>7
      <4> QED
        BY <1>2, <4>1 DEF Above
    <3>3. Above(x, h, Last) => Above(x, g, Last)
      <4> SUFFICES ASSUME Above(x, h, Last)
                   PROVE  Above(x, g, Last)
        OBVIOUS
      <4>1. PICK q \in 0..Last : x[q] > h[q] /\ \A r \in 0..q - 1 : x[r] = h[r]
        BY DEF Above
      <4>2. \A r \in 0..q - 1 : r \in 0..Last - 1
        BY <1>2
      <4>3. \A r \in 0..q - 1 : x[r] = g[r]
        BY <2>7, <4>1, <4>2
      <4>4. x[q] > g[q]
        <5>1. CASE q = Last
          <6>1. x[Last] \in Nat /\ g[Last] \in Nat
            BY <1>2, <3>1, PlacesAreNat
          <6> QED
            BY <2>4, <2>7, <4>1, <5>1, <6>1
        <5>2. CASE q # Last
          <6>1. q \in 0..Last - 1
            BY <1>2, <5>2
          <6> QED
            BY <2>7, <4>1, <6>1
        <5> QED
          BY <5>1, <5>2
      <4> QED
        BY <4>3, <4>4 DEF Above
    <3>4. Above(x, g, Last) => x = h \/ Above(x, h, Last)
      <4> SUFFICES ASSUME Above(x, g, Last)
                   PROVE  x = h \/ Above(x, h, Last)
        OBVIOUS
      <4>1. CASE Above(x, g, Last - 1)
        <5>1. PICK q \in 0..Last - 1 : x[q] > g[q] /\ \A r \in 0..q - 1 : x[r] = g[r]
          BY <4>1 DEF Above
        <5>2. q \in 0..Last /\ \A r \in 0..q - 1 : r \in 0..Last - 1
          BY <1>2
        <5>3. x[q] > h[q] /\ \A r \in 0..q - 1 : x[r] = h[r]
          BY <2>7, <5>1, <5>2
        <5> QED
          BY <5>2, <5>3 DEF Above
      <4>2. CASE x[Last] = s /\ \A r \in 0..Last - 1 : x[r] = g[r]
        <5>1. \A q \in 0..Last : q = Last \/ q \in 0..Last - 1
          BY <1>2
        <5>2. \A q \in 0..Last : x[q] = h[q]
          BY <2>7, <4>2, <5>1
        <5>3. ~ \E q \in 0..Last : x[q] # h[q] /\ \A r \in 0..q - 1 : x[r] = h[r]
          BY <5>2
        <5> QED
          BY <1>2, <2>9, <3>1, <5>3, FirstDifference
      <4> QED
        BY <1>7, <2>4, <2>10, <4>1, <4>2
    <3> QED
      BY <1>3, <3>1, <3>2, <3>3, <3>4, AheadAt
  <2>11. GoesOn(t, "unused", h, Last)
    BY <1>1, <2>8, <2>10, WithinJob
  <2> QED
    BY <2>6, <2>11 DEF Labels
<1> QED
  BY <1>5, <1>6, <1>9, <1>10 DEF FixUnused
\* No good wiring has the same gates as g up to gate n.
NoneShares(g, n) == \A x : Good(x) => ~ \A r \in 0..2 * n + 1 : x[r] = g[r]

\* Then the place after gate n may change next.
LEMMA SkipsGate ==
  ASSUME round \in 1..Len(Work) + 1, round <= Len(Work),
         NEW t \in Threads, pc[t] \in {"order", "catalogue"}, Wired(gate_inputs[t]),
         NEW n \in 0..num_gates - 1, NoneShares(gate_inputs[t], n)
  PROVE  GoesOn(t, "inc", gate_inputs[t], 2 * n + 1)
<1> PICK g, k : g = gate_inputs[t] /\ k = 2 * n + 1
  OBVIOUS
<1>1. k \in 0..Last
  BY PlacesOfGate
<1>2. ASSUME NEW x, Good(x)
      PROVE  x = g \/ Above(x, g, Last) <=> Above(x, g, k)
  <2>1. Wired(x) /\ ~ \A r \in 0..k : x[r] = g[r]
    BY <1>2 DEF Good, NoneShares
  <2> QED
    BY <1>1, <2>1, SkipTo
<1>3. \A x : Good(x) => (Ahead("inc", x, g, k) <=> Ahead(pc[t], x, g, pos[t]))
  BY <1>2, AheadAt
<1> QED
  BY <1>3, WithinJob

\* What CheckOrder() skips has the misplaced gate in common, or is out of order
\* up to the same place.
LEMMA OrderGoesOn ==
  ASSUME TypeInv, JobInv, NEW t \in Threads, CheckOrder(t)
  PROVE  \E label \in Labels : \E h, q : Moves(t, label, h, q) /\ GoesOn(t, label, h, q)
<1> PICK g, p, n : g = gate_inputs[t] /\ p = pos[t] /\ n = Least(Misplaced(g))
  OBVIOUS
<1>1. pc[t] = "order" /\ UNCHANGED <<round, gate_inputs>>
  BY DEF CheckOrder
<1>2. /\ round \in 1..Len(Work) + 1 /\ round <= Len(Work)
      /\ HereAt("order", g, p) /\ Wired(g) /\ num_gates \in Nat \ {0}
  BY <1>1, AtWork
<1>3. p = Last
  BY <1>2 DEF HereAt
<1>4. CASE Misplaced(g) = {} /\ GoTo(t, "catalogue") /\ UNCHANGED pos
  <2>1. Moves(t, "catalogue", g, p)
    BY <1>1, <1>4, StaysAt DEF jobVars
  <2>2. GoesOn(t, "catalogue", g, p)
    BY <1>1, AheadAt, WithinJob
  <2> QED
    BY <2>1, <2>2 DEF Labels
<1>5. CASE Misplaced(g) # {} /\ Unordered(g, n) /\ GoTo(t, "inc") /\ UNCHANGED pos
  <2>1. Moves(t, "inc", g, p)
    BY <1>1, <1>5, StaysAt DEF jobVars
  <2>2. \A x : Good(x) => x # g
    BY <1>5 DEF Good
  <2>3. \A x : Good(x) => (Ahead("inc", x, g, p) <=> Ahead("order", x, g, p))
    BY <1>3, <2>2, AheadAt
  <2>4. GoesOn(t, "inc", g, p)
    BY <1>1, <2>3, WithinJob
  <2> QED
    BY <2>1, <2>4 DEF Labels
<1>6. CASE Misplaced(g) # {} /\ ~Unordered(g, n) /\ IncFrom(t, n)
  <2>1. n \in Misplaced(g) /\ n \in 0..num_gates - 1
    <3>1. Misplaced(g) \subseteq 1..num_gates - 1
      BY DEF Misplaced
    <3>2. Misplaced(g) \subseteq Nat
      BY <3>1
    <3>3. n \in Misplaced(g)
      BY <1>6, <3>2, LeastIsLeast
    <3> QED
      BY <3>1, <3>3
  <2>2. NoneShares(g, n)
    BY <1>2, <2>1, MisplacedToo DEF NoneShares, Good
  <2>3. Moves(t, "inc", g, 2 * n + 1)
    BY <1>1, <1>6, IncFromMoves
  <2>4. GoesOn(t, "inc", g, 2 * n + 1)
    BY <1>1, <1>2, <2>1, <2>2, SkipsGate
  <2> QED
    BY <2>3, <2>4 DEF Labels
<1> QED
  BY <1>4, <1>5, <1>6 DEF CheckOrder

\* What Catalogue() skips has the constant gate, or the copy, in common.
LEMMA BadGateGoesOn ==
  ASSUME TypeInv, JobInv, NEW t \in Threads, SkipBadGate(t)
  PROVE  \E label \in Labels : \E h, q : Moves(t, label, h, q) /\ GoesOn(t, label, h, q)
<1> PICK g, bad : g = gate_inputs[t] /\ bad = BadGates(Network(g), num_inputs)
  OBVIOUS
<1> PICK n : n = Least(bad)
  OBVIOUS
<1>1. /\ pc[t] = "catalogue" /\ UNCHANGED <<round, gate_inputs>>
      /\ bad # {} /\ IncFrom(t, n)
  BY DEF SkipBadGate
<1>2. /\ round \in 1..Len(Work) + 1 /\ round <= Len(Work) /\ Wired(g)
      /\ num_gates \in Nat \ {0}
  BY <1>1, AtWork
<1>3. bad \subseteq 0..num_gates - 1
  BY <1>2, NetworkOfWiring, BadGatesAreGates
<1>4. n \in bad /\ n \in 0..num_gates - 1
  <2>1. bad \subseteq Nat
    BY <1>3
  <2>2. n \in bad
    BY <1>1, <2>1, LeastIsLeast
  <2> QED
    BY <1>3, <2>2
<1>5. NoneShares(g, n)
  <2> SUFFICES ASSUME NEW x, Good(x), \A r \in 0..2 * n + 1 : x[r] = g[r]
               PROVE  FALSE
    BY DEF NoneShares
  <2>1. Wired(x) /\ BadGates(Network(x), num_inputs) = {}
    BY DEF Good
  <2> QED
    BY <1>2, <1>4, <2>1, BadToo
<1>6. Moves(t, "inc", g, 2 * n + 1)
  BY <1>1, IncFromMoves
<1>7. GoesOn(t, "inc", g, 2 * n + 1)
  BY <1>1, <1>2, <1>4, <1>5, SkipsGate
<1> QED
  BY <1>6, <1>7 DEF Labels

\* When a job ends, nothing of it is still to come.
LEMMA JobDoneGoesOn ==
  ASSUME TypeInv, JobInv, NEW t \in Threads, JobDone(t)
  PROVE  \E label \in Labels : \E h, q : Moves(t, label, h, q) /\ GoesOn(t, label, h, q)
<1> PICK g, p : g = gate_inputs[t] /\ p = pos[t]
  OBVIOUS
<1>1. pc[t] = "inc" /\ p < 4
  BY DEF JobDone
<1>2. /\ round \in 1..Len(Work) + 1 /\ round <= Len(Work) /\ Wired(g) /\ p \in 0..Last
  BY <1>1, AtWork
<1>3. Moves(t, "idle", << >>, 0)
  BY DEF TypeInv, JobDone, EndJob, GoTo, Moves
<1>4. ASSUME NEW x, Good(x), JobOf(x) = JobOf(g)
      PROVE  ~Ahead("inc", x, g, p)
  <2>1. Wired(x)
    BY <1>4 DEF Good
  <2>2. ~Above(x, g, p)
    BY <1>1, <1>2, <1>4, <2>1, NotAboveJob
  <2> QED
    BY <2>2, AheadAt
<1>5. GoesOn(t, "idle", << >>, 0)
  BY <1>1, <1>4 DEF GoesOn, Pending
<1> QED
  BY <1>3, <1>5 DEF Labels

\* A source of place p is the last one, or its successor is a source of p, too.
LEMMA LastSource ==
  ASSUME num_inputs \in Nat, NEW p \in Nat, NEW old \in 0..num_inputs + (p \div 2) - 1
  PROVE  /\ old + 1 >= num_inputs + (p \div 2) =>
              \A new \in 0..num_inputs + (p \div 2) - 1 : ~ (new > old)
         /\ ~ (old + 1 >= num_inputs + (p \div 2)) =>
              old + 1 \in 0..num_inputs + (p \div 2) - 1
<1>1. num_inputs + (p \div 2) \in Int
  OBVIOUS
<1>2. \A limit \in Int : \A k \in 0..limit - 1 :
        /\ k + 1 >= limit => \A new \in 0..limit - 1 : ~ (new > k)
        /\ ~ (k + 1 >= limit) => k + 1 \in 0..limit - 1
  OBVIOUS
<1> QED
  BY <1>1, <1>2

\* The increment goes to the next wiring, or to a place before it where it has a
\* repeated gate or a double negation.
LEMMA IncrementGoesOn ==
  ASSUME TypeInv, JobInv, NEW t \in Threads, Increment(t)
  PROVE  \E label \in Labels : \E h, q : Moves(t, label, h, q) /\ GoesOn(t, label, h, q)
<1> PICK g, p : g = gate_inputs[t] /\ p = pos[t]
  OBVIOUS
<1>0. PICK s : s = g[p] + 1
  OBVIOUS
<1>1. pc[t] = "inc" /\ p >= 4 /\ round' = round
  BY DEF Increment
<1>2. /\ round \in 1..Len(Work) + 1 /\ round <= Len(Work) /\ p \in 0..Last /\ Wired(g)
      /\ num_inputs \in Nat \ {0} /\ num_gates \in Nat \ {0} /\ Last \in Nat
  BY <1>1, AtWork
<1>3. CASE s >= num_inputs + (p \div 2)
  <2>1. GoTo(t, "wraps") /\ UNCHANGED jobVars
    BY <1>0, <1>3 DEF Increment
  <2>2. Moves(t, "wraps", g, p)
    BY <1>1, <2>1, StaysAt
  <2>3. ASSUME NEW x, Good(x)
        PROVE  Above(x, g, p - 1) <=> Above(x, g, p)
    <3>1. ~ (x[p] > g[p])
      <4>1. /\ x[p] \in 0..num_inputs + (p \div 2) - 1
            /\ g[p] \in 0..num_inputs + (p \div 2) - 1
        <5>1. Wired(x) /\ Wired(g) /\ p \in 0..Last
          BY <1>2, <2>3 DEF Good
        <5> QED
          BY <5>1 DEF Wired
      <4>a. num_inputs \in Nat /\ p \in Nat
        BY <1>2
      <4>2. g[p] + 1 >= num_inputs + (p \div 2)
        BY <1>0, <1>3
      <4>3. \A new \in 0..num_inputs + (p \div 2) - 1 : ~ (new > g[p])
        BY <4>1, <4>a, <4>2, LastSource
      <4> QED
        BY <4>1, <4>3
    <3>2. \A q \in 0..p : q = p \/ q \in 0..p - 1
      BY <1>2
    <3>3. \A q \in 0..p - 1 : q \in 0..p
      BY <1>2
    <3> QED
      BY <3>1, <3>2, <3>3 DEF Above
  <2>4. \A x : Good(x) => (Ahead("wraps", x, g, p) <=> Ahead("inc", x, g, p))
    BY <2>3, AheadAt
  <2>5. GoesOn(t, "wraps", g, p)
    BY <1>1, <2>4, WithinJob
  <2> QED
    BY <2>2, <2>5 DEF Labels
<1>4. CASE ~ (s >= num_inputs + (p \div 2))
  <2>1. PICK h : h = Reset(g, p, s)
    OBVIOUS
  <2>2. /\ gate_inputs' = [gate_inputs EXCEPT ![t] = h]
        /\ \/ HasDuplicates(h) /\ pos' = [pos EXCEPT ![t] = Last] /\ GoTo(t, "inc")
           \/ ~HasDuplicates(h) /\ NotNots(h) # {} /\ IncFrom(t, Least(NotNots(h)))
           \/ ~HasDuplicates(h) /\ NotNots(h) = {} /\ pos' = [pos EXCEPT ![t] = Last]
              /\ GoTo(t, "unused")
    BY <1>0, <1>4, <2>1 DEF Increment
  <2>3. Wired(h)
    <3>1. g[p] \in 0..num_inputs + (p \div 2) - 1
      BY <1>2 DEF Wired
    <3>2. s \in 0..num_inputs + (p \div 2) - 1
      <4>1. num_inputs \in Nat /\ p \in Nat
        BY <1>2
      <4>2. ~ (g[p] + 1 >= num_inputs + (p \div 2))
        BY <1>0, <1>4
      <4>3. g[p] + 1 \in 0..num_inputs + (p \div 2) - 1
        BY <3>1, <4>1, <4>2, LastSource
      <4> QED
        BY <1>0, <4>3
    <3> QED
      BY <1>2, <2>1, <3>2, ResetFits
  <2>4. JobOf(h) = JobOf(g)
    <3>1. \A q \in 0..Last : q < 4 => q < p
      BY <1>1, <1>2
    <3>2. \A q \in 0..Last : q < 4 => h[q] = g[q]
      BY <2>1, <3>1 DEF Reset
    <3> QED
      BY <1>2, <3>2, SameJob
  <2>5. \A x : Good(x) => (Ahead("inc", x, g, p) <=> x = h \/ Above(x, h, Last))
    <3>1. \A x : Good(x) => (Above(x, g, p) <=> x = h \/ Above(x, h, Last))
      BY <1>0, <1>2, <2>1, <2>3, ResetComes
    <3> QED
      BY <3>1, AheadAt
  <2>6. Last \in 0..Last
    BY <1>2
  <2>7. CASE HasDuplicates(h) /\ pos' = [pos EXCEPT ![t] = Last] /\ GoTo(t, "inc")
    <3>1. Moves(t, "inc", h, Last)
      BY <1>1, <2>2, <2>7 DEF TypeInv, GoTo, Moves
    <3>2. \A x : Good(x) => x # h
      BY <2>7 DEF Good
    <3>3. \A x : Good(x) => (Ahead("inc", x, h, Last) <=> Ahead("inc", x, g, p))
      BY <2>5, <3>2, AheadAt
    <3>4. GoesOn(t, "inc", h, Last)
      BY <1>1, <2>4, <3>3, WithinJob
    <3> QED
      BY <3>1, <3>4 DEF Labels
  <2>8. CASE NotNots(h) # {} /\ IncFrom(t, Least(NotNots(h)))
    <3> PICK n, k : n = Least(NotNots(h)) /\ k = 2 * n + 1
      OBVIOUS
    <3>1. NotNots(h) \subseteq 1..num_gates - 1
      BY DEF NotNots
    <3>2. n \in NotNots(h)
      <4>1. NotNots(h) \subseteq Nat
        BY <3>1
      <4> QED
        BY <2>8, <4>1, LeastIsLeast
    <3>3. n \in 0..num_gates - 1
      BY <3>1, <3>2
    <3>4. k \in 0..Last
      BY <1>2, <3>3, PlacesOfGate
    <3>5. Moves(t, "inc", h, k)
      BY <1>1, <2>2, <2>8 DEF TypeInv, IncFrom, GoTo, Moves
    <3>6. ASSUME NEW x, Good(x)
          PROVE  x = h \/ Above(x, h, Last) <=> Above(x, h, k)
      <4>1. Wired(x) /\ NotNots(x) = {}
        BY <3>6 DEF Good
      <4>2. ~ \A r \in 0..k : x[r] = h[r]
        BY <1>2, <2>3, <3>2, <4>1, NotNotToo
      <4> QED
        BY <1>2, <2>3, <3>4, <4>1, <4>2, SkipTo
    <3>7. \A x : Good(x) => (Ahead("inc", x, h, k) <=> Ahead("inc", x, g, p))
      BY <2>5, <3>6, AheadAt
    <3>8. GoesOn(t, "inc", h, k)
      BY <1>1, <2>4, <3>7, WithinJob
    <3> QED
      BY <3>5, <3>8 DEF Labels
  <2>9. CASE ~HasDuplicates(h) /\ NotNots(h) = {} /\ pos' = [pos EXCEPT ![t] = Last]
             /\ GoTo(t, "unused")
    <3>1. Moves(t, "unused", h, Last)
      BY <1>1, <2>2, <2>9 DEF TypeInv, GoTo, Moves
    <3>2. \A x : Good(x) => (Ahead("unused", x, h, Last) <=> Ahead("inc", x, g, p))
      BY <2>5, AheadAt
    <3>3. GoesOn(t, "unused", h, Last)
      BY <1>1, <2>4, <3>2, WithinJob
    <3> QED
      BY <3>1, <3>3 DEF Labels
  <2> QED
    BY <2>2, <2>7, <2>8, <2>9
<1> QED
  BY <1>3, <1>4

\* A place that wraps is set to 0; the one before it changes next.
LEMMA WrapGoesOn ==
  ASSUME TypeInv, JobInv, NEW t \in Threads, Wrap(t)
  PROVE  \E label \in Labels : \E h, q : Moves(t, label, h, q) /\ GoesOn(t, label, h, q)
<1> PICK g, p : g = gate_inputs[t] /\ p = pos[t]
  OBVIOUS
<1>1. pc[t] = "wraps" /\ round' = round
  BY DEF Wrap
<1>2. /\ round \in 1..Len(Work) + 1 /\ round <= Len(Work) /\ p \in 0..Last /\ Wired(g)
      /\ HereAt("wraps", g, p)
      /\ num_inputs \in Nat \ {0} /\ num_gates \in Nat \ {0} /\ Last \in Nat
  BY <1>1, AtWork
<1>3. p >= 4
  BY <1>2 DEF HereAt
<1>4. CASE p = 4
  <2>1. EndJob(t)
    BY <1>4 DEF Wrap
  <2>2. Moves(t, "idle", << >>, 0)
    BY <1>1, <2>1 DEF TypeInv, EndJob, GoTo, Moves
  <2>3. ASSUME NEW x, Good(x), JobOf(x) = JobOf(g)
        PROVE  ~Ahead("wraps", x, g, p)
    <3>1. Wired(x)
      BY <2>3 DEF Good
    <3>2. p - 1 \in 0..Last /\ p - 1 < 4
      BY <1>2, <1>4
    <3>3. ~Above(x, g, p - 1)
      BY <1>2, <2>3, <3>1, <3>2, NotAboveJob
    <3> QED
      BY <3>3, AheadAt
  <2>4. GoesOn(t, "idle", << >>, 0)
    BY <1>1, <2>3 DEF GoesOn, Pending
  <2> QED
    BY <2>2, <2>4 DEF Labels
<1>5. CASE p # 4
  <2>1. PICK h, q : h = [g EXCEPT ![p] = 0] /\ q = p - 1
    OBVIOUS
  <2>2. /\ gate_inputs' = [gate_inputs EXCEPT ![t] = h]
        /\ pos' = [pos EXCEPT ![t] = q] /\ GoTo(t, "inc")
    BY <1>5, <2>1 DEF Wrap
  <2>3. \A r \in 0..q : r \in 0..Last /\ h[r] = g[r]
    <3>1. DOMAIN g = 0..Last
      BY <1>2 DEF Wired
    <3>2. \A r \in 0..q : r \in 0..Last /\ r # p
      BY <1>2, <2>1
    <3> QED
      BY <2>1, <3>1, <3>2
  <2>4. Moves(t, "inc", h, q)
    BY <1>1, <2>2 DEF TypeInv, GoTo, Moves
  <2>5. JobOf(h) = JobOf(g)
    <3>1. \A r \in 0..Last : r < 4 => r \in 0..q
      BY <1>2, <1>3, <1>5, <2>1
    <3>2. \A r \in 0..Last : r < 4 => h[r] = g[r]
      BY <2>3, <3>1
    <3> QED
      BY <1>2, <3>2, SameJob
  <2>6. ASSUME NEW x
        PROVE  Above(x, h, q) <=> Above(x, g, q)
    <3>1. \A r \in 0..q : \A m \in 0..r - 1 : m \in 0..q
      BY <1>2, <2>1
    <3> QED
      BY <2>3, <3>1 DEF Above
  <2>7. \A x : Good(x) => (Ahead("inc", x, h, q) <=> Ahead("wraps", x, g, p))
    BY <2>1, <2>6, AheadAt
  <2>8. GoesOn(t, "inc", h, q)
    BY <1>1, <2>5, <2>7, WithinJob
  <2> QED
    BY <2>4, <2>8 DEF Labels
<1> QED
  BY <1>4, <1>5
-----------------------------------------------------------------------------
\* The books: what is still to come and what is stored.

\* A wiring is still to come in a job that was not handed out yet, or for the
\* thread that has its job.
Open(x) ==
  \/ JobOf(x) \in jobs
  \/ \E t \in Threads : Pending(x, pc[t], gate_inputs[t], pos[t])

\* Its network was stored in this run.
Booked(x) ==
  \E t \in handles : \E r \in 1..Len(files[round][t]) : files[round][t][r] = Network(x)

\* No job is worked on twice, or before it is handed out.
JobsApart ==
  \A t \in Threads : pc[t] # "idle" =>
    /\ JobOf(gate_inputs[t]) \in Jobs(round) \ jobs
    /\ \A u \in Threads \ {t} : pc[u] # "idle" => JobOf(gate_inputs[u]) # JobOf(gate_inputs[t])

\* Every good wiring is either still to come or stored.
Balanced == \A x : Good(x) => (Open(x) <=> ~Booked(x))

\* No network is stored twice.
Once ==
  \A t, u \in handles : \A r \in 1..Len(files[round][t]), s \in 1..Len(files[round][u]) :
    files[round][t][r] = files[round][u][s] => t = u /\ r = s
\* Each record is the network of a good wiring.
AreGood ==
  \A t \in handles : \A r \in 1..Len(files[round][t]) :
    \E x : Good(x) /\ files[round][t][r] = Network(x)

\* The first run finds no files.
Fresh ==
  restarts = 0 =>
    \A w \in 1..Len(Work), t \in Threads :
      w > round \/ (w = round /\ t \notin handles) => files[w][t] = << >>

\* The books are in order.
LedgerInv ==
  /\ round <= Len(Work) => JobsApart /\ Balanced /\ Once /\ AreGood
  /\ Fresh

\* What a wiring is depends on the round only.
LEMMA GoodKept ==
  ASSUME round' = round, NEW x
  PROVE  /\ Good(x)' <=> Good(x)
         /\ JobOf(x)' = JobOf(x)
         /\ Network(x)' = Network(x)
<1>1. num_inputs' = num_inputs /\ num_gates' = num_gates /\ Last' = Last
  BY DEF num_inputs, num_gates, Last
<1>2. Network(x)' = Network(x)
  BY <1>1 DEF Network
<1>3. JobOf(x)' = JobOf(x)
  BY <1>1 DEF JobOf
<1>4. (JobOf(x) \in Jobs(round))' <=> JobOf(x) \in Jobs(round)
  BY <1>3
<1>5. Wired(x)' <=> Wired(x)
  BY <1>1 DEF Wired
<1>6. HasDuplicates(x)' <=> HasDuplicates(x)
  BY <1>1 DEF HasDuplicates
<1>7. Unused(x)' = Unused(x)
  BY <1>1 DEF Unused, Inputs
<1>8. Misplaced(x)' = Misplaced(x)
  BY <1>1 DEF Misplaced, Swappable
<1>9. NotNots(x)' = NotNots(x)
  BY <1>1 DEF NotNots
<1>10. (BadGates(Network(x), num_inputs) = {})' <=> BadGates(Network(x), num_inputs) = {}
  BY <1>1, <1>2
<1> QED
  BY <1>2, <1>3, <1>4, <1>5, <1>6, <1>7, <1>8, <1>9, <1>10 DEF Good

\* So does what is still to come for a thread at a given place.
LEMMA PendingKept ==
  ASSUME round' = round, NEW x, NEW label, NEW g, NEW p
  PROVE  Pending(x, label, g, p)' <=> Pending(x, label, g, p)
<1>1. Last' = Last
  BY DEF Last, num_gates
<1>2. JobOf(x)' = JobOf(x) /\ JobOf(g)' = JobOf(g)
  BY GoodKept
<1>3. Ahead(label, x, g, p)' <=> Ahead(label, x, g, p)
  BY <1>1 DEF Ahead
<1> QED
  BY <1>2, <1>3 DEF Pending

\* What is still to come after a step of thread t.
LEMMA OpenAfter ==
  ASSUME TypeInv, NEW t \in Threads, NEW label, NEW h, NEW q, Moves(t, label, h, q), NEW x
  PROVE  Open(x)' <=> \/ JobOf(x) \in jobs'
                      \/ Pending(x, label, h, q)
                      \/ \E u \in Threads \ {t} : Pending(x, pc[u], gate_inputs[u], pos[u])
<1>1. /\ round' = round
      /\ pc'[t] = label /\ gate_inputs'[t] = h /\ pos'[t] = q
      /\ \A u \in Threads \ {t} :
           pc'[u] = pc[u] /\ gate_inputs'[u] = gate_inputs[u] /\ pos'[u] = pos[u]
  BY DEF TypeInv, Moves
<1>2. Open(x)' <=> \/ JobOf(x) \in jobs'
                   \/ \E u \in Threads : Pending(x, pc[u], gate_inputs[u], pos[u])'
  BY <1>1, GoodKept DEF Open
<1>3. Pending(x, pc[t], gate_inputs[t], pos[t])' <=> Pending(x, label, h, q)
  <2>1. Pending(x, label, h, q)' <=> Pending(x, label, h, q)
    BY <1>1, PendingKept
  <2> QED
    BY <1>1, <2>1
<1>4. ASSUME NEW u \in Threads \ {t}
      PROVE  Pending(x, pc[u], gate_inputs[u], pos[u])'
               <=> Pending(x, pc[u], gate_inputs[u], pos[u])
  <2> PICK l, g, p : l = pc[u] /\ g = gate_inputs[u] /\ p = pos[u]
    OBVIOUS
  <2>1. Pending(x, l, g, p)' <=> Pending(x, l, g, p)
    BY <1>1, PendingKept
  <2>2. l = pc'[u] /\ g = gate_inputs'[u] /\ p = pos'[u]
    BY <1>1
  <2> QED
    BY <2>1, <2>2
<1> QED
  BY <1>2, <1>3, <1>4

\* The jobs stay apart if the one that thread t has now is no other thread's.
LEMMA ApartAfter ==
  ASSUME TypeInv, JobsApart, NEW t \in Threads, NEW label, NEW h, NEW q, Moves(t, label, h, q),
         jobs' \subseteq jobs,
         label # "idle" =>
           /\ JobOf(h) \in Jobs(round) \ jobs'
           /\ \A u \in Threads \ {t} : pc[u] # "idle" => JobOf(gate_inputs[u]) # JobOf(h)
  PROVE  JobsApart'
<1>1. /\ round' = round
      /\ pc'[t] = label /\ gate_inputs'[t] = h
      /\ \A u \in Threads \ {t} : pc'[u] = pc[u] /\ gate_inputs'[u] = gate_inputs[u]
  BY DEF TypeInv, Moves
<1> DEFINE job(u) == JobOf(gate_inputs[u])
<1>2. job(t)' = JobOf(h)
  <2>1. JobOf(h)' = JobOf(h)
    BY <1>1, GoodKept
  <2> QED
    BY <1>1, <2>1
<1>3. ASSUME NEW u \in Threads \ {t}
      PROVE  job(u)' = job(u)
  <2> PICK g : g = gate_inputs[u]
    OBVIOUS
  <2>1. JobOf(g)' = JobOf(g) /\ g = gate_inputs'[u]
    BY <1>1, GoodKept
  <2> QED
    BY <2>1
<1>4. \A u \in Threads \ {t} : pc[u] # "idle" =>
        /\ job(u) \in Jobs(round) \ jobs
        /\ \A v \in Threads \ {u} : pc[v] # "idle" => job(v) # job(u)
  BY DEF JobsApart
<1> SUFFICES ASSUME NEW u \in Threads, pc'[u] # "idle"
             PROVE  /\ job(u)' \in Jobs(round)' \ jobs'
                    /\ \A v \in Threads \ {u} : pc'[v] # "idle" => job(v)' # job(u)'
  BY DEF JobsApart
<1> HIDE DEF job
<1>5. CASE u = t
  BY <1>1, <1>2, <1>3, <1>5 DEF job
<1>6. CASE u # t
  <2>1. pc[u] # "idle" /\ job(u)' = job(u) /\ job(u) \in Jobs(round) \ jobs
    BY <1>1, <1>3, <1>4, <1>6
  <2>2. ASSUME NEW v \in Threads \ {u}, pc'[v] # "idle"
        PROVE  job(v)' # job(u)'
    <3>1. CASE v = t
      BY <1>1, <1>2, <1>6, <2>1, <2>2, <3>1 DEF job
    <3>2. CASE v # t
      BY <1>1, <1>3, <1>4, <1>6, <2>1, <2>2, <3>2
    <3> QED
      BY <3>1, <3>2
  <2> QED
    BY <1>1, <2>1, <2>2
<1> QED
  BY <1>5, <1>6

\* The files of the round are what they were.
LEMMA BooksKept ==
  ASSUME round' = round, UNCHANGED <<handles, files>>
  PROVE  /\ \A x : Booked(x)' <=> Booked(x)
         /\ Once => Once'
         /\ AreGood => AreGood'
<1>1. ASSUME NEW x
      PROVE  Booked(x)' <=> Booked(x)
  <2>1. Network(x)' = Network(x)
    BY GoodKept
  <2> QED
    BY <2>1 DEF Booked
<1>2. Once => Once'
  BY DEF Once
<1>3. AreGood => AreGood'
  <2> SUFFICES ASSUME AreGood, NEW t \in handles, NEW r \in 1..Len(files[round][t])
               PROVE  \E x : Good(x)' /\ files[round][t][r] = Network(x)'
    BY DEF AreGood
  <2>1. PICK x : Good(x) /\ files[round][t][r] = Network(x)
    BY DEF AreGood
  <2> QED
    BY <2>1, GoodKept
<1> QED
  BY <1>1, <1>2, <1>3

\* No file is written to.
LEMMA FreshKept ==
  ASSUME Fresh, UNCHANGED <<round, handles, files, restarts>>
  PROVE  Fresh'
BY DEF Fresh

\* A step that leaves the files alone and goes on with its job.
LEMMA GoesOnKeeps ==
  ASSUME TypeInv, round <= Len(Work), JobsApart, Balanced,
         NEW t \in Threads, NEW label, NEW h, NEW q,
         Moves(t, label, h, q), GoesOn(t, label, h, q), pc[t] # "idle",
         UNCHANGED <<jobs, handles, files>>
  PROVE  JobsApart' /\ Balanced'
<1>1. round' = round
  BY DEF Moves
<1>2. JobsApart'
  <2>1. label # "idle" =>
           /\ JobOf(h) \in Jobs(round) \ jobs
           /\ \A u \in Threads \ {t} : pc[u] # "idle" => JobOf(gate_inputs[u]) # JobOf(h)
    BY DEF GoesOn, JobsApart
  <2> QED
    BY <2>1, ApartAfter
<1>3. ASSUME NEW x, Good(x)
      PROVE  Open(x)' <=> Open(x)
  <2>1. Open(x)' <=> \/ JobOf(x) \in jobs'
                     \/ Pending(x, label, h, q)
                     \/ \E u \in Threads \ {t} : Pending(x, pc[u], gate_inputs[u], pos[u])
    BY OpenAfter
  <2>2. Open(x) <=> \/ JobOf(x) \in jobs
                    \/ Pending(x, pc[t], gate_inputs[t], pos[t])
                    \/ \E u \in Threads \ {t} : Pending(x, pc[u], gate_inputs[u], pos[u])
    BY DEF Open
  <2>3. Pending(x, label, h, q) <=> Pending(x, pc[t], gate_inputs[t], pos[t])
    BY <1>3 DEF GoesOn
  <2> QED
    BY <2>1, <2>2, <2>3
<1>4. Balanced'
  <2> SUFFICES ASSUME NEW x, Good(x)'
               PROVE  Open(x)' <=> ~Booked(x)'
    BY DEF Balanced
  <2>1. Good(x)
    BY <1>1, GoodKept
  <2>2. Booked(x)' <=> Booked(x)
    BY <1>1, BooksKept
  <2> QED
    BY <1>3, <2>1, <2>2 DEF Balanced
<1> QED
  BY <1>2, <1>4

\* A job that is handed out is still to come, all of it.
LEMMA TakeJobKeepsBooks ==
  ASSUME TypeInv, JobsApart, Balanced, NEW t \in Threads, TakeJob(t)
  PROVE  JobsApart' /\ Balanced'
<1>1. /\ round \in 1..Len(Work) + 1 /\ round <= Len(Work) /\ pc[t] = "idle"
      /\ UNCHANGED <<round, handles, files>>
  BY DEF TypeInv, TakeJob, Working, fileVars
<1>2. PICK job \in jobs : /\ jobs' = jobs \ {job}
                         /\ gate_inputs' = [gate_inputs EXCEPT ![t] = FirstWiring(job)]
  BY DEF TakeJob
<1>3. job \in Jobs(round)
  BY DEF TypeInv
<1>4. PICK h : h = FirstWiring(job)
  OBVIOUS
<1>5. Moves(t, "unused", h, Last)
  BY <1>2, <1>4 DEF TypeInv, TakeJob, GoTo, Moves
<1>6. /\ JobOf(h) = job
      /\ \A x : Good(x) /\ JobOf(x) = job => x = h \/ Above(x, h, Last)
  BY <1>1, <1>3, <1>4, FirstComes
<1>7. JobsApart'
  <2>1. \A u \in Threads \ {t} : pc[u] # "idle" => JobOf(gate_inputs[u]) # JobOf(h)
    BY <1>6 DEF JobsApart
  <2>2. JobOf(h) \in Jobs(round) \ jobs' /\ jobs' \subseteq jobs
    BY <1>2, <1>3, <1>6
  <2> QED
    BY <1>5, <2>1, <2>2, ApartAfter
<1>8. ASSUME NEW x, Good(x)
      PROVE  Open(x)' <=> Open(x)
  <2>1. Open(x)' <=> \/ JobOf(x) \in jobs'
                     \/ Pending(x, "unused", h, Last)
                     \/ \E u \in Threads \ {t} : Pending(x, pc[u], gate_inputs[u], pos[u])
    BY <1>5, OpenAfter
  <2>2. Open(x) <=> \/ JobOf(x) \in jobs
                    \/ \E u \in Threads \ {t} : Pending(x, pc[u], gate_inputs[u], pos[u])
    BY <1>1 DEF Open, Pending
  <2>3. Pending(x, "unused", h, Last) <=> JobOf(x) = job
    BY <1>6, <1>8, AheadAt DEF Pending
  <2> QED
    BY <1>2, <2>1, <2>2, <2>3
<1>9. Balanced'
  <2> SUFFICES ASSUME NEW x, Good(x)'
               PROVE  Open(x)' <=> ~Booked(x)'
    BY DEF Balanced
  <2>1. Good(x)
    BY <1>1, GoodKept
  <2>2. Booked(x)' <=> Booked(x)
    BY <1>1, BooksKept
  <2> QED
    BY <1>8, <2>1, <2>2 DEF Balanced
<1> QED
  BY <1>7, <1>9

\* The wiring that Catalogue() stores is a good one.
LEMMA StoredIsGood ==
  ASSUME TypeInv, JobInv, JobsApart, NEW t \in Threads, Record(t)
  PROVE  Good(gate_inputs[t])
<1>1. pc[t] = "catalogue" /\ BadGates(Network(gate_inputs[t]), num_inputs) = {}
  BY DEF Record
<1> PICK g : g = gate_inputs[t]
  OBVIOUS
<1>2. /\ round \in 1..Len(Work) + 1 /\ round <= Len(Work) /\ HereAt("catalogue", g, pos[t])
  BY <1>1, AtWork
<1>3. /\ Wired(g) /\ ~HasDuplicates(g) /\ NotNots(g) \subseteq {1}
      /\ Unused(g) = {} /\ Misplaced(g) = {}
  BY <1>2 DEF HereAt
<1>4. NotNots(g) = {}
  BY <1>1, <1>2, <1>3, DoubleNegationIsBad
<1>5. JobOf(g) \in Jobs(round)
  BY <1>1 DEF JobsApart
<1> QED
  BY <1>1, <1>3, <1>4, <1>5 DEF Good

\* Wirings with the same network are the same.
LEMMA NetworkTells ==
  ASSUME round \in 1..Len(Work) + 1, round <= Len(Work), NEW x, Wired(x), NEW g, Wired(g),
         Network(x) = Network(g)
  PROVE  x = g
<1>1. \A m \in 0..num_gates - 1 : Network(x)[m + 1] = <<x[2 * m], x[2 * m + 1]>>
  BY NetworkOfWiring
<1>2. \A m \in 0..num_gates - 1 : Network(g)[m + 1] = <<g[2 * m], g[2 * m + 1]>>
  BY NetworkOfWiring
<1>3. \A m \in 0..num_gates - 1 : x[2 * m] = g[2 * m] /\ x[2 * m + 1] = g[2 * m + 1]
  BY <1>1, <1>2
<1>4. ASSUME NEW q \in 0..Last
      PROVE  x[q] = g[q]
  <2> PICK m : m = q \div 2
    OBVIOUS
  <2>1. m \in 0..num_gates - 1
    BY GateOfPlace
  <2>2. q = 2 * m \/ q = 2 * m + 1
    BY GateOfPlace
  <2> QED
    BY <1>3, <2>1, <2>2
<1> QED
  BY <1>4, FirstDifference

\* A record is added to the file of the thread; the others stay.
LEMMA FilesAfter ==
  ASSUME TypeInv, NEW t \in Threads, Record(t)
  PROVE  \E last \in 1..Len(files'[round][t]) :
           /\ files'[round][t][last] = Network(gate_inputs[t])
           /\ \A u \in handles : \A r \in 1..Len(files[round][u]) :
                r \in 1..Len(files'[round][u]) /\ files'[round][u][r] = files[round][u][r]
           /\ \A u \in handles' : \A r \in 1..Len(files'[round][u]) :
                \/ u = t /\ r = last
                \/ /\ u \in handles /\ r \in 1..Len(files[round][u])
                   /\ files'[round][u][r] = files[round][u][r]
<1>1. PICK net, old : /\ net = Network(gate_inputs[t])
                      /\ old = IF t \in handles THEN files[round][t] ELSE << >>
  OBVIOUS
<1>2. round \in 1..Len(Work) /\ handles \subseteq Threads /\ handles' = handles \cup {t}
  BY RoundType DEF TypeInv, Record, Working
<1>3. files' = [files EXCEPT ![round][t] = Append(old, net)]
  BY <1>1 DEF Record
<1>4. files \in [1..Len(Work) -> [Threads -> Seq(Seq(Nat \X Nat))]]
  BY DEF TypeInv
<1>5. /\ files'[round][t] = Append(old, net)
      /\ \A u \in Threads : u # t => files'[round][u] = files[round][u]
  BY <1>2, <1>3, <1>4
<1>6. \E S : old \in Seq(S) /\ net \in S /\ Len(old) \in Nat
  <2> DEFINE S == Seq(Nat \X Nat) \cup {net}
  <2>1. files[round][t] \in Seq(Seq(Nat \X Nat))
    BY <1>2, <1>4
  <2>2. files[round][t] \in Seq(S)
    BY <2>1
  <2> HIDE DEF S
  <2>3. old \in Seq(S) /\ Len(old) \in Nat
    BY <1>1, <2>2
  <2> QED
    BY <2>3 DEF S
<1>7. /\ Len(old) \in Nat
      /\ Len(Append(old, net)) = Len(old) + 1
      /\ Append(old, net)[Len(old) + 1] = net
      /\ \A r \in 1..Len(old) : Append(old, net)[r] = old[r]
  BY <1>6
<1> PICK new, last : new = Append(old, net) /\ last = Len(old) + 1
  OBVIOUS
<1>8. /\ Len(old) \in Nat /\ Len(new) = Len(old) + 1 /\ new[last] = net
      /\ last \in 1..Len(new)
      /\ \A r \in 1..Len(old) : r \in 1..Len(new) /\ new[r] = old[r]
      /\ \A r \in 1..Len(new) : r = last \/ r \in 1..Len(old)
  BY <1>7
<1>9. /\ t \in handles => old = files[round][t]
      /\ t \notin handles => 1..Len(old) = {}
  BY <1>1
<1>10. \A u \in handles : \A r \in 1..Len(files[round][u]) :
         r \in 1..Len(files'[round][u]) /\ files'[round][u][r] = files[round][u][r]
  <2> TAKE u \in handles
  <2>1. CASE u = t
    BY <1>5, <1>8, <1>9, <2>1
  <2>2. CASE u # t
    BY <1>2, <1>5, <2>2
  <2> QED
    BY <2>1, <2>2
<1>11. \A u \in handles' : \A r \in 1..Len(files'[round][u]) :
         \/ u = t /\ r = last
         \/ /\ u \in handles /\ r \in 1..Len(files[round][u])
            /\ files'[round][u][r] = files[round][u][r]
  <2> TAKE u \in handles'
  <2> TAKE r \in 1..Len(files'[round][u])
  <2>1. CASE u = t
    BY <1>5, <1>8, <1>9, <2>1
  <2>2. CASE u # t
    BY <1>2, <1>5, <2>2
  <2> QED
    BY <2>1, <2>2
<1>12. last \in 1..Len(files'[round][t]) /\ files'[round][t][last] = Network(gate_inputs[t])
  BY <1>1, <1>5, <1>8
<1> QED
  BY <1>10, <1>11, <1>12

\* What a record does to the books: the wiring it is of has come, and is stored.
LEMMA RecordBooks ==
  ASSUME TypeInv, JobInv, JobsApart, Balanced, AreGood, NEW t \in Threads, Record(t),
         NEW x, Good(x)
  PROVE  /\ Booked(x)' <=> Booked(x) \/ x = gate_inputs[t]
         /\ Open(x)' <=> Open(x) /\ x # gate_inputs[t]
         /\ ~Booked(gate_inputs[t])
<1> PICK g : g = gate_inputs[t]
  OBVIOUS
<1>1. /\ pc[t] = "catalogue" /\ UNCHANGED <<round, jobs, gate_inputs, pos, restarts>>
      /\ handles' = handles \cup {t} /\ GoTo(t, "inc")
  BY DEF Record, jobVars
<1>2. /\ round \in 1..Len(Work) + 1 /\ round <= Len(Work) /\ HereAt("catalogue", g, pos[t])
      /\ Last \in Nat
  BY <1>1, AtWork
<1>3. pos[t] = Last /\ Last \in 0..Last /\ Wired(g)
  BY <1>2 DEF HereAt
<1>4. Good(g)
  BY StoredIsGood
<1>5. Moves(t, "inc", g, Last)
  BY <1>1, <1>3 DEF TypeInv, GoTo, Moves
<1>6. PICK last \in 1..Len(files'[round][t]) :
        /\ files'[round][t][last] = Network(g)
        /\ \A u \in handles : \A r \in 1..Len(files[round][u]) :
             r \in 1..Len(files'[round][u]) /\ files'[round][u][r] = files[round][u][r]
        /\ \A u \in handles' : \A r \in 1..Len(files'[round][u]) :
             \/ u = t /\ r = last
             \/ /\ u \in handles /\ r \in 1..Len(files[round][u])
                /\ files'[round][u][r] = files[round][u][r]
  BY FilesAfter
<1>7. Booked(x)' <=> Booked(x) \/ x = g
  <2>1. Booked(x)' <=> \E u \in handles' : \E r \in 1..Len(files'[round][u]) :
                         files'[round][u][r] = Network(x)
    <3>1. Network(x)' = Network(x)
      BY <1>1, GoodKept
    <3> QED
      BY <1>1, <3>1 DEF Booked
  <2>2. ASSUME NEW u \in handles', NEW r \in 1..Len(files'[round][u]),
               files'[round][u][r] = Network(x)
        PROVE  Booked(x) \/ x = g
    <3>1. CASE u = t /\ r = last
      <4>1. Network(x) = Network(g) /\ Wired(x)
        BY <1>6, <2>2, <3>1 DEF Good
      <4>2. x = g
        BY <1>2, <1>3, <4>1, NetworkTells
      <4> QED
        BY <4>2
    <3>2. CASE /\ u \in handles /\ r \in 1..Len(files[round][u])
               /\ files'[round][u][r] = files[round][u][r]
      BY <2>2, <3>2 DEF Booked
    <3> QED
      BY <1>6, <3>1, <3>2
  <2>3. Booked(x) => Booked(x)'
    <3> SUFFICES ASSUME Booked(x)
                 PROVE  Booked(x)'
      OBVIOUS
    <3>1. PICK u \in handles : \E r \in 1..Len(files[round][u]) : files[round][u][r] = Network(x)
      BY DEF Booked
    <3>2. PICK r \in 1..Len(files[round][u]) : files[round][u][r] = Network(x)
      BY <3>1
    <3>3. u \in handles' /\ r \in 1..Len(files'[round][u]) /\ files'[round][u][r] = Network(x)
      BY <1>1, <1>6, <3>2
    <3> QED
      BY <2>1, <3>3
  <2>4. x = g => Booked(x)'
    <3>1. t \in handles'
      BY <1>1
    <3> QED
      BY <1>6, <2>1, <3>1
  <2> QED
    BY <2>1, <2>2, <2>3, <2>4
<1>8. /\ Pending(x, "catalogue", g, Last) <=> JobOf(x) = JobOf(g) /\ (x = g \/ Above(x, g, Last))
      /\ Pending(x, "inc", g, Last) <=> JobOf(x) = JobOf(g) /\ Above(x, g, Last)
  BY AheadAt DEF Pending
<1>9. /\ JobOf(g) \notin jobs
      /\ \A u \in Threads \ {t} : ~Pending(g, pc[u], gate_inputs[u], pos[u])
      /\ ~Above(g, g, Last)
  <2>1. JobOf(g) \notin jobs
    BY <1>1 DEF JobsApart
  <2>2. ASSUME NEW u \in Threads \ {t}
        PROVE  ~Pending(g, pc[u], gate_inputs[u], pos[u])
    <3>1. pc[u] # "idle" => JobOf(gate_inputs[u]) # JobOf(g)
      BY <1>1 DEF JobsApart
    <3> QED
      BY <3>1 DEF Pending
  <2>3. ~Above(g, g, Last)
    BY <1>2, <1>3, NotAboveItself
  <2> QED
    BY <2>1, <2>2, <2>3
<1>10. Open(x)' <=> \/ JobOf(x) \in jobs
                    \/ Pending(x, "inc", g, Last)
                    \/ \E u \in Threads \ {t} : Pending(x, pc[u], gate_inputs[u], pos[u])
  <2>1. Open(x)' <=> \/ JobOf(x) \in jobs'
                     \/ Pending(x, "inc", g, Last)
                     \/ \E u \in Threads \ {t} : Pending(x, pc[u], gate_inputs[u], pos[u])
    BY <1>5, OpenAfter
  <2> QED
    BY <1>1, <2>1
<1>11. Open(x) <=> \/ JobOf(x) \in jobs
                   \/ Pending(x, "catalogue", g, Last)
                   \/ \E u \in Threads \ {t} : Pending(x, pc[u], gate_inputs[u], pos[u])
  <2>1. Pending(x, pc[t], gate_inputs[t], pos[t]) <=> Pending(x, "catalogue", g, Last)
    BY <1>1, <1>3
  <2> QED
    BY <2>1 DEF Open
<1>12. Open(x)' <=> Open(x) /\ x # g
  <2>1. CASE x = g
    BY <1>8, <1>9, <1>10, <2>1
  <2>2. CASE x # g
    BY <1>8, <1>10, <1>11, <2>2
  <2> QED
    BY <2>1, <2>2
<1>13. ~Booked(g)
  <2>1. Pending(g, pc[t], gate_inputs[t], pos[t])
    BY <1>1, <1>3, AheadAt DEF Pending
  <2>2. Open(g)
    BY <2>1 DEF Open
  <2> QED
    BY <1>4, <2>2 DEF Balanced
<1> QED
  BY <1>7, <1>12, <1>13

\* So a record leaves the books in order.
LEMMA RecordKeepsBooks ==
  ASSUME TypeInv, JobInv, JobsApart, Balanced, Once, AreGood, NEW t \in Threads, Record(t)
  PROVE  JobsApart' /\ Balanced' /\ Once' /\ AreGood'
<1> PICK g : g = gate_inputs[t]
  OBVIOUS
<1>1. /\ pc[t] = "catalogue" /\ UNCHANGED <<round, jobs, gate_inputs, pos, restarts>>
      /\ handles' = handles \cup {t} /\ GoTo(t, "inc")
  BY DEF Record, jobVars
<1>2. Moves(t, "inc", g, pos[t])
  BY <1>1 DEF TypeInv, GoTo, Moves
<1>3. Good(g)
  BY StoredIsGood
<1>4. JobsApart'
  <2>1. /\ JobOf(g) \in Jobs(round) \ jobs
        /\ \A u \in Threads \ {t} : pc[u] # "idle" => JobOf(gate_inputs[u]) # JobOf(g)
    BY <1>1 DEF JobsApart
  <2> QED
    BY <1>1, <1>2, <2>1, ApartAfter
<1>5. \A x : Good(x) =>
        /\ Booked(x)' <=> Booked(x) \/ x = g
        /\ Open(x)' <=> Open(x) /\ x # g
  BY RecordBooks
<1>6. ~Booked(g)
  BY <1>3, RecordBooks
<1>7. Balanced'
  <2> SUFFICES ASSUME NEW x, Good(x)'
               PROVE  Open(x)' <=> ~Booked(x)'
    BY DEF Balanced
  <2>1. Good(x)
    BY <1>1, GoodKept
  <2>2. Open(x) <=> ~Booked(x)
    BY <2>1 DEF Balanced
  <2>3. Booked(x)' <=> Booked(x) \/ x = g
    BY <1>5, <2>1
  <2>4. Open(x)' <=> Open(x) /\ x # g
    BY <1>5, <2>1
  <2>5. x = g => ~Booked(x)
    BY <1>6
  <2> QED
    BY <2>2, <2>3, <2>4, <2>5
<1>8. PICK last \in 1..Len(files'[round][t]) :
        /\ files'[round][t][last] = Network(g)
        /\ \A u \in handles : \A r \in 1..Len(files[round][u]) :
             r \in 1..Len(files'[round][u]) /\ files'[round][u][r] = files[round][u][r]
        /\ \A u \in handles' : \A r \in 1..Len(files'[round][u]) :
             \/ u = t /\ r = last
             \/ /\ u \in handles /\ r \in 1..Len(files[round][u])
                /\ files'[round][u][r] = files[round][u][r]
  BY FilesAfter
<1>9. Once'
  <2>a. round' = round
    BY <1>1
  <2> SUFFICES ASSUME NEW u \in handles', NEW v \in handles',
                      NEW r \in 1..Len(files'[round][u]), NEW s \in 1..Len(files'[round][v]),
                      files'[round][u][r] = files'[round][v][s]
               PROVE  u = v /\ r = s
    BY <2>a DEF Once
  <2>1. \A w \in handles : \A q \in 1..Len(files[round][w]) : files[round][w][q] # Network(g)
    BY <1>6 DEF Booked
  <2>2. CASE u = t /\ r = last
    BY <1>8, <2>1, <2>2
  <2>3. CASE v = t /\ s = last
    BY <1>8, <2>1, <2>3
  <2>4. CASE ~ (u = t /\ r = last) /\ ~ (v = t /\ s = last)
    <3>1. /\ u \in handles /\ r \in 1..Len(files[round][u])
          /\ files'[round][u][r] = files[round][u][r]
      BY <1>8, <2>4
    <3>2. /\ v \in handles /\ s \in 1..Len(files[round][v])
          /\ files'[round][v][s] = files[round][v][s]
      BY <1>8, <2>4
    <3>3. files[round][u][r] = files[round][v][s]
      BY <3>1, <3>2
    <3>4. \A a \in 1..Len(files[round][u]), b \in 1..Len(files[round][v]) :
            files[round][u][a] = files[round][v][b] => u = v /\ a = b
      BY <3>1, <3>2 DEF Once
    <3> QED
      BY <3>1, <3>2, <3>3, <3>4
  <2> QED
    BY <2>2, <2>3, <2>4
<1>10. AreGood'
  <2> SUFFICES ASSUME NEW u \in handles', NEW r \in 1..Len(files'[round][u])
               PROVE  \E x : Good(x)' /\ files'[round][u][r] = Network(x)'
    BY <1>1 DEF AreGood
  <2>1. \E x : Good(x) /\ files'[round][u][r] = Network(x)
    <3>1. CASE u = t /\ r = last
      BY <1>3, <1>8, <3>1
    <3>2. CASE /\ u \in handles /\ r \in 1..Len(files[round][u])
               /\ files'[round][u][r] = files[round][u][r]
      BY <3>2 DEF AreGood
    <3> QED
      BY <1>8, <3>1, <3>2
  <2>2. PICK x : Good(x) /\ files'[round][u][r] = Network(x)
    BY <2>1
  <2>3. Good(x)' /\ Network(x)' = Network(x)
    BY <1>1, <2>2, GoodKept
  <2> QED
    BY <2>2, <2>3
<1> QED
  BY <1>4, <1>7, <1>9, <1>10

\* Only the file of the thread is added to.
LEMMA RecordKeepsFresh ==
  ASSUME TypeInv, Fresh, NEW t \in Threads, Record(t)
  PROVE  Fresh'
<1>1. UNCHANGED <<round, restarts>> /\ handles' = handles \cup {t}
  BY DEF Record
<1>2. \E new : files' = [files EXCEPT ![round][t] = new]
  BY DEF Record
<1>3. \A w \in 1..Len(Work), u \in Threads : u # t \/ w # round => files'[w][u] = files[w][u]
  <2>1. PICK new : files' = [files EXCEPT ![round][t] = new]
    BY <1>2
  <2>2. files \in [1..Len(Work) -> [Threads -> Seq(Seq(Nat \X Nat))]]
    BY DEF TypeInv
  <2> QED
    BY <2>1, <2>2
<1> SUFFICES ASSUME restarts = 0, NEW w \in 1..Len(Work), NEW u \in Threads,
                    w > round \/ (w = round /\ u \notin handles')
             PROVE  files'[w][u] = << >>
  BY <1>1 DEF Fresh
<1>4. u # t \/ w # round
  <2>1. round \in Int /\ w \in Int
    BY WorkAssumption DEF TypeInv
  <2> QED
    BY <1>1, <2>1
<1>5. files[w][u] = << >>
  BY <1>1 DEF Fresh
<1> QED
  BY <1>3, <1>4, <1>5

\* A step that changes nothing that the ledger is about.
LEMMA StillKeepsBooks ==
  ASSUME LedgerInv, UNCHANGED <<round, jobs, pc, gate_inputs, pos, handles, files, restarts>>
  PROVE  LedgerInv'
<1>1. Fresh'
  BY FreshKept DEF LedgerInv
<1>2. ASSUME round <= Len(Work)
      PROVE  JobsApart' /\ Balanced' /\ Once' /\ AreGood'
  <2>1. JobsApart /\ Balanced /\ Once /\ AreGood
    BY <1>2 DEF LedgerInv
  <2>2. Once' /\ AreGood' /\ \A x : Booked(x)' <=> Booked(x)
    BY <2>1, BooksKept
  <2>3. ASSUME NEW u \in Threads
        PROVE  JobOf(gate_inputs[u])' = JobOf(gate_inputs[u])
    <3> PICK g : g = gate_inputs[u]
      OBVIOUS
    <3>1. JobOf(g)' = JobOf(g) /\ g = gate_inputs'[u]
      BY GoodKept
    <3> QED
      BY <3>1
  <2>4. JobsApart'
    <3> DEFINE job(u) == JobOf(gate_inputs[u])
    <3>1. \A u \in Threads : job(u)' = job(u)
      BY <2>3
    <3>2. \A t \in Threads : pc[t] # "idle" =>
            /\ job(t) \in Jobs(round) \ jobs
            /\ \A u \in Threads \ {t} : pc[u] # "idle" => job(u) # job(t)
      BY <2>1 DEF JobsApart
    <3> SUFFICES ASSUME NEW t \in Threads, pc[t] # "idle"
                 PROVE  /\ job(t)' \in Jobs(round) \ jobs
                        /\ \A u \in Threads \ {t} : pc[u] # "idle" => job(u)' # job(t)'
      BY DEF JobsApart
    <3> HIDE DEF job
    <3> QED
      BY <3>1, <3>2
  <2>5. ASSUME NEW x
        PROVE  Open(x)' <=> Open(x)
    <3>1. ASSUME NEW u \in Threads
          PROVE  Pending(x, pc[u], gate_inputs[u], pos[u])'
                   <=> Pending(x, pc[u], gate_inputs[u], pos[u])
      <4> PICK l, g, p : l = pc[u] /\ g = gate_inputs[u] /\ p = pos[u]
        OBVIOUS
      <4>1. Pending(x, l, g, p)' <=> Pending(x, l, g, p)
        BY PendingKept
      <4>2. l = pc'[u] /\ g = gate_inputs'[u] /\ p = pos'[u]
        OBVIOUS
      <4> QED
        BY <4>1, <4>2
    <3>2. JobOf(x)' = JobOf(x)
      BY GoodKept
    <3> QED
      BY <3>1, <3>2 DEF Open
  <2>6. Balanced'
    <3> SUFFICES ASSUME NEW x, Good(x)'
                 PROVE  Open(x)' <=> ~Booked(x)'
      BY DEF Balanced
    <3>1. Good(x)
      BY GoodKept
    <3>2. Open(x) <=> ~Booked(x)
      BY <2>1, <3>1 DEF Balanced
    <3> QED
      BY <2>2, <2>5, <3>2
  <2> QED
    BY <2>2, <2>4, <2>6
<1> QED
  BY <1>1, <1>2 DEF LedgerInv

\* A step of a thread that goes on with its job and leaves the files alone.
LEMMA MovesKeepBooks ==
  ASSUME TypeInv, LedgerInv, NEW t \in Threads, pc[t] # "idle", round <= Len(Work),
         UNCHANGED <<round, jobs, handles, files, restarts>>,
         \E label \in Labels : \E h, q : Moves(t, label, h, q) /\ GoesOn(t, label, h, q)
  PROVE  LedgerInv'
<1>1. JobsApart /\ Balanced /\ Once /\ AreGood /\ Fresh
  BY DEF LedgerInv
<1>2. PICK label \in Labels : \E h, q : Moves(t, label, h, q) /\ GoesOn(t, label, h, q)
  OBVIOUS
<1>3. PICK h, q : Moves(t, label, h, q) /\ GoesOn(t, label, h, q)
  BY <1>2
<1>4. JobsApart' /\ Balanced'
  BY <1>1, <1>3, GoesOnKeeps
<1>5. Once' /\ AreGood'
  BY <1>1, BooksKept
<1>6. Fresh'
  BY <1>1, FreshKept
<1> QED
  BY <1>4, <1>5, <1>6 DEF LedgerInv

\* No step of a thread upsets the books.
LEMMA WorkerKeepsBooks ==
  ASSUME TypeInv, JobInv, LedgerInv, NEW t \in Threads, Worker(t)
  PROVE  LedgerInv'
<1>1. /\ round <= Len(Work) /\ UNCHANGED <<round, restarts>>
  BY DEF Worker, TakeJob, FixUnused, CheckOrder, SkipBadGate, Record, Abort, JobDone, Increment,
         Wrap, Working
<1>2. JobsApart /\ Balanced /\ Once /\ AreGood /\ Fresh
  BY <1>1 DEF LedgerInv
<1>3. CASE TakeJob(t)
  <2>1. UNCHANGED <<round, handles, files, restarts>>
    BY <1>3 DEF TakeJob, fileVars
  <2>2. JobsApart' /\ Balanced'
    BY <1>2, <1>3, TakeJobKeepsBooks
  <2>3. Once' /\ AreGood' /\ Fresh'
    BY <1>2, <2>1, BooksKept, FreshKept
  <2> QED
    BY <2>2, <2>3 DEF LedgerInv
<1>4. CASE Record(t)
  <2>1. JobsApart' /\ Balanced' /\ Once' /\ AreGood'
    BY <1>2, <1>4, RecordKeepsBooks
  <2>2. Fresh'
    BY <1>2, <1>4, RecordKeepsFresh
  <2> QED
    BY <2>1, <2>2 DEF LedgerInv
<1>5. CASE Abort(t)
  <2>1. UNCHANGED <<round, jobs, pc, gate_inputs, pos, handles, files, restarts>>
    BY <1>5 DEF Abort, jobVars, fileVars
  <2> QED
    BY <2>1, StillKeepsBooks
<1>6. CASE FixUnused(t)
  <2>1. pc[t] # "idle" /\ UNCHANGED <<round, jobs, handles, files, restarts>>
    BY <1>6 DEF FixUnused, fileVars
  <2>2. \E label \in Labels : \E h, q : Moves(t, label, h, q) /\ GoesOn(t, label, h, q)
    BY <1>6, UnusedGoesOn
  <2> QED
    BY <1>1, <2>1, <2>2, MovesKeepBooks
<1>7. CASE CheckOrder(t)
  <2>1. pc[t] # "idle" /\ UNCHANGED <<round, jobs, handles, files, restarts>>
    BY <1>7 DEF CheckOrder, fileVars
  <2>2. \E label \in Labels : \E h, q : Moves(t, label, h, q) /\ GoesOn(t, label, h, q)
    BY <1>7, OrderGoesOn
  <2> QED
    BY <1>1, <2>1, <2>2, MovesKeepBooks
<1>8. CASE SkipBadGate(t)
  <2>1. pc[t] # "idle" /\ UNCHANGED <<round, jobs, handles, files, restarts>>
    BY <1>8 DEF SkipBadGate, fileVars
  <2>2. \E label \in Labels : \E h, q : Moves(t, label, h, q) /\ GoesOn(t, label, h, q)
    BY <1>8, BadGateGoesOn
  <2> QED
    BY <1>1, <2>1, <2>2, MovesKeepBooks
<1>9. CASE JobDone(t)
  <2>1. pc[t] # "idle" /\ UNCHANGED <<round, jobs, handles, files, restarts>>
    BY <1>9 DEF JobDone, fileVars
  <2>2. \E label \in Labels : \E h, q : Moves(t, label, h, q) /\ GoesOn(t, label, h, q)
    BY <1>9, JobDoneGoesOn
  <2> QED
    BY <1>1, <2>1, <2>2, MovesKeepBooks
<1>10. CASE Increment(t)
  <2>1. pc[t] # "idle" /\ UNCHANGED <<round, jobs, handles, files, restarts>>
    BY <1>10 DEF Increment, fileVars
  <2>2. \E label \in Labels : \E h, q : Moves(t, label, h, q) /\ GoesOn(t, label, h, q)
    BY <1>10, IncrementGoesOn
  <2> QED
    BY <1>1, <2>1, <2>2, MovesKeepBooks
<1>11. CASE Wrap(t)
  <2>1. pc[t] # "idle" /\ UNCHANGED <<round, jobs, handles, files, restarts>>
    BY <1>11 DEF Wrap, fileVars
  <2>2. \E label \in Labels : \E h, q : Moves(t, label, h, q) /\ GoesOn(t, label, h, q)
    BY <1>11, WrapGoesOn
  <2> QED
    BY <1>1, <2>1, <2>2, MovesKeepBooks
<1> QED
  BY <1>3, <1>4, <1>5, <1>6, <1>7, <1>8, <1>9, <1>10, <1>11 DEF Worker

\* The start of a round: no job is handed out, no file is open.
NewRound == jobs = Jobs(round) /\ handles = {} /\ \A t \in Threads : pc[t] = "idle"

\* Then the books are in order: everything is still to come.
LEMMA BooksOpen == NewRound => JobsApart /\ Balanced /\ Once /\ AreGood
<1> SUFFICES ASSUME NewRound
             PROVE  JobsApart /\ Balanced /\ Once /\ AreGood
  OBVIOUS
<1>1. JobsApart
  BY DEF NewRound, JobsApart
<1>2. Once /\ AreGood
  BY DEF NewRound, Once, AreGood
<1>3. Balanced
  <2> SUFFICES ASSUME NEW x, Good(x)
               PROVE  Open(x) /\ ~Booked(x)
    BY DEF Balanced
  <2>1. Open(x)
    BY DEF NewRound, Open, Good
  <2>2. ~Booked(x)
    BY DEF NewRound, Booked
  <2> QED
    BY <2>1, <2>2
<1> QED
  BY <1>1, <1>2, <1>3

\* So are they after a step that begins a round.
LEMMA BooksOpenNext == NewRound' => JobsApart' /\ Balanced' /\ Once' /\ AreGood'
BY BooksOpen, PTL

\* The first round.
LEMMA InitLedgerInv == Init => LedgerInv
<1> SUFFICES ASSUME Init
             PROVE  LedgerInv
  OBVIOUS
<1>1. NewRound
  BY DEF Init, NewRound
<1>2. Fresh
  BY DEF Init, Fresh
<1> QED
  BY <1>1, <1>2, BooksOpen DEF LedgerInv

\* The rounds that follow: no file of theirs was written yet.
LEMMA EndWorkKeepsBooks ==
  ASSUME TypeInv, LedgerInv, EndWork
  PROVE  LedgerInv'
<1>1. /\ \A t \in Threads : pc[t] = "idle"
      /\ round' = round + 1 /\ jobs' = Jobs(round + 1) /\ handles' = {}
      /\ UNCHANGED <<pc, files, restarts>>
  BY DEF EndWork
<1>2. NewRound'
  BY <1>1 DEF NewRound
<1>3. Fresh'
  <2> SUFFICES ASSUME restarts = 0, NEW w \in 1..Len(Work), NEW u \in Threads,
                      w > round' \/ w = round'
               PROVE  files[w][u] = << >>
    BY <1>1 DEF Fresh
  <2>1. w > round
    <3>1. round \in Int /\ w \in Int
      BY WorkAssumption DEF TypeInv
    <3> QED
      BY <1>1, <3>1
  <2> QED
    BY <2>1 DEF LedgerInv, Fresh
<1> QED
  BY <1>2, <1>3, BooksOpenNext DEF LedgerInv

\* The rounds of a new run find the files that the last one left.
LEMMA RestartKeepsBooks ==
  ASSUME TypeInv, Restart
  PROVE  LedgerInv'
<1>1. NewRound'
  BY DEF Restart, NewRound
<1>2. restarts' # 0
  <2>1. restarts \in Nat /\ restarts' = restarts + 1
    BY WorkAssumption DEF TypeInv, Restart
  <2> QED
    BY <2>1
<1> QED
  BY <1>1, <1>2, BooksOpenNext DEF LedgerInv, Fresh

\* The books are always in order.
LEMMA LedgerInvariance == Spec => []LedgerInv
<1>1. IInv /\ LedgerInv /\ [Next]_vars => LedgerInv'
  <2> SUFFICES ASSUME TypeInv, JobInv, LedgerInv, [Next]_vars
               PROVE  LedgerInv'
    BY DEF IInv
  <2>1. CASE UNCHANGED vars
    <3>1. UNCHANGED <<round, jobs, pc, gate_inputs, pos, handles, files, restarts>>
      BY <2>1 DEF vars, jobVars, fileVars
    <3> QED
      BY <3>1, StillKeepsBooks
  <2>2. CASE \E t \in Threads : Worker(t)
    BY <2>2, WorkerKeepsBooks
  <2>3. CASE EndWork
    BY <2>3, EndWorkKeepsBooks
  <2>4. CASE Restart
    BY <2>4, RestartKeepsBooks
  <2> QED
    BY <2>1, <2>2, <2>3, <2>4 DEF Next, Finished
<1> QED
  BY Invariance, InitLedgerInv, <1>1, PTL DEF Spec
-----------------------------------------------------------------------------
\* Networks and wirings.

\* The network of a good wiring is the settled one of its class.
LEMMA GoodIsSettled ==
  ASSUME round \in 1..Len(Work) + 1, round <= Len(Work), NEW x, Good(x)
  PROVE  /\ IsNetwork(Network(x), num_inputs, num_gates)
         /\ Settled(Network(x), num_inputs, num_gates)
         /\ \A a, b \in 1..num_gates : Network(x)[a] = Network(x)[b] => a = b
<1> PICK w, i, n : w = Network(x) /\ i = num_inputs /\ n = num_gates
  OBVIOUS
<1>1. i \in Nat \ {0} /\ n \in Nat \ {0}
  BY RoundType
<1>2. Wired(x) /\ ~HasDuplicates(x) /\ Misplaced(x) = {}
  BY DEF Good
<1>3. /\ w \in Seq(Nat \X Nat) /\ Len(w) = n /\ Ordered(w, i)
      /\ \A m \in 0..n - 1 : w[m + 1] = Pair(x, m)
  BY <1>2, NetworkOfWiring DEF Pair
<1>4. \A a \in 1..n : a - 1 \in 0..n - 1 /\ w[a] = Pair(x, a - 1)
  <2> TAKE a \in 1..n
  <2> PICK m : m = a - 1
    OBVIOUS
  <2>1. m \in 0..n - 1 /\ m + 1 = a
    BY <1>1
  <2> QED
    BY <1>3, <2>1
<1>5. \A a \in 1..n : w[a][1] <= w[a][2]
  <2> TAKE a \in 1..n
  <2> PICK m : m = a - 1
    OBVIOUS
  <2>1. m \in 0..num_gates - 1 /\ w[a] = Pair(x, m)
    BY <1>4
  <2>2. x[2 * m] <= x[2 * m + 1]
    BY <2>1, GoodOrder
  <2> QED
    BY <2>1, <2>2 DEF Pair
<1>6. ASSUME NEW m \in 1..n, NEW c \in 1..n, m < c, w[c][1] < i + m - 1, w[c][2] < i + m - 1
      PROVE  ~Less(w[c], w[m])
  <2> PICK M, C : M = m - 1 /\ C = c - 1
    OBVIOUS
  <2>1. w[m] = Pair(x, M) /\ w[c] = Pair(x, C)
    BY <1>4
  <2>2. C \in 1..num_gates - 1 /\ M \in 0..C - 1 /\ i + m - 1 = i + M
    BY <1>1, <1>6
  <2>3. ~Swappable(x, M, C)
    BY <1>2, <2>2 DEF Misplaced
  <2>4. x[2 * C] < i + M /\ x[2 * C + 1] < i + M
    BY <1>6, <2>1, <2>2 DEF Pair
  <2> QED
    BY <2>1, <2>3, <2>4 DEF Swappable
<1>7. ASSUME NEW a \in 1..n, NEW b \in 1..n, a < b
      PROVE  w[a] # w[b]
  <2> PICK A, B : A = a - 1 /\ B = b - 1
    OBVIOUS
  <2>1. A \in 0..num_gates - 1 /\ B \in 0..num_gates - 1 /\ A < B
    BY <1>1, <1>7
  <2>2. w[a] = Pair(x, A) /\ w[b] = Pair(x, B)
    BY <1>4
  <2> QED
    BY <1>2, <2>1, <2>2 DEF HasDuplicates
<1>8. \A a, b \in 1..n : w[a] = w[b] => a = b
  <2> TAKE a, b \in 1..n
  <2>1. a < b \/ b < a \/ a = b
    BY <1>1
  <2> QED
    BY <1>7, <2>1
<1>9. IsNetwork(w, i, n)
  BY <1>3, <1>5 DEF IsNetwork
<1>10. Settled(w, i, n)
  BY <1>3, <1>6 DEF Settled
<1> QED
  BY <1>8, <1>9, <1>10

\* The wiring of a network.
WiringOf(z) == [q \in 0..Last |-> z[(q \div 2) + 1][(q % 2) + 1]]

\* It has the sources of each gate side by side.
LEMMA WiringPlaces ==
  ASSUME round \in 1..Len(Work) + 1, round <= Len(Work),
         NEW z, IsNetwork(z, num_inputs, num_gates)
  PROVE  /\ Wired(WiringOf(z)) /\ Network(WiringOf(z)) = z
         /\ \A m \in 0..num_gates - 1 :
              /\ WiringOf(z)[2 * m] = z[m + 1][1] /\ WiringOf(z)[2 * m + 1] = z[m + 1][2]
              /\ Pair(WiringOf(z), m) = z[m + 1]
<1> PICK x, i, n : x = WiringOf(z) /\ i = num_inputs /\ n = num_gates
  OBVIOUS
<1>1. i \in Nat \ {0} /\ n \in Nat \ {0}
  BY RoundType
<1>2. z \in Seq(Nat \X Nat) /\ Len(z) = n
  BY DEF IsNetwork
<1>3. \A m \in 0..n - 1 : /\ m + 1 \in 1..n
                          /\ z[m + 1] = <<z[m + 1][1], z[m + 1][2]>>
                          /\ z[m + 1][1] \in 0..i + m - 1 /\ z[m + 1][2] \in 0..i + m - 1
  <2> TAKE m \in 0..n - 1
  <2> PICK a : a = m + 1
    OBVIOUS
  <2>1. a \in 1..n /\ m = a - 1
    BY <1>1
  <2>2. /\ z[a] = <<z[a][1], z[a][2]>>
        /\ z[a][1] \in 0..i + a - 2 /\ z[a][2] \in 0..i + a - 2
    BY <1>1, <2>1, SourcesOf
  <2>3. i + a - 2 = i + m - 1
    BY <1>1, <2>1
  <2> QED
    BY <2>1, <2>2, <2>3
<1>4. \A q \in 0..Last : x[q] = z[(q \div 2) + 1][(q % 2) + 1]
  BY DEF WiringOf
<1>5. \A m \in 0..n - 1 : x[2 * m] = z[m + 1][1] /\ x[2 * m + 1] = z[m + 1][2]
  <2> TAKE m \in 0..n - 1
  <2>1. /\ m \in Nat /\ 2 * m \in 0..Last /\ 2 * m + 1 \in 0..Last
        /\ (2 * m) \div 2 = m /\ (2 * m + 1) \div 2 = m
        /\ (2 * m) % 2 = 0 /\ (2 * m + 1) % 2 = 1
    BY PlacesOfGate
  <2>2. x[2 * m] = z[((2 * m) \div 2) + 1][((2 * m) % 2) + 1]
    BY <1>4, <2>1
  <2>3. x[2 * m + 1] = z[((2 * m + 1) \div 2) + 1][((2 * m + 1) % 2) + 1]
    BY <1>4, <2>1
  <2>4. 0 + 1 = 1 /\ 1 + 1 = 2
    OBVIOUS
  <2> QED
    BY <2>1, <2>2, <2>3, <2>4
<1>6. \A m \in 0..n - 1 : Pair(x, m) = z[m + 1]
  BY <1>3, <1>5 DEF Pair
<1>7. Wired(x)
  <2>1. \A q \in 0..Last : x[q] \in 0..i + (q \div 2) - 1 /\ x[q] \in Nat
    <3> TAKE q \in 0..Last
    <3> PICK m : m = q \div 2
      OBVIOUS
    <3>1. m \in 0..n - 1 /\ (q = 2 * m \/ q = 2 * m + 1)
      BY GateOfPlace
    <3>2. x[q] \in 0..i + m - 1
      BY <1>3, <1>5, <3>1
    <3>3. x[q] \in Nat
      <4>1. i + m - 1 \in Int
        BY <1>1, <3>1
      <4> QED
        BY <3>2, <4>1
    <3> QED
      BY <3>2, <3>3
  <2>2. x = [q \in 0..Last |-> x[q]]
    BY DEF WiringOf
  <2>3. x \in [0..Last -> Nat]
    BY <2>1, <2>2
  <2> QED
    BY <2>1, <2>3 DEF Wired
<1>8. Network(x) = z
  <2>1. z = [a \in 1..n |-> z[a]]
    BY <1>2
  <2>2. \A a \in 1..n : Pair(x, a - 1) = z[a]
    <3> TAKE a \in 1..n
    <3> PICK m : m = a - 1
      OBVIOUS
    <3>1. m \in 0..n - 1 /\ m + 1 = a
      BY <1>1
    <3> QED
      BY <1>6, <3>1
  <2> QED
    BY <2>1, <2>2 DEF Network
<1> QED
  BY <1>5, <1>6, <1>7, <1>8

\* The first two gates of a settled network without repeated gates are a job.
LEMMA SettledHasJob ==
  ASSUME round \in 1..Len(Work) + 1, round <= Len(Work),
         NEW z, IsNetwork(z, num_inputs, num_gates), Settled(z, num_inputs, num_gates),
         \A a, b \in 1..num_gates : z[a] = z[b] => a = b
  PROVE  JobOf(WiringOf(z)) \in Jobs(round)
<1> PICK x, i, n : x = WiringOf(z) /\ i = num_inputs /\ n = num_gates
  OBVIOUS
<1>1. i \in Nat \ {0} /\ n \in Nat \ {0} /\ i = Work[round][1] /\ n = Work[round][2]
  BY RoundType DEF num_inputs, num_gates
<1>2. \A m \in 0..n - 1 : Pair(x, m) = z[m + 1]
  BY WiringPlaces
<1>3. \A a \in 1..n : /\ z[a] = <<z[a][1], z[a][2]>> /\ z[a][1] <= z[a][2]
                      /\ z[a][1] \in 0..i + a - 2 /\ z[a][2] \in 0..i + a - 2
  <2>1. i \in Nat /\ n \in Nat /\ IsNetwork(z, i, n)
    BY <1>1
  <2> QED
    BY <2>1, SourcesOf
<1>4. 1 \in 1..n /\ Pair(x, 0) = z[1]
  <2>1. 0 \in 0..n - 1 /\ 0 + 1 = 1
    BY <1>1
  <2>2. Pair(x, 0) = z[0 + 1]
    BY <1>2, <2>1
  <2> QED
    BY <1>1, <2>2
<1>5. n # 1 => 2 \in 1..n /\ Pair(x, 1) = z[2]
  <2> SUFFICES ASSUME n # 1
               PROVE  2 \in 1..n /\ Pair(x, 1) = z[2]
    OBVIOUS
  <2>1. 1 \in 0..n - 1 /\ 1 + 1 = 2 /\ 2 \in 1..n
    BY <1>1
  <2>2. Pair(x, 1) = z[1 + 1]
    BY <1>2, <2>1
  <2> QED
    BY <2>1, <2>2
<1>6. /\ z[1] \in (0..i - 1) \X (0..i - 1) /\ ~ (z[1][1] > z[1][2])
      /\ z[1][1] \in Nat /\ z[1][2] \in Nat
  <2>1. /\ z[1] = <<z[1][1], z[1][2]>> /\ z[1][1] <= z[1][2]
        /\ z[1][1] \in 0..i + 1 - 2 /\ z[1][2] \in 0..i + 1 - 2
    BY <1>3, <1>4
  <2>2. z[1][1] \in 0..i - 1 /\ z[1][2] \in 0..i - 1
    BY <1>1, <2>1
  <2>3. z[1][1] \in Nat /\ z[1][2] \in Nat
    BY <1>1, <2>2
  <2>4. ~ (z[1][1] > z[1][2])
    BY <2>1, <2>3
  <2>5. z[1] \in (0..i - 1) \X (0..i - 1)
    BY <2>1, <2>2
  <2> QED
    BY <2>3, <2>4, <2>5
<1>7. CASE n = 1
  <2>1. JobOf(x) = <<z[1], <<0, 0>>>>
    BY <1>4, <1>7 DEF JobOf
  <2>2. <<0, 0>> \in (0..i) \X (0..i)
    BY <1>1
  <2>3. JobOf(x) \in Iterations(i)
    BY <1>6, <2>1, <2>2 DEF Iterations
  <2>4. ~SkipJob(JobOf(x), n)
    BY <1>6, <1>7, <2>1 DEF SkipJob
  <2> QED
    BY <1>1, <2>3, <2>4 DEF Jobs
<1>8. CASE n # 1
  <2>1. JobOf(x) = <<z[1], z[2]>>
    BY <1>4, <1>5, <1>8 DEF JobOf
  <2>2. z[2] \in (0..i) \X (0..i) /\ ~ (z[2][1] > z[2][2])
    <3>1. /\ z[2] = <<z[2][1], z[2][2]>> /\ z[2][1] <= z[2][2]
          /\ z[2][1] \in 0..i + 2 - 2 /\ z[2][2] \in 0..i + 2 - 2
      BY <1>3, <1>5, <1>8
    <3>2. z[2][1] \in 0..i /\ z[2][2] \in 0..i
      BY <1>1, <3>1
    <3>3. z[2][1] \in Nat /\ z[2][2] \in Nat
      BY <1>1, <3>2
    <3>4. ~ (z[2][1] > z[2][2])
      BY <3>1, <3>3
    <3>5. z[2] \in (0..i) \X (0..i)
      BY <3>1, <3>2
    <3> QED
      BY <3>4, <3>5
  <2>3. z[1] # z[2]
    BY <1>4, <1>5, <1>8
  <2>4. z[2] # <<0, 0>>
    <3> SUFFICES ASSUME z[2] = <<0, 0>>
                 PROVE  FALSE
      OBVIOUS
    <3>1. z[2][1] = 0 /\ z[2][2] = 0
      OBVIOUS
    <3>2. Len(z) = n
      BY DEF IsNetwork
    <3>3. z[2][1] < i + 1 - 1 /\ z[2][2] < i + 1 - 1
      BY <1>1, <3>1
    <3>4. 1 <= n /\ 1 < 2 /\ 1 \in 1..Len(z) /\ 2 \in 1..Len(z)
      BY <1>1, <1>4, <1>5, <1>8, <3>2
    <3>5. ~Less(z[2], z[1])
      BY <3>3, <3>4 DEF Settled
    <3>6. z[1][1] = 0 /\ z[1][2] = 0
      BY <1>6, <3>1, <3>5 DEF Less
    <3>7. z[1] = <<0, 0>>
      BY <1>3, <1>4, <3>6
    <3> QED
      BY <2>3, <3>7
  <2>5. JobOf(x) \in Iterations(i)
    BY <1>6, <2>1, <2>2 DEF Iterations
  <2>6. ~SkipJob(JobOf(x), n)
    BY <1>6, <1>8, <2>1, <2>2, <2>3, <2>4 DEF SkipJob
  <2> QED
    BY <1>1, <2>5, <2>6 DEF Jobs
<1> QED
  BY <1>7, <1>8

\* A source that is a gate is one of those before gate C.
LEMMA GateOfSource ==
  ASSUME NEW i \in Nat, NEW n \in Nat, NEW C \in 1..n, NEW s \in 0..i + C - 2, s >= i
  PROVE  s - i \in 0..n - 1 /\ (s - i) + 1 \in 1..n /\ s = i + ((s - i) + 1) - 1
OBVIOUS

\* The wiring of a useful settled network is a good one.
LEMMA SettledIsGood ==
  ASSUME round \in 1..Len(Work) + 1, round <= Len(Work),
         NEW z, IsNetwork(z, num_inputs, num_gates), Settled(z, num_inputs, num_gates),
         IsUseful(z, num_inputs)
  PROVE  Good(WiringOf(z)) /\ Network(WiringOf(z)) = z
<1> PICK x, i, n : x = WiringOf(z) /\ i = num_inputs /\ n = num_gates
  OBVIOUS
<1>1. i \in Nat \ {0} /\ n \in Nat \ {0}
  BY RoundType
<1>2. /\ Wired(x) /\ Network(x) = z
      /\ \A m \in 0..n - 1 : /\ x[2 * m] = z[m + 1][1] /\ x[2 * m + 1] = z[m + 1][2]
                             /\ Pair(x, m) = z[m + 1]
  BY WiringPlaces
<1>3. Len(z) = n
  BY DEF IsNetwork
<1>4. \A a \in 1..n : /\ z[a] = <<z[a][1], z[a][2]>> /\ z[a][1] <= z[a][2]
                      /\ z[a][1] \in 0..i + a - 2 /\ z[a][2] \in 0..i + a - 2
  BY <1>1, SourcesOf
<1>5. \A m \in 0..n - 1 : m + 1 \in 1..n /\ m \in Nat
  BY <1>1
<1>6. \A a, b \in 1..n : z[a] = z[b] => a = b
  BY <1>3 DEF IsUseful
<1>7. ~HasDuplicates(x)
  <2> SUFFICES ASSUME NEW m \in 0..n - 1, NEW c \in 0..n - 1, m < c, Pair(x, m) = Pair(x, c)
               PROVE  FALSE
    BY DEF HasDuplicates
  <2>1. z[m + 1] = z[c + 1] /\ m + 1 \in 1..n /\ c + 1 \in 1..n /\ m \in Nat /\ c \in Nat
    BY <1>2, <1>5
  <2>2. m + 1 = c + 1
    BY <1>6, <2>1
  <2> QED
    BY <2>1, <2>2
<1>8. Unused(x) = {}
  <2> SUFFICES ASSUME NEW s \in 0..i - 1
               PROVE  \E q \in 0..Last : x[q] = s
    BY DEF Unused, Inputs
  <2>1. PICK a \in 1..n : s \in {z[a][1], z[a][2]}
    BY <1>3 DEF IsUseful
  <2> PICK m : m = a - 1
    OBVIOUS
  <2>2. m \in 0..n - 1 /\ m + 1 = a
    BY <1>1
  <2>3. x[2 * m] = z[a][1] /\ x[2 * m + 1] = z[a][2]
    BY <1>2, <2>2
  <2>4. 2 * m \in 0..Last /\ 2 * m + 1 \in 0..Last
    BY <2>2, PlacesOfGate
  <2> QED
    BY <2>1, <2>3, <2>4
<1>9. Misplaced(x) = {}
  <2> SUFFICES ASSUME NEW c \in 1..n - 1, Unordered(x, c) \/ \E m \in 0..c - 1 : Swappable(x, m, c)
               PROVE  FALSE
    BY DEF Misplaced
  <2> PICK C : C = c + 1
    OBVIOUS
  <2>1. c \in 0..n - 1 /\ C \in 1..n
    BY <1>1
  <2>2. x[2 * c] = z[C][1] /\ x[2 * c + 1] = z[C][2] /\ Pair(x, c) = z[C]
    BY <1>2, <2>1
  <2>3. ~Unordered(x, c)
    <3>1. z[C][1] <= z[C][2] /\ z[C][1] \in Int /\ z[C][2] \in Int
      <4>1. z[C][1] <= z[C][2] /\ z[C][1] \in 0..i + C - 2 /\ z[C][2] \in 0..i + C - 2
        BY <1>4, <2>1
      <4>2. i + C - 2 \in Int
        BY <1>1, <2>1
      <4> QED
        BY <4>1, <4>2
    <3> QED
      BY <2>2, <3>1 DEF Unordered
  <2>4. PICK m \in 0..c - 1 : Swappable(x, m, c)
    BY <2>3
  <2> PICK M : M = m + 1
    OBVIOUS
  <2>5. m \in 0..n - 1 /\ M \in 1..n /\ M < C /\ M <= n /\ i + M - 1 = i + m
    BY <1>1
  <2>6. Pair(x, m) = z[M]
    BY <1>2, <2>5
  <2>7. Less(z[C], z[M]) /\ z[C][1] < i + m /\ z[C][2] < i + m
    BY <2>2, <2>4, <2>6 DEF Swappable
  <2>8. \A a, b \in 1..n : a <= n /\ a < b /\ z[b][1] < i + a - 1 /\ z[b][2] < i + a - 1
          => ~Less(z[b], z[a])
    BY <1>3 DEF Settled
  <2> QED
    BY <2>1, <2>5, <2>7, <2>8
<1>10. NotNots(x) = {}
  <2> SUFFICES ASSUME NEW c \in 1..n - 1,
                      IsNot(x, c), x[2 * c] >= i, IsNot(x, x[2 * c] - i)
               PROVE  FALSE
    BY DEF NotNots
  <2> PICK C, m, M : C = c + 1 /\ m = x[2 * c] - i /\ M = m + 1
    OBVIOUS
  <2>1. c \in 0..n - 1 /\ C \in 1..n
    BY <1>1
  <2>2. x[2 * c] = z[C][1] /\ x[2 * c + 1] = z[C][2]
    BY <1>2, <2>1
  <2>3. z[C] = <<z[C][1], z[C][2]>> /\ z[C][1] = z[C][2]
    BY <1>4, <2>1, <2>2 DEF IsNot
  <2>4. z[C][1] \in 0..i + C - 2
    BY <1>4, <2>1
  <2>5. m \in 0..n - 1 /\ M \in 1..n /\ z[C][1] = i + M - 1
    <3> PICK s : s = z[C][1]
      OBVIOUS
    <3>1. s \in 0..i + C - 2 /\ s >= i /\ m = s - i
      BY <2>2, <2>4
    <3>2. i \in Nat /\ n \in Nat /\ C \in 1..n
      BY <1>1, <2>1
    <3>3. s - i \in 0..n - 1 /\ (s - i) + 1 \in 1..n /\ s = i + ((s - i) + 1) - 1
      BY <3>1, <3>2, GateOfSource
    <3> QED
      BY <3>1, <3>3
  <2>6. z[C] = <<i + M - 1, i + M - 1>>
    BY <2>3, <2>5
  <2>7. z[M][1] = z[M][2]
    <3>1. IsNot(x, m)
      OBVIOUS
    <3>2. x[2 * m] = z[M][1] /\ x[2 * m + 1] = z[M][2]
      BY <1>2, <2>5
    <3> QED
      BY <3>1, <3>2 DEF IsNot
  <2>8. \A a, b \in 1..n : z[b] = <<i + a - 1, i + a - 1>> => z[a][1] # z[a][2]
    BY <1>3 DEF IsUseful
  <2> QED
    BY <2>1, <2>5, <2>6, <2>7, <2>8
<1>11. BadGates(z, i) = {}
  <2> PICK on : on = Truth(z, i)
    OBVIOUS
  <2>1. \A c \in 0..Len(z) - 1 : on[i + c] \notin {{}, Rows(i)} \cup {on[s] : s \in 0..i - 1}
    BY DEF IsUseful
  <2>2. ConstantGates(z, i) = {}
    BY <2>1 DEF ConstantGates
  <2>3. CopyGates(z, i) = {}
    BY <2>1 DEF CopyGates
  <2> QED
    BY <2>2, <2>3 DEF BadGates
<1>12. JobOf(x) \in Jobs(round)
  BY <1>6, SettledHasJob
<1> QED
  BY <1>2, <1>7, <1>8, <1>9, <1>10, <1>11, <1>12 DEF Good
-----------------------------------------------------------------------------
\* The end of a round.

\* When main() goes on, nothing is still to come: all good wirings are stored.
LEMMA AllAreBooked ==
  ASSUME LedgerInv, EndWork, NEW x, Good(x)
  PROVE  Booked(x)
<1>1. round <= Len(Work) /\ jobs = {} /\ \A t \in Threads : pc[t] = "idle"
  BY DEF EndWork, Working
<1>2. ~Open(x)
  BY <1>1 DEF Open, Pending
<1>3. Balanced
  BY <1>1 DEF LedgerInv
<1> QED
  BY <1>2, <1>3 DEF Balanced

\* So a record of the class of each useful network is in some file.
LEMMA CompleteAtEnd ==
  ASSUME TypeInv, LedgerInv, EndWork,
         NEW net \in LoopFree(num_inputs, num_gates), IsUseful(net, num_inputs)
  PROVE  \E z \in NetworksOf(round) : net \in Class(z, num_inputs)
<1> PICK i, n : i = num_inputs /\ n = num_gates
  OBVIOUS
<1>1. round \in 1..Len(Work) + 1 /\ round <= Len(Work)
  BY DEF TypeInv, EndWork, Working
<1>2. i \in Nat /\ n \in Nat
  BY <1>1, RoundType
<1>3. net \in LoopFree(i, n) /\ IsUseful(net, i)
  OBVIOUS
<1>4. IsNetwork(net, i, n)
  BY <1>2, <1>3, LoopFreeOrdered
<1>5. PICK z : /\ IsNetwork(z, i, n) /\ Settled(z, i, n)
              /\ \E p \in Renumberings(n) : Renumbers(p, net, z, i)
  BY <1>2, <1>4, CanBeSettled
<1>6. PICK p \in Renumberings(n) : Renumbers(p, net, z, i)
  BY <1>5
<1>7. IsUseful(z, i)
  BY <1>2, <1>3, <1>4, <1>5, <1>6, UsefulKept
<1>8. net \in Class(z, i)
  BY <1>2, <1>4, <1>5, <1>6, ClassHolds
<1>9. Good(WiringOf(z)) /\ Network(WiringOf(z)) = z
  BY <1>1, <1>5, <1>7, SettledIsGood
<1>10. Booked(WiringOf(z))
  BY <1>9, AllAreBooked
<1>11. PICK t \in handles : \E r \in 1..Len(files[round][t]) : files[round][t][r] = z
  BY <1>9, <1>10 DEF Booked
<1>12. z \in RecordsOf(round, t) /\ t \in Threads
  BY <1>11 DEF RecordsOf, TypeInv
<1>13. z \in NetworksOf(round)
  BY <1>12 DEF NetworksOf
<1> QED
  BY <1>8, <1>13

\* If no files were left behind, each record is of a class of its own.
LEMMA UniqueAtEnd ==
  ASSUME TypeInv, LedgerInv, EndWork, restarts = 0
  PROVE  Cardinality({Class(net, num_inputs) : net \in NetworksOf(round)})
    = Cardinality(UNION {{<<t, r>> : r \in 1..Len(files[round][t])} : t \in Threads})
<1> PICK i, n, book : i = num_inputs /\ n = num_gates /\ book = files[round]
  OBVIOUS
<1> DEFINE slots(t) == {<<t, r>> : r \in 1..Len(book[t])}
           S == UNION {slots(t) : t \in Threads}
           T == {Class(net, i) : net \in NetworksOf(round)}
           f == [a \in S |-> Class(book[a[1]][a[2]], i)]
<1>1. /\ round \in 1..Len(Work) + 1 /\ round <= Len(Work) /\ round \in 1..Len(Work)
      /\ handles \subseteq Threads
  BY RoundType DEF TypeInv, EndWork, Working
<1>2. Once /\ AreGood /\ Fresh
  BY <1>1 DEF LedgerInv
<1>3. i \in Nat /\ n \in Nat
  BY <1>1, RoundType
<1>4. \A t \in Threads : book[t] \in Seq(Seq(Nat \X Nat)) /\ Len(book[t]) \in Nat
  <2>1. book \in [Threads -> Seq(Seq(Nat \X Nat))]
    BY <1>1 DEF TypeInv
  <2>2. \A t \in Threads : book[t] \in Seq(Seq(Nat \X Nat))
    BY <2>1
  <2> QED
    BY <2>2
<1>5. \A t \in Threads : t \notin handles => 1..Len(book[t]) = {}
  <2> SUFFICES ASSUME NEW t \in Threads, t \notin handles
               PROVE  1..Len(book[t]) = {}
    OBVIOUS
  <2>1. book[t] = << >>
    BY <1>1, <1>2 DEF Fresh
  <2> QED
    BY <2>1
<1>6. ASSUME NEW a \in S
      PROVE  /\ a = <<a[1], a[2]>> /\ a[1] \in handles /\ a[2] \in 1..Len(book[a[1]])
  <2>1. PICK t \in Threads : a \in slots(t)
    OBVIOUS
  <2>2. PICK r \in 1..Len(book[t]) : a = <<t, r>>
    BY <2>1
  <2>3. t \in handles
    BY <1>5, <2>2
  <2> QED
    BY <2>2, <2>3
<1>7. ASSUME NEW a \in S
      PROVE  /\ IsNetwork(book[a[1]][a[2]], i, n) /\ Settled(book[a[1]][a[2]], i, n)
             /\ \A c, d \in 1..n : book[a[1]][a[2]][c] = book[a[1]][a[2]][d] => c = d
             /\ book[a[1]][a[2]] \in NetworksOf(round)
  <2> PICK w : w = book[a[1]][a[2]]
    OBVIOUS
  <2>1. a[1] \in handles /\ a[2] \in 1..Len(book[a[1]])
    BY <1>6
  <2>2. \E x : Good(x) /\ w = Network(x)
    BY <1>2, <2>1 DEF AreGood
  <2>3. PICK x : Good(x) /\ w = Network(x)
    BY <2>2
  <2>4. IsNetwork(w, i, n) /\ Settled(w, i, n) /\ \A c, d \in 1..n : w[c] = w[d] => c = d
    BY <1>1, <2>3, GoodIsSettled
  <2>5. w \in RecordsOf(round, a[1]) /\ a[1] \in Threads
    BY <1>1, <2>1 DEF RecordsOf
  <2>6. w \in NetworksOf(round)
    BY <2>5 DEF NetworksOf
  <2> QED
    BY <2>4, <2>6
<1>8. ASSUME NEW a \in S, NEW b \in S, f[a] = f[b]
      PROVE  a = b
  <2> PICK w, z : w = book[a[1]][a[2]] /\ z = book[b[1]][b[2]]
    OBVIOUS
  <2>1. /\ IsNetwork(w, i, n) /\ Settled(w, i, n)
        /\ \A c, d \in 1..n : w[c] = w[d] => c = d
        /\ IsNetwork(z, i, n) /\ Settled(z, i, n)
    BY <1>7
  <2>2. Class(w, i) = Class(z, i)
    BY <1>8
  <2> HIDE DEF S, f
  <2>3. PICK p \in Renumberings(n) : Renumbers(p, w, z, i)
    BY <1>3, <2>1, <2>2, ClassesMeet
  <2>4. w = z
    BY <1>3, <2>1, <2>3, SettledOnce
  <2>5. /\ a = <<a[1], a[2]>> /\ a[1] \in handles /\ a[2] \in 1..Len(book[a[1]])
        /\ b = <<b[1], b[2]>> /\ b[1] \in handles /\ b[2] \in 1..Len(book[b[1]])
    BY <1>6
  <2>6. a[1] = b[1] /\ a[2] = b[2]
    <3>1. \A t, u \in handles : \A q \in 1..Len(book[t]), r \in 1..Len(book[u]) :
            book[t][q] = book[u][r] => t = u /\ q = r
      BY <1>2 DEF Once
    <3>2. book[a[1]][a[2]] = book[b[1]][b[2]]
      BY <2>4
    <3> QED
      BY <2>5, <3>1, <3>2
  <2> QED
    BY <2>5, <2>6
<1>9. f \in [S -> T]
  <2> SUFFICES ASSUME NEW a \in S
               PROVE  Class(book[a[1]][a[2]], i) \in T
    OBVIOUS
  <2> HIDE DEF S
  <2>1. book[a[1]][a[2]] \in NetworksOf(round)
    BY <1>7
  <2> QED
    BY <2>1
<1>10. ASSUME NEW c \in T
       PROVE  \E a \in S : f[a] = c
  <2>1. PICK net \in NetworksOf(round) : c = Class(net, i)
    OBVIOUS
  <2>2. PICK t \in Threads : net \in RecordsOf(round, t)
    BY DEF NetworksOf
  <2>3. PICK r \in 1..Len(book[t]) : net = book[t][r]
    BY <2>2 DEF RecordsOf
  <2>4. <<t, r>> \in slots(t)
    OBVIOUS
  <2>5. <<t, r>> \in S
    BY <2>4
  <2>6. f[<<t, r>>] = Class(book[t][r], i)
    <3> HIDE DEF S
    <3> QED
      BY <2>5
  <2> QED
    BY <2>1, <2>3, <2>5, <2>6
<1>11. IsFiniteSet(S)
  <2> DEFINE s == [t \in Threads |-> slots(t)]
             image == {slots(t) : t \in Threads}
  <2>1. IsFiniteSet(Threads)
    <3>1. NumThreads - 1 \in Int
      BY WorkAssumption
    <3> QED
      BY <3>1, FS_Interval DEF Threads
  <2>2. s \in Surjection(Threads, image)
    BY DEF Surjection
  <2>3. IsFiniteSet(image)
    <3> HIDE DEF s, image
    <3> QED
      BY <2>1, <2>2, FS_Surjection
  <2>4. \A t \in Threads : IsFiniteSet(slots(t))
    <3> TAKE t \in Threads
    <3> DEFINE R == 1..Len(book[t])
               g == [r \in R |-> <<t, r>>]
    <3>1. IsFiniteSet(R)
      BY <1>4, FS_Interval
    <3>2. g \in Surjection(R, slots(t))
      BY DEF Surjection
    <3> HIDE DEF R, g
    <3> QED
      BY <3>1, <3>2, FS_Surjection
  <2>5. \A m \in image : IsFiniteSet(m)
    BY <2>4
  <2> HIDE DEF image
  <2>6. IsFiniteSet(UNION image)
    BY <2>3, <2>5, FS_UNION
  <2> QED
    BY <2>6 DEF image
<1> HIDE DEF S, T, f
<1>12. f \in Bijection(S, T)
  BY <1>8, <1>9, <1>10 DEF Bijection, Injection, Surjection, IsInjective
<1>13. Cardinality(T) = Cardinality(S)
  BY <1>11, <1>12, FS_Bijection DEF ExistsBijection
<1> QED
  BY <1>13 DEF S, T

\* Only the end of a round moves on to the next.
LEMMA OnlyEndWork ==
  ASSUME TypeInv, [Next]_vars, WorkDone
  PROVE  EndWork
<1>1. round \in 1..Len(Work) + 1 /\ round # round + 1 /\ 1 # round + 1
  BY WorkAssumption DEF TypeInv
<1> SUFFICES ASSUME ~EndWork
             PROVE  FALSE
  OBVIOUS
<1>2. round' = round \/ round' = 1
  BY DEF Next, Worker, TakeJob, FixUnused, CheckOrder, SkipBadGate, Record, Abort,
         JobDone, Increment, Wrap, Restart, Finished, vars
<1> QED
  BY <1>1, <1>2 DEF WorkDone
-----------------------------------------------------------------------------
\* The theorems.

\* Every variable has its type, and every wiring that a thread arrives at is
\* free of loops (TypeOK), whatever the odometer skips.
THEOREM TypeCorrect == Spec => []TypeOK
<1>1. IInv => TypeOK
  <2> SUFFICES ASSUME TypeInv, JobInv
               PROVE  TypeOK
    BY DEF IInv
  <2>1. \A t \in Threads : pc[t] # "idle" =>
          /\ pos[t] \in 0..Last
          /\ DOMAIN gate_inputs[t] = 0..Last
          /\ \A p \in 0..Last : gate_inputs[t][p] \in 0..num_inputs + (p \div 2) - 1
    BY DEF JobInv, HereAt, Wired
  <2> QED
    BY <2>1 DEF TypeInv, TypeOK, Labels
<1> QED
  BY Invariance, <1>1, PTL

\* Every record of every file, those of killed runs included, is a network in
\* an order that can be evaluated, of the right number of gates, and useful.
THEOREM RecordsAreUseful == Spec => []RecordsUseful
<1>1. IInv => RecordsUseful
  BY DEF IInv
<1> QED
  BY Invariance, <1>1, PTL

\* When main() goes on, every network that a thread has stored is useful
\* (NetworksUseful): no test that nandcombinator leaves out is missing.
THEOREM OnlyUsefulNetworks == Spec => NetworksUseful
<1>1. IInv /\ [Next]_vars =>
        [WorkDone => \A net \in NetworksOf(round) : IsUseful(net, num_inputs)]_vars
  <2> SUFFICES ASSUME TypeInv, RecordsUseful, [Next]_vars, WorkDone, NEW net \in NetworksOf(round)
               PROVE  IsUseful(net, num_inputs)
    BY DEF IInv
  <2>1. round \in 1..Len(Work) + 1 /\ Len(Work) \in Nat /\ round # round + 1 /\ 1 # round + 1
    BY WorkAssumption DEF TypeInv
  <2>2. CASE EndWork
    <3>1. round \in 1..Len(Work)
      BY <2>1, <2>2 DEF EndWork, Working
    <3>2. PICK t \in Threads : net \in RecordsOf(round, t)
      BY DEF NetworksOf
    <3>3. PICK r \in 1..Len(files[round][t]) : net = files[round][t][r]
      BY <3>2 DEF RecordsOf
    <3>4. WorthRecord(net, round)
      BY <3>1, <3>3 DEF RecordsUseful
    <3> QED
      BY <3>4 DEF WorthRecord, num_inputs
  <2>3. CASE ~ EndWork
    <3>1. round' = round \/ round' = 1
      BY <2>3 DEF Next, Worker, TakeJob, FixUnused, CheckOrder, SkipBadGate, Record, Abort,
                  JobDone, Increment, Wrap, Restart, Finished, vars
    <3> QED
      BY <2>1, <3>1 DEF WorkDone
  <2> QED
    BY <2>2, <2>3
<1> QED
  BY Invariance, <1>1, PTL DEF Spec, NetworksUseful

\* When main() goes on, every useful network is in some file, up to the numbers
\* of its gates (NetworksComplete): nothing is lost by the ways the odometer
\* skips ahead, by the threads or by a kill.
THEOREM NothingIsLost == Spec => NetworksComplete
<1>1. IInv /\ LedgerInv /\ [Next]_vars =>
        [WorkDone =>
           LET built == UNION {Class(net, num_inputs) : net \in NetworksOf(round)} IN
           \A net \in LoopFree(num_inputs, num_gates) :
             IsUseful(net, num_inputs) => net \in built]_vars
  <2> SUFFICES ASSUME TypeInv, LedgerInv, [Next]_vars, WorkDone,
                      NEW net \in LoopFree(num_inputs, num_gates), IsUseful(net, num_inputs)
               PROVE  net \in UNION {Class(z, num_inputs) : z \in NetworksOf(round)}
    BY DEF IInv
  <2>1. PICK z \in NetworksOf(round) : net \in Class(z, num_inputs)
    BY OnlyEndWork, CompleteAtEnd
  <2> QED
    BY <2>1
<1> QED
  BY Invariance, LedgerInvariance, <1>1, PTL DEF Spec, NetworksComplete

\* And no two records are the same network but for the numbers of the gates,
\* unless an earlier run left files behind (NetworksUnique).
THEOREM NothingIsStoredTwice == Spec => NetworksUnique
<1>1. IInv /\ LedgerInv /\ [Next]_vars =>
        [WorkDone /\ restarts = 0 =>
           Cardinality({Class(net, num_inputs) : net \in NetworksOf(round)})
             = Cardinality(UNION {{<<t, r>> : r \in 1..Len(files[round][t])} : t \in Threads})]_vars
  BY OnlyEndWork, UniqueAtEnd DEF IInv
<1> QED
  BY Invariance, LedgerInvariance, <1>1, PTL DEF Spec, NetworksUnique

\* While a round lasts, each wiring to be stored is still to come or stored, and
\* none is stored twice.
THEOREM BooksBalance == Spec => [](round <= Len(Work) => Balanced /\ Once)
<1>1. LedgerInv => (round <= Len(Work) => Balanced /\ Once)
  BY DEF LedgerInv
<1> QED
  BY LedgerInvariance, <1>1, PTL
=============================================================================
