----------------------------- MODULE NandNetwork -----------------------------
(***************************************************************************)
(* Networks of NAND gates: what gatebuilder.cc stores and nandcombinator.cc*)
(* reads.  A network is the sequence of the pairs of sources of its gates; *)
(* over i inputs, source s < i is an input and source i + n is gate n (the *)
(* gates are numbered from 0, the pairs of the sequence from 1).           *)
(***************************************************************************)
EXTENDS Integers, Sequences, FiniteSets

Least(S) == CHOOSE x \in S : \A y \in S : x <= y

\* The rows of the truth table, each the set of inputs that are 1, in which a
\* source of a network over i inputs is 1.
Rows(i) == SUBSET (0..i - 1)
Truth(net, i) ==
  LET on[s \in 0..i + Len(net) - 1] ==
        IF s < i THEN {r \in Rows(i) : s \in r}
        ELSE Rows(i) \ (on[net[s - i + 1][1]] \cap on[net[s - i + 1][2]])
  IN  on

\* What a network must be like to be worth a record: it uses every input, no
\* gate is constant, copies an input, repeats another gate or negates a
\* negation.
IsUseful(net, i) ==
  /\ \A s \in 0..i - 1 : \E n \in 1..Len(net) : s \in {net[n][1], net[n][2]}
  /\ \A m, n \in 1..Len(net) : net[m] = net[n] => m = n
  /\ \A m, n \in 1..Len(net) : net[n] = <<i + m - 1, i + m - 1>> => net[m][1] # net[m][2]
  /\ LET on == Truth(net, i) IN
       \A n \in 0..Len(net) - 1 :
         on[i + n] \notin {{}, Rows(i)} \cup {on[s] : s \in 0..i - 1}

\* The networks in which no gate depends on a later one, up to the order of
\* the two sources of a gate.
SortedPairs(n)  == {pair \in (0..n - 1) \X (0..n - 1) : pair[1] <= pair[2]}
LoopFree(i, n) ==
  LET nets[m \in 0..n] ==
        IF m = 0 THEN {<< >>}
        ELSE {Append(net, pair) : net \in nets[m - 1], pair \in SortedPairs(i + m - 1)}
  IN  nets[n]

\* The networks that differ from net in the numbers of the gates only.
Renumberings(n) == {p \in [1..n -> 1..n] : \A a, b \in 1..n : p[a] = p[b] => a = b}
Renumber(net, i, p) ==
  LET new(s) == IF s < i THEN s ELSE i + p[s - i + 1] - 1
      gate(m) == net[CHOOSE n \in 1..Len(net) : p[n] = m]
      least(m) == Least({new(gate(m)[1]), new(gate(m)[2])})
  IN  [m \in 1..Len(net) |-> <<least(m), new(gate(m)[1]) + new(gate(m)[2]) - least(m)>>]
Class(net, i) == {Renumber(net, i, p) : p \in Renumberings(Len(net))}
=============================================================================
