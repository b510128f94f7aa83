----------------------------- MODULE PipelineMC -----------------------------
(***************************************************************************)
(* The tools in a row, on real networks: NandCombinator reads the networks *)
(* that gatebuilder stores (GateBuilder: one of each useful class), with   *)
(* the offers that Catalogue makes for them, and its datalogs are compared *)
(* with the truth: the fewest gates of any network at all.                 *)
(***************************************************************************)
EXTENDS NandCombinator, NandNetwork, FiniteSetsExt

CONSTANT NumInputs

\* The truth tables of a set of gates of a network; NoKey if two are equal.
TablesOf(net, gates) ==
  LET on     == Truth(net, NumInputs)
      tables == {on[NumInputs + n] : n \in gates}
  IN  IF Cardinality(tables) = Cardinality(gates) THEN tables ELSE NoKey

\* What Catalogue offers (OffersComplete): the output sets that leave no gate
\* of the network idle.
OutputSets(net, o) ==
  LET gates == 0..Len(net) - 1
      used  == {s - NumInputs : s \in {net[n][side] : n \in 1..Len(net), side \in 1..2}}
  IN  {outs \in SUBSET gates : Cardinality(outs) = o /\ gates \subseteq used \cup outs}
Listed(S) == FoldSet(LAMBDA x, list : Append(list, x), << >>, S)
RecordFor(net) ==
  [o \in Outputs |-> Listed({TablesOf(net, outs) : outs \in OutputSets(net, o)})]

\* What gatebuilder stores (NetworksComplete, NetworksUnique, NetworksUseful).
StoredNetworks(n) ==
  LET useful == {net \in LoopFree(NumInputs, n) : IsUseful(net, NumInputs)} IN
  {CHOOSE net \in class : net \in useful : class \in {Class(net, NumInputs) : net \in useful}}

PipelineFiles == [g \in Gates |->
  << Listed({RecordFor(net) : net \in StoredNetworks(g)}) >>]

\* Every set of truth tables worth a gate.
Tables == (SUBSET Rows(NumInputs)) \ ({{}, Rows(NumInputs)} \cup
            {{r \in Rows(NumInputs) : s \in r} : s \in 0..NumInputs - 1})
PipelineKeys      == UNION {kSubset(o, Tables) : o \in Outputs}
PipelineOutputsOf == [k \in PipelineKeys |-> Cardinality(k)]
PipelineHypSize   == [o \in Outputs |-> Cardinality(kSubset(o, Tables))]

\* The keys that some gates of some network of n gates compute.
Buildable == [n \in Gates |->
  {TablesOf(net, outs) : net \in LoopFree(NumInputs, n), outs \in SUBSET (0..n - 1)}]

Sizes(k) == {n \in Gates : k \in Buildable[n]}

\* Some table of the key depends on input s.
Matters(s, k) == \E table \in k : \E r \in Rows(NumInputs) : (r \in table) # (r \ {s} \in table)

\* When the program is done the datalogs tell the truth about every function
\* of all the inputs: the fewest gates that any network needs for it, useful
\* or not, and nothing about one that no network of this size computes.  (The
\* back-end leaves out an input that does not matter before it asks.)
DatalogsTellTheTruth ==
  num_gates > MaxGates =>
    \A k \in Keys : (\A s \in 0..NumInputs - 1 : Matters(s, k)) =>
      datalog[k] = IF Sizes(k) = {} THEN << >> ELSE <<Least(Sizes(k))>>
=============================================================================
