------------------------------ MODULE Catalogue ------------------------------
(***************************************************************************)
(* BuildCombinations() and Catalogue() of nandcombinator.cc: which gates   *)
(* of a network are tried as outputs, and which search keys the network    *)
(* offers.                                                                 *)
(*                                                                         *)
(* A key is the set of the truth tables of the outputs; that the code's    *)
(* order of the tables does not matter is the subject of OutputOrder.  The *)
(* lore that the keys are offered to is the subject of NandCombinator:     *)
(* here it has room, unless its size limit is 0.                           *)
(***************************************************************************)
EXTENDS NandNetwork, FiniteSetsExt

CONSTANTS
  Networks,    \* the pairs <<num_inputs, network>> that are catalogued
  MaxOutputs,  \* global_max_outputs
  Reach,       \* bound: no lore gets to have so many keys
  SomeTables,  \* bound: SomeTables[o] tables make Reach keys of o
  NoKey        \* a combination with two equal outputs

ASSUME CatalogueAssumption ==
  /\ Networks \subseteq (Nat \ {0}) \X Seq(Nat \X Nat)
  /\ MaxOutputs \in Nat \ {0}
  /\ Reach \in Nat \ {0}

VARIABLES
  num_inputs,    \* the inputs of the network
  net,           \* the network: gate_inputs and gate_outputs
  pc,            \* "build", "advance": BuildCombinations; "outputs", "try":
                 \* Catalogue; "done"
  num_outputs,   \* the loop variable of both
  sys_outputs,   \* the combination BuildCombinations is at
  combinations,  \* Combinations[num_gates, num_outputs]
  combo,         \* the combination that Catalogue is at
  offers,        \* offers[o]: the keys with o outputs offered so far
  aborted        \* an assertion has failed

buildVars == <<sys_outputs, combinations>>
offerVars == <<combo, offers>>
network   == <<num_inputs, net>>
vars      == <<network, pc, num_outputs, buildVars, offerVars, aborted>>

NumGates == Len(net)
Gates    == 0..NumGates - 1
Outputs  == 1..MaxOutputs

\* The size limit of a lore, CalculateMaxSize(), is a double.  Below Reach its
\* value counts; a larger one, finite or not, is a limit that no lore gets to.
Number(n)    == [class |-> "number", value |-> n]
Large        == [class |-> "large", value |-> Reach]
Infinite     == [class |-> "infinite", value |-> Reach]
NotANumber   == [class |-> "nan", value |-> Reach]
Rounded(n)   == IF n < Reach THEN Number(n) ELSE Large

\* binomial(double, double): how many ways there are to choose k of n.  Beyond
\* 1000 it divides infinity by infinity: std::tgamma() is finite below 172 only.
Quotient(n, k) ==
  LET chosen[m \in 0..k] ==
        IF m = 0 THEN 1
        ELSE IF chosen[m - 1] >= Reach THEN Reach
        ELSE (chosen[m - 1] * (n - m + 1)) \div m
  IN  Rounded(chosen[k])

Binomial(n, o) ==
  IF n.class = "large"
  THEN IF o = 1 THEN n ELSE NotANumber
  ELSE LET k == Least({o, n.value - o}) IN
       CASE k < 0  -> Number(0)
         [] k = 0  -> Number(1)
         [] k = 1  -> n
         [] OTHER  -> IF n.value > 1000 THEN NotANumber ELSE Quotient(n.value, k)

\* Mutant of TablesWorthAGate: copies of the inputs are counted.
TablesWithInputs(i) == IF i <= 4 THEN Rounded(2 ^ (2 ^ i) - 2) ELSE Large

\* The truth tables of i inputs that are neither constant nor a copy of an input.
TablesWorthAGate(i) == IF i <= 4 THEN Rounded(2 ^ (2 ^ i) - (2 + i)) ELSE Large

\* From 6 inputs on combinations are not told from sequences.
Power(i, o) == IF o * 2 ^ i >= 1024 THEN Infinite ELSE Large

\* 1e200 stands for what is no finite number.
MaxSize(i, o) ==
  LET size == IF i < 6 THEN Binomial(TablesWorthAGate(i), o) ELSE Power(i, o)
  IN  IF size.class = "number" THEN size ELSE Large

Init ==
  /\ \E pair \in Networks : num_inputs = pair[1] /\ net = pair[2]
  /\ pc = "build"
  /\ num_outputs = 1
  /\ sys_outputs = << >>
  /\ combinations = [o \in Outputs |-> << >>]
  /\ combo = 1
  /\ offers = [o \in Outputs |-> << >>]
  /\ aborted = FALSE
-----------------------------------------------------------------------------
\* BuildCombinations(): the output sets in lexicographic order.

FirstOutputs ==
  /\ pc = "build"
  /\ IF num_outputs <= MaxOutputs /\ num_outputs <= NumGates
     THEN /\ sys_outputs' = [n \in 1..num_outputs |-> n - 1]
          /\ pc' = "advance"
          /\ UNCHANGED num_outputs
     ELSE /\ num_outputs' = 1
          /\ pc' = "outputs"
          /\ UNCHANGED sys_outputs
  /\ UNCHANGED <<network, combinations, offerVars, aborted>>

\* Mutants: an output moves up as far as the gates go and one further; the
\* outputs behind it stay where they are.
MovableTooFar == {o \in 1..num_outputs : sys_outputs[o] + 1 <= NumGates - (num_outputs - o)}
MoveUpAlone(o) == [sys_outputs EXCEPT ![o] = @ + 1]

\* The outputs that can move up; those after the last of them start over right
\* behind it.
Movable == {o \in 1..num_outputs : sys_outputs[o] + 1 < NumGates - (num_outputs - o)}
MoveUp(o) == [n \in 1..num_outputs |->
  IF n < o THEN sys_outputs[n] ELSE sys_outputs[o] + 1 + (n - o)]

NextOutputs ==
  /\ pc = "advance"
  /\ combinations' = [combinations EXCEPT ![num_outputs] = Append(@, sys_outputs)]
  /\ IF Movable # {}
     THEN /\ sys_outputs' = MoveUp(Max(Movable))
          /\ UNCHANGED <<pc, num_outputs>>
     ELSE /\ num_outputs' = num_outputs + 1
          /\ pc' = "build"
          /\ UNCHANGED sys_outputs
  /\ UNCHANGED <<network, offerVars, aborted>>
-----------------------------------------------------------------------------
\* Catalogue().

GatesOf(outs) == {outs[n] : n \in DOMAIN outs}

\* Mutant of UsedGates: the second sources are not looked at.
UsedFirst == {net[n][1] - num_inputs : n \in 1..NumGates} \cap Gates

UsedGates == {s - num_inputs : s \in {net[n][side] : n \in 1..NumGates, side \in 1..2}} \cap Gates
Selected  == GatesOf(combinations[num_outputs][combo])

\* Mutant of Key: equal outputs are not noticed.
KeyWithDuplicates(outs) == {Truth(net, num_inputs)[num_inputs + n] : n \in outs}

\* SaveOrIgnoreResult() drops a combination with equal outputs.
Key(outs) ==
  LET on     == Truth(net, num_inputs)
      tables == {on[num_inputs + n] : n \in outs}
  IN  IF Cardinality(tables) = Cardinality(outs) THEN tables ELSE NoKey

\* No combination of this many outputs will do, or there are no more.
SkipOutputs ==
  /\ pc = "outputs" /\ num_outputs <= MaxOutputs
  /\ \/ num_outputs > NumGates
     \/ NumGates - Cardinality(UsedGates) > num_outputs
     \/ combo > Len(combinations[num_outputs])
     \/ MaxSize(num_inputs, num_outputs) = Number(0)
  /\ num_outputs' = num_outputs + 1
  /\ combo' = 1
  /\ UNCHANGED <<network, pc, buildVars, offers, aborted>>

TryOutputs ==
  /\ pc = "outputs" /\ num_outputs <= MaxOutputs
  /\ num_outputs <= NumGates
  /\ NumGates - Cardinality(UsedGates) <= num_outputs
  /\ combo <= Len(combinations[num_outputs])
  /\ MaxSize(num_inputs, num_outputs) # Number(0)
  /\ pc' = "try"
  /\ UNCHANGED <<network, num_outputs, buildVars, offerVars, aborted>>

\* Some gate would be of no use.
SkipCombination ==
  /\ pc = "try"
  /\ UsedGates \cup Selected # Gates
  /\ combo' = combo + 1
  /\ pc' = "outputs"
  /\ UNCHANGED <<network, num_outputs, buildVars, offers, aborted>>

Offer ==
  /\ pc = "try"
  /\ UsedGates \cup Selected = Gates
  /\ num_outputs < MaxOutputs
  /\ offers' = [offers EXCEPT ![num_outputs] = Append(@, Key(Selected))]
  /\ combo' = combo + 1
  /\ pc' = "outputs"
  /\ UNCHANGED <<network, num_outputs, buildVars, aborted>>

\* assert(num_outputs < global_max_outputs)
Abort ==
  /\ pc = "try"
  /\ UsedGates \cup Selected = Gates
  /\ num_outputs >= MaxOutputs
  /\ aborted' = TRUE
  /\ pc' = "done"
  /\ UNCHANGED <<network, num_outputs, buildVars, offerVars>>

Return ==
  /\ pc = "outputs" /\ num_outputs > MaxOutputs
  /\ pc' = "done"
  /\ UNCHANGED <<network, num_outputs, buildVars, offerVars, aborted>>

Finished == pc = "done" /\ UNCHANGED vars

Next ==
  \/ FirstOutputs \/ NextOutputs
  \/ SkipOutputs \/ TryOutputs \/ SkipCombination \/ Offer \/ Abort \/ Return
  \/ Finished

Spec == Init /\ [][Next]_vars
-----------------------------------------------------------------------------
\* Properties.

\* Every variable has its type; a combination is an increasing sequence of
\* gates, and the loops stay within their lists.
TypeOK ==
  /\ network \in Networks
  /\ pc \in {"build", "advance", "outputs", "try", "done"}
  /\ num_outputs \in 1..MaxOutputs + 1
  /\ pc = "advance" =>
       /\ sys_outputs \in [1..num_outputs -> Gates]
       /\ \A m, n \in 1..num_outputs : m < n => sys_outputs[m] < sys_outputs[n]
  /\ pc = "try" => combo \in 1..Len(combinations[num_outputs])
  /\ aborted \in BOOLEAN

\* The odometer of BuildCombinations lists every set of outputs exactly once.
CombinationsComplete ==
  pc = "outputs" => \A o \in Outputs :
    LET sets == {GatesOf(combinations[o][c]) : c \in 1..Len(combinations[o])} IN
    /\ sets = IF o <= NumGates THEN kSubset(o, Gates) ELSE {}
    /\ Cardinality(sets) = Len(combinations[o])

\* The gates that are of no use if outs are the outputs.
Idle(outs) ==
  {g \in Gates \ outs : \A n \in 1..NumGates, side \in 1..2 : net[n][side] # num_inputs + g}
OutputSets(o) == {outs \in SUBSET Gates : Cardinality(outs) = o /\ Idle(outs) = {}}

\* The two tests for idle gates drop exactly the combinations with an idle
\* gate: a network offers one key per way to choose outputs, and only those.
OffersComplete ==
  pc = "done" /\ ~aborted => \A o \in Outputs :
    /\ {offers[o][n] : n \in 1..Len(offers[o])} = {Key(outs) : outs \in OutputSets(o)}
    /\ Len(offers[o]) = Cardinality(OutputSets(o))

\* The truth tables that are worth a gate.
Tables == (SUBSET Rows(num_inputs)) \ ({{}, Rows(num_inputs)} \cup
            {{r \in Rows(num_inputs) : s \in r} : s \in 0..num_inputs - 1})

\* The sets of o of n things, in ascending order.
SetsOf(n, o) == {set \in [1..o -> 1..n] : \A p \in 1..o - 1 : set[p] < set[p + 1]}

\* The number of keys there can be, up to Reach.  Some of the tables do to see
\* that there are so many, and those of 5 inputs are more than can be listed.
NumKeys(o) ==
  IF num_inputs >= 5 THEN Reach
  ELSE LET n == Least({Cardinality(Tables), SomeTables[o]}) IN
       Least({Reach, Cardinality(SetsOf(n, o))})

\* A round that stops because its lore is full has found every key there can
\* be, and one that has found all of them stops, if that many can be found at
\* all: the limit is their number or out of reach, as their number is.
LimitIsLastKey ==
  pc = "outputs" /\ combo = 1 /\ num_outputs <= MaxOutputs =>
    MaxSize(num_inputs, num_outputs) = Rounded(NumKeys(num_outputs))

\* Every key offered is one of those that the size limit counts.
OffersAreKeys == \A o \in Outputs : \A n \in 1..Len(offers[o]) :
  offers[o][n] # NoKey => offers[o][n] \subseteq Tables /\ Cardinality(offers[o][n]) = o
=============================================================================
