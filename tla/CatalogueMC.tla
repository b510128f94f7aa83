----------------------------- MODULE CatalogueMC -----------------------------
(***************************************************************************)
(* Instances of Catalogue for TLC: all networks that gatebuilder stores,   *)
(* before it drops those that differ in the numbers of the gates only.     *)
(***************************************************************************)
EXTENDS Catalogue

Useful(i, n) == {<<i, w>> : w \in {w \in LoopFree(i, n) : IsUseful(w, i)}}

\* Gate n of a chain has input n + 1 and the gate before it, or input 0.
Chain(i) == [n \in 1..i - 1 |-> IF n = 1 THEN <<0, 1>> ELSE <<n, i + n - 2>>]

\* The smallest networks, one with as many gates as there may be outputs, and
\* chains for the sizes that are counted (3 inputs), not a number (4 and 5
\* inputs), powers (6 inputs) and infinite (9 inputs).
SmallNetworks ==
  Useful(1, 1) \cup Useful(2, 1) \cup Useful(2, 2) \cup Useful(2, 3)
    \cup {CHOOSE pair \in Useful(2, 4) : TRUE}
    \cup {<<i, Chain(i)>> : i \in {3, 4, 5, 6, 9}}

\* There are more than 70000 sets of so many of these tables.
SomeTablesMC == <<70000, 375, 76, 38>>
=============================================================================
