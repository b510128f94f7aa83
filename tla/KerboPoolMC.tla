----------------------------- MODULE KerboPoolMC -----------------------------
(***************************************************************************)
(* The lengths of three keys: two of them share their length, so that only *)
(* their bytes tell them apart.                                            *)
(***************************************************************************)
EXTENDS KerboPool

Lengths == [a |-> 1, b |-> 2, c |-> 2]
=============================================================================
