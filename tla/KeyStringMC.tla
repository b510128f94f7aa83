----------------------------- MODULE KeyStringMC -----------------------------
(***************************************************************************)
(* An instance of KeyString for TLC: tables of two inputs.                 *)
(***************************************************************************)
EXTENDS KeyString

\* The 6 bits of a wire at their limits, in networks of one to three gates.
MCWirings == {<<0, 1>>, <<0, 63, 32, 31>>, <<1, 1, 2, 2, 5, 62>>}
MCSysOutputs == <<31, 0, 16, 5>>
=============================================================================
