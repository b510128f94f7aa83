---------------------------- MODULE AsyncPoolMC ----------------------------
(***************************************************************************)
(* An instance of AsyncPool for TLC.                                       *)
(***************************************************************************)
EXTENDS AsyncPool

CONSTANTS main, helper  \* the owner, who submits tasks, and a user who waits

MCMaxCalls == [u \in Users |-> IF u = main THEN 2 ELSE 1]
=============================================================================
