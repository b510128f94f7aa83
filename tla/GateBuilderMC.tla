---------------------------- MODULE GateBuilderMC ----------------------------
(***************************************************************************)
(* Instances of GateBuilder for TLC.                                       *)
(***************************************************************************)
EXTENDS GateBuilder

\* From the smallest wirings to those with two odometer gates.
SingleWork == << <<1, 1>>, <<1, 2>>, <<2, 1>>, <<2, 2>>, <<2, 3>>, <<3, 3>>, <<2, 4>>,
                 <<3, 4>> >>

\* Work for a team: jobs that find a network, jobs that find none, and again.
TeamWork == << <<2, 1>>, <<1, 2>>, <<2, 1>> >>
=============================================================================
