-------------------------- MODULE NandCombinatorMC --------------------------
(***************************************************************************)
(* Instances of NandCombinator for TLC.  The networks are made up so that  *)
(* the keys collide: within a record, between records of a group, between  *)
(* the files of a round and between rounds.                                *)
(***************************************************************************)
EXTENDS NandCombinator

CONSTANTS a, b, c   \* a and b have one output, c has two

MCKeys      == {a, b, c}
MCOutputsOf == [k \in MCKeys |-> IF k = c THEN 2 ELSE 1]

\* Rec(s1, s2): offers s1 with one output and s2 with two.
Rec(s1, s2) == <<s1, s2>>

\* Round 1 has files of three records, none and one: a partial last group, an
\* empty file, a file that ends while another thread still works on it, and the
\* same key from two threads.  Round 2 offers that key again, next to new ones,
\* and completes the keys of one output, then of two, in mid-round; round 3 is
\* skipped.
MCFiles ==
  << << <<Rec(<<a>>, << >>), Rec(<< >>, <<NoKey>>), Rec(<<a>>, << >>)>>,
        << >> >>,
     << <<Rec(<<b, a>>, <<NoKey>>)>>,
        <<Rec(<<b>>, <<NoKey, c>>)>> >>,
     << <<Rec(<<a>>, <<c>>)>> >> >>
MCHypSize == <<2, 1>>
=============================================================================
