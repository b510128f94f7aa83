---------------------------- MODULE KnowledgeMap ----------------------------
(***************************************************************************)
(* What the lore is to SaveOrIgnoreResult(): for every number of outputs a *)
(* map from keys to numbers of gates, in which a number only gets smaller. *)
(***************************************************************************)
EXTENDS Naturals

CONSTANTS
  Trees,  \* the maps, one for each number of outputs
  Keys,
  Gates,  \* numbers of gates, above 0
  None    \* a key that is not in the map

VARIABLES
  best,  \* best[tree][key]
  size   \* size[tree]: the number of keys, on which the end of a round depends

vars == <<best, size>>

Init ==
  /\ best = [tree \in Trees |-> [key \in Keys |-> None]]
  /\ size = [tree \in Trees |-> 0]

Insert(tree, key, gates) ==
  /\ best[tree][key] = None
  /\ best' = [best EXCEPT ![tree][key] = gates]
  /\ size' = [size EXCEPT ![tree] = @ + 1]

Improve(tree, key, gates) ==
  /\ best[tree][key] # None /\ gates < best[tree][key]
  /\ best' = [best EXCEPT ![tree][key] = gates]
  /\ UNCHANGED size

Clear(tree) ==
  /\ best' = [best EXCEPT ![tree] = [key \in Keys |-> None]]
  /\ size' = [size EXCEPT ![tree] = 0]

Next == \E tree \in Trees :
  \/ Clear(tree)
  \/ \E key \in Keys, gates \in Gates : Insert(tree, key, gates) \/ Improve(tree, key, gates)

Spec == Init /\ [][Next]_vars
=============================================================================
