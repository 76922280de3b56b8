--------------------------- MODULE MCObjectTree ----------------------------
(* Small instances of ObjectTree for TLC.                                   *)
EXTENDS ObjectTree, TLC

\* The objects, and the identifications, differ in their names only.
Symmetry == Permutations(Mobs) \cup Permutations(Slots) \cup Permutations(MobIds)
=============================================================================
