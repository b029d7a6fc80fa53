---------------------------- MODULE MCOlderGraph ----------------------------
(***************************************************************************)
(* Older graphs for TLC, with symmetric global ids as in MCGraphStore.     *)
(***************************************************************************)
EXTENDS OlderGraph

Symmetry == Permutations(GlobalId)
=============================================================================
