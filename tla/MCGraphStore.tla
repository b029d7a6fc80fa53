---------------------------- MODULE MCGraphStore ----------------------------
(***************************************************************************)
(* Graphs for TLC.  Which global id is which makes no difference: local    *)
(* ids go by the order of arrival, so the global ids are symmetric.        *)
(***************************************************************************)
EXTENDS GraphStore

Symmetry == Permutations(GlobalId)
=============================================================================
