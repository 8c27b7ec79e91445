------------------------- MODULE MCTaskComposition --------------------------
(***************************************************************************)
(* Two overlapping requests on two tasks: what validate_part_of_edge reads *)
(* can have changed when the request commits.                              *)
(***************************************************************************)
EXTENDS TaskComposition, TLC

Symmetry == Permutations(Tasks) \union Permutations(Requests)
=============================================================================
