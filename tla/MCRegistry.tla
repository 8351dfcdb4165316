----------------------------- MODULE MCRegistry -----------------------------
(* Registry with a few objects and values that TLC may permute. *)
EXTENDS Registry, TLC

Symmetry == Permutations(Object) \cup Permutations(Val)
=============================================================================
