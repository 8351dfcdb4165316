---------------------------- MODULE MCCoroutines ----------------------------
(* Coroutines on a small instance, in which the coroutines are interchangeable. *)
EXTENDS Coroutines, TLC

CoSymmetry == Permutations(Co)
=============================================================================
