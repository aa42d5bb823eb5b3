------------------------------ MODULE MCMQueue ------------------------------
(* MQueue with the sets that TLC may permute. *)
EXTENDS MQueue, TLC

ThreadSymmetry == Permutations(Producers) \cup Permutations(Consumers)
=============================================================================
