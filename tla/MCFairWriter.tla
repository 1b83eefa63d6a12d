---------------------------- MODULE MCFairWriter ----------------------------
(* FairWriter with model values; callers and connections are interchangeable. *)
EXTENDS FairWriter

Symmetry == Permutations(Callers) \cup Permutations(Cids)
=============================================================================
