----------------------------- MODULE MCRelayHop -----------------------------
(* RelayHop for TLC: client connections are interchangeable.               *)
EXTENDS RelayHop, TLC

Symmetry == Permutations(Cids)
=============================================================================
