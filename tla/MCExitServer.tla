---------------------------- MODULE MCExitServer ----------------------------
(* ExitServer for TLC: client connections are interchangeable.             *)
EXTENDS ExitServer, TLC

Symmetry == Permutations(Cids)
=============================================================================
