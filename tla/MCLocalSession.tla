--------------------------- MODULE MCLocalSession ---------------------------
(* One session; for several of them the safety properties are theorems of   *)
(* LocalSession_proofs.                                                      *)
EXTENDS LocalSession

CONSTANT s1
=============================================================================
