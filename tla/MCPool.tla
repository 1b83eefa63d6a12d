------------------------------- MODULE MCPool -------------------------------
(* One client at a time and one WSConn; Pool_proofs has any number of both.  *)
EXTENDS Pool

CONSTANT s1
=============================================================================
