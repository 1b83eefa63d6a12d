------------------------------ MODULE MCDeploy ------------------------------
(* Two configs, between which the operator changes.                          *)
EXTENDS Deploy

CONSTANTS c1, c2
=============================================================================
