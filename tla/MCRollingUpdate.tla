-------------------------- MODULE MCRollingUpdate ---------------------------
(* Instances of RollingUpdate for TLC.                                     *)
EXTENDS RollingUpdate

CONSTANT n1
=============================================================================
