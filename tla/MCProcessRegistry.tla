-------------------------- MODULE MCProcessRegistry --------------------------
(* Processes for the model checker.                                         *)
EXTENDS ProcessRegistry

CONSTANTS p1, p2, p3
=============================================================================
