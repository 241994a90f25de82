---------------------------- MODULE MCObservations ----------------------------
(* The instance of Observations that is model-checked.                      *)
EXTENDS Observations, TLC

CONSTANTS c1, c2, c3

MCClients == {c1, c2, c3}
Symmetric == Permutations(MCClients)
=============================================================================
