----------------------------- MODULE MCSupervisor -----------------------------
(* The instances of Supervisor that are model-checked.                      *)
EXTENDS Supervisor

CONSTANTS r1, r2

OneDisplay == [r \in Runtimes |-> 99]
=============================================================================
