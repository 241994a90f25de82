------------------------- MODULE MCSessionLifecycle -------------------------
(* The instances of SessionLifecycle that are model-checked.                *)
EXTENDS SessionLifecycle, TLC

CONSTANTS p1, p2, p3

MCProcs == {p1, p2, p3}
AllCommands == {"open", "stop", "reset", "delete", "run", "status", "sessions"}
Changes     == {"open", "stop", "reset", "delete", "run"}
Symmetric == Permutations(MCProcs)
=============================================================================
