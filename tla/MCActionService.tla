--------------------------- MODULE MCActionService ---------------------------
(* Workloads for the model checker.                                         *)
EXTENDS ActionRefinement, TLC

CONSTANTS c1, c2, c3, c4, c5, c6

Sym(kind, s) == [kind |-> kind, symbols |-> {s}]
Tap  == [kind |-> "tap", symbols |-> {}]
Wait == [kind |-> "wait", symbols |-> {}]

Batch(id, actions, stop, observe, basis) ==
  [op |-> "batch", id |-> id, actions |-> actions, stop |-> stop,
   observe |-> observe, basis |-> basis]
Other(op) == [Batch("none", <<>>, TRUE, "none", NoCall) EXCEPT !.op = op]

Press == <<Sym("down", "ctrl"), Sym("up", "ctrl")>>
Pair  == Batch("r1", Press, FALSE, "none", NoCall)
One   == Batch("r2", <<Sym("tap", "a")>>, TRUE, "none", NoCall)

MCIds == {"r1", "r2", "none"}

(* A batch, its retry, and another batch.                                   *)
RetryWork == [c \in Calls |-> (c1 :> Pair @@ c2 :> Pair @@ c3 :> One)[c]]

(* An observation, a batch based on it, a batch that reuses its id for        *)
(* another body, a window focus or a clipboard write, and an unbalanced batch. *)
Reused  == Batch("r1", <<Wait>>, TRUE, "final", NoCall)
Based   == Batch("r1", <<Tap, Wait>>, TRUE, "each", c1)
OpenEnd == Batch("r2", <<Sym("down", "a")>>, TRUE, "none", NoCall)
MixedWork ==
  [c \in Calls |-> (c1 :> Other("observe") @@ c2 :> Based @@ c3 :> Reused @@
                    c4 :> Other("focus") @@ c5 :> OpenEnd @@
                    c6 :> Other("clipboard"))[c]]

MCSymbols == {"ctrl", "a"}
MCReleasable == {"ctrl"}
=============================================================================
