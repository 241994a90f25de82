---------------------------- MODULE InputSequence ----------------------------
(***************************************************************************)
(* What an action of a batch does to the buttons and keys held down on the *)
(* desktop, the validation that refuses a batch whose own actions would    *)
(* leave something held, and the clean-up after an action that failed.     *)
(*                                                                         *)
(* An action is a kind and the set of symbols (buttons and keys) it holds: *)
(*   "wait"  sleeps and injects nothing;                                   *)
(*   "tap"   injects input that presses and releases its symbols, in one    *)
(*           xdotool call (click, type_text, key_press) or over several     *)
(*           (drag, hold), or presses none (move, scroll);                  *)
(*   "down"  mouse_down and key_down, which hold their one symbol;         *)
(*   "up"    mouse_up and key_up.                                          *)
(***************************************************************************)
EXTENDS Naturals, Sequences

CONSTANTS Symbols,      \* the buttons and keys
          Releasable    \* those release_held_input lets go of

ASSUME ReleasableAssumption == Releasable \subseteq Symbols

Kinds == {"wait", "tap", "down", "up"}

Action == [kind : Kinds, symbols : SUBSET Symbols]

(* action_injects_input: every action but wait. *)
Injects(action) == action.kind # "wait"

-----------------------------------------------------------------------------
(* validate_input_sequence, one action at a time: the set of symbols the    *)
(* actions so far hold, or that they are already wrong.                      *)

Track(scan, action) ==
  CASE action.kind = "down" ->
         [ok |-> scan.ok /\ action.symbols \cap scan.held = {},
          held |-> scan.held \cup action.symbols]
    [] action.kind = "up" ->
         [ok |-> scan.ok /\ action.symbols \subseteq scan.held,
          held |-> scan.held \ action.symbols]
    [] OTHER -> scan

Scan(actions) ==
  LET scan[i \in 0..Len(actions)] ==
        IF i = 0 THEN [ok |-> TRUE, held |-> {}]
                 ELSE Track(scan[i - 1], actions[i])
  IN  scan[Len(actions)]

Balanced(actions) == LET end == Scan(actions) IN end.ok /\ end.held = {}

-----------------------------------------------------------------------------
(* What the desktop holds after the driver executed an action in full.      *)
HeldAfter(held, action) ==
  CASE action.kind = "down"         -> held \cup action.symbols
    [] action.kind \in {"up", "tap"} -> held \ action.symbols
    [] OTHER                        -> held

(* What it may hold after an execution that failed: any of the xdotool      *)
(* calls it consists of may have been the one that failed, and an xdotool    *)
(* killed at its deadline may have done all its work, or a part of it.       *)
HeldAfterFailure(held, action) ==
  CASE action.kind = "down" -> {held, held \cup action.symbols}
    [] action.kind = "up"   -> {held, held \ action.symbols}
    [] action.kind = "tap"  -> {(held \ action.symbols) \cup left :
                                  left \in SUBSET action.symbols}
    [] OTHER                -> {held}

(* release_held_input tries every releasable symbol, whatever fails.        *)
HeldAfterRelease(held) == held \ Releasable
HeldAfterFailedRelease(held) == {held \ freed : freed \in SUBSET Releasable}

=============================================================================
