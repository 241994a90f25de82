--------------------------- MODULE ActionRefinement ---------------------------
(***************************************************************************)
(* ActionService implements BatchService.  The lock is who has the desktop, *)
(* the result store is the record, whatever its order, and a call has       *)
(* posted its batch once its handler has accepted it.                       *)
(***************************************************************************)
EXTENDS ActionService

NoBody   == [kind |-> "none"]
NoAnswer == [kind |-> "none"]

Accepted(c) == /\ pc[c] # "idle"
               /\ Request[c].op = "batch" /\ reply[c].kind # "invalid"

Body     == [c \in Calls |-> IF Accepted(c) THEN DigestOf(c) ELSE NoBody]
OnRecord == {results[i] : i \in DOMAIN results}
GivenUp  == {c \in Calls : pc[c] = "cancelled"}

Batches == INSTANCE BatchService WITH
  Bodies   <- Digest,
  Outcomes <- Result,
  Answers  <- Reply \ {NoAnswer},
  body     <- Body,
  answer   <- reply,
  executor <- actionLock,
  record   <- OnRecord,
  gone     <- GivenUp

(* Every step of the service, the two lookups, the retries, evictions and    *)
(* dropped handlers included, is a step of the promise or changes nothing of   *)
(* it.                                                                       *)
KeepsItsPromise == Batches!Spec
=============================================================================
