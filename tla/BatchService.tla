----------------------------- MODULE BatchService -----------------------------
(***************************************************************************)
(* What the data plane promises its callers, with nothing of how it does   *)
(* it: one call at a time has the desktop; a batch that ends puts its      *)
(* outcome on record, under its request id, in the step that answers it;   *)
(* a call whose batch is on record is given that outcome, and no batch     *)
(* begins whose id is on record.  What is on record may be forgotten when  *)
(* another batch ends.  A caller may give up: then its batch, begun or      *)
(* not, leaves nothing on record.                                          *)
(*                                                                         *)
(* A body and an answer are chosen by the step that first shows them:       *)
(* body'[c] \in Bodies says that the step picks any body.                    *)
(***************************************************************************)
CONSTANTS Calls,      \* the calls
          NoCall,     \* nobody has the desktop
          Bodies,     \* the bodies of batches: records with the request id
          NoBody,     \* the body of a call that posts no batch, or has not yet
          Outcomes,   \* what a batch that ran is answered
          Answers,    \* every answer
          NoAnswer    \* no answer yet

VARIABLES body,      \* the batch each call has posted
          answer,    \* what each call was answered
          executor,  \* the call that has the desktop
          record,    \* the outcomes on record, each with the body it is of
          gone       \* the calls whose caller gave up

vars == <<body, answer, executor, record, gone>>

Init ==
  /\ body = [c \in Calls |-> NoBody]
  /\ answer = [c \in Calls |-> NoAnswer]
  /\ executor = NoCall
  /\ record = {}
  /\ gone = {}

Open(c) == answer[c] = NoAnswer /\ c \notin gone

Answered(c, possible) == /\ answer'[c] \in possible
                         /\ answer' = [answer EXCEPT ![c] = answer'[c]]

Submit(c) ==
  /\ Open(c)
  /\ body[c] = NoBody
  /\ body'[c] \in Bodies
  /\ body' = [body EXCEPT ![c] = body'[c]]
  /\ UNCHANGED <<answer, executor, record, gone>>

(* An answer without an outcome: an error, a refusal or an observation.      *)
Decline(c) ==
  /\ Open(c) /\ executor # c
  /\ Answered(c, Answers \ Outcomes)
  /\ UNCHANGED <<body, executor, record, gone>>

Replay(c) ==
  /\ Open(c) /\ executor # c
  /\ \E entry \in record : /\ entry.digest = body[c]
                           /\ answer' = [answer EXCEPT ![c] = entry.result]
  /\ UNCHANGED <<body, executor, record, gone>>

Begin(c) ==
  /\ Open(c)
  /\ executor = NoCall
  /\ body[c] # NoBody => \A entry \in record : entry.digest.id # body[c].id
  /\ executor' = c
  /\ UNCHANGED <<body, answer, record, gone>>

EndBatch(c) ==
  LET entry == [digest |-> body[c], result |-> answer'[c]] IN
  /\ Open(c)
  /\ executor = c /\ executor' = NoCall
  /\ body[c] # NoBody
  /\ Answered(c, Outcomes)
  /\ entry \in record' /\ record' \subseteq record \cup {entry}
  /\ UNCHANGED <<body, gone>>

EndOther(c) ==
  /\ Open(c)
  /\ executor = c /\ executor' = NoCall
  /\ body[c] = NoBody
  /\ Answered(c, Answers \ Outcomes)
  /\ UNCHANGED <<body, record, gone>>

GiveUp(c) ==
  /\ Open(c)
  /\ gone' = gone \cup {c}
  /\ executor' = IF executor = c THEN NoCall ELSE executor
  /\ UNCHANGED <<body, answer, record>>

Next == \E c \in Calls : \/ Submit(c) \/ Decline(c) \/ Replay(c) \/ Begin(c)
                         \/ EndBatch(c) \/ EndOther(c) \/ GiveUp(c)

Spec == Init /\ [][Next]_vars
=============================================================================
