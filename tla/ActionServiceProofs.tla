------------------------ MODULE ActionServiceProofs -------------------------
(***************************************************************************)
(* Proofs about ActionService, for every set of calls, every workload,       *)
(* every limit and every combination of faults: its types, what the action   *)
(* lock, the two cache lookups and the counting of input guarantee together, *)
(* and that it keeps the promise of BatchService.                            *)
(***************************************************************************)
EXTENDS ActionRefinement, TLAPS

(* A call that has arrived quotes an observation it was given, and only a   *)
(* call that is done has an answer.                                          *)
RepliesInv ==
  /\ \A c \in Calls : reply[c].kind # "none" => pc[c] = "done"
  /\ \A c \in Calls : pc[c] # "idle" /\ Request[c].basis # NoCall =>
       reply[Request[c].basis].kind = "observation"

(* An action that is being executed is one of the batch's.                  *)
ActionsInv ==
  /\ \A c \in Calls : pc[c] = "execute" => At(c) <= Len(Request[c].actions)
  /\ \A task \in orphans : task.step = "execute" =>
       task.at <= Len(Request[task.call].actions)
  /\ \A c \in Calls : pc[c] \in {"lookup"} \cup Handling => Request[c].op = "batch"
  /\ \A c \in Calls : pc[c] \in {"lookup", "lock"} /\ Request[c].op = "batch" =>
       Request[c].actions # <<>>
  /\ \A c \in Calls : pc[c] \in {"idle", "lookup", "lock"} => delivery[c] = <<>>

TypeInv == TypeOK /\ RepliesInv /\ ActionsInv

(* No handler has started in the initial state.                             *)
LEMMA TypeInit == Init => TypeInv
  BY CallsAssumption DEF Init, TypeInv, TypeOK, RepliesInv, ActionsInv, Reply, Waiting,
     Locking, Handling

(* What the constants give the proofs: the shape of a request.              *)
LEMMA RequestShape ==
  ASSUME NEW c \in Calls
  PROVE  /\ Request[c].op \in Ops
         /\ Request[c].id \in Ids
         /\ Request[c].actions \in Seq(Action)
         /\ Request[c].stop \in BOOLEAN
         /\ Request[c].observe \in {"none", "final", "each"}
         /\ Request[c].basis \in Calls \cup {NoCall}
  BY RequestAssumption DEF Requests

(* The way out of an action: the next one, the final capture, or the record. *)
LEMMA ProceedSteps ==
  ASSUME TypeOK, NEW c \in Calls, NEW log \in Seq(Statuses), Proceed(c, log)
  PROVE  /\ \E step \in {"execute", "final", "record"} : pc' = [pc EXCEPT ![c] = step]
         /\ job' \in [Calls -> {"idle", "running", "ok", "failed"}]
         /\ \E all \in Seq(Statuses) : delivery' = [delivery EXCEPT ![c] = all]
         /\ pc'[c] = "execute" => Len(delivery'[c]) < Len(Request[c].actions)
  <1> DEFINE total   == Len(Request[c].actions)
             stopped == Request[c].stop /\ \E i \in DOMAIN log : log[i] = "refused"
             skipped == [i \in 1..(total - Len(log)) |-> "skipped"]
  <1>1. total \in Nat /\ Len(log) \in Nat
    BY RequestShape
  <1>2. log \o skipped \in Seq(Statuses)
    <2>1. CASE total >= Len(log)
      <3>1. total - Len(log) \in Nat
        BY <1>1, <2>1
      <3>2. skipped \in Seq(Statuses)
        BY <3>1 DEF Statuses
      <3> QED
        BY <3>2
    <2>2. CASE total < Len(log)
      <3>1. 1..(total - Len(log)) = 1..0
        BY <1>1, <2>2
      <3>2. skipped \in Seq(Statuses)
        BY <3>1 DEF Statuses
      <3> QED
        BY <3>2
    <2> QED
      BY <1>1, <2>1, <2>2
  <1>3. CASE /\ ~stopped /\ Len(log) < total
             /\ delivery' = [delivery EXCEPT ![c] = log]
             /\ Waits(c, "execute")
    BY <1>3 DEF TypeOK, Waits
  <1>4. CASE /\ delivery' = [delivery EXCEPT ![c] = log \o skipped]
             /\ IF Request[c].observe = "final"
                THEN Waits(c, "final")
                ELSE /\ pc' = [pc EXCEPT ![c] = "record"]
                     /\ job' = [job EXCEPT ![c] = "idle"]
    BY <1>2, <1>4 DEF TypeOK, Waits
  <1> QED
    BY <1>3, <1>4 DEF Proceed

(* The steps of the loop of a batch: each leaves the handler inside the      *)
(* batch, executing one of its actions if any.                               *)
LoopStep(c) == ActionDelivered(c) \/ Released(c) \/ ActionObserved(c)

LEMMA LoopSteps ==
  ASSUME TypeInv, NEW c \in Calls, LoopStep(c)
  PROVE  /\ pc[c] \in {"execute", "release", "each"}
         /\ \E step \in {"execute", "each", "final", "record"} :
              pc' = [pc EXCEPT ![c] = step]
         /\ job' \in [Calls -> {"idle", "running", "ok", "failed"}]
         /\ \E log \in Seq(Statuses) : delivery' = [delivery EXCEPT ![c] = log]
         /\ pc'[c] = "execute" => Len(delivery'[c]) < Len(Request[c].actions)
         /\ \/ UNCHANGED <<generation, own>>
            \/ generation' = generation + 1 /\ own' = [own EXCEPT ![c] = @ + 1]
         /\ UNCHANGED <<before, seen, reply, actionLock, results, held, orphans, history>>
  <1> DEFINE Conclusion ==
               /\ \E step \in {"execute", "each", "final", "record"} :
                    pc' = [pc EXCEPT ![c] = step]
               /\ job' \in [Calls -> {"idle", "running", "ok", "failed"}]
               /\ \E log \in Seq(Statuses) : delivery' = [delivery EXCEPT ![c] = log]
               /\ pc'[c] = "execute" => Len(delivery'[c]) < Len(Request[c].actions)
  <1>1. delivery[c] \in Seq(Statuses)
    BY DEF TypeInv, TypeOK
  <1>2. ASSUME NEW log \in Seq(Statuses), Proceed(c, log)
        PROVE  Conclusion
    BY <1>2, ProceedSteps DEF TypeInv
  <1>3. CASE ActionDelivered(c)
    <2> DEFINE action == ActionOf(c, At(c))
               log == Append(delivery[c], Delivered(action))
    <2>1. log \in Seq(Statuses)
      BY <1>1 DEF Statuses, Delivered
    <2>2. CountInput(c, action)
      BY <1>3 DEF ActionDelivered
    <2>3. CASE Request[c].observe = "each"
      <3>1. delivery' = [delivery EXCEPT ![c] = log] /\ Waits(c, "each")
        BY <1>3, <2>3 DEF ActionDelivered
      <3>2. Conclusion
        BY <2>1, <3>1 DEF Waits, TypeInv, TypeOK
      <3> QED
        BY <1>3, <2>2, <3>2 DEF ActionDelivered, CountInput
    <2>4. CASE Request[c].observe # "each"
      <3>1. Proceed(c, log)
        BY <1>3, <2>4 DEF ActionDelivered
      <3>2. Conclusion
        BY <1>2, <2>1, <3>1
      <3> QED
        BY <1>3, <2>2, <3>2 DEF ActionDelivered, CountInput
    <2> QED
      BY <2>3, <2>4
  <1>4. CASE Released(c)
    <2>1. Append(delivery[c], "refused") \in Seq(Statuses)
      BY <1>1 DEF Statuses
    <2>2. Conclusion
      BY <1>2, <1>4, <2>1 DEF Released
    <2> QED
      BY <1>4, <2>2 DEF Released
  <1>5. CASE ActionObserved(c)
    <2>1. Conclusion
      BY <1>1, <1>2, <1>5 DEF ActionObserved
    <2> QED
      BY <1>5, <2>1 DEF ActionObserved
  <1> QED
    BY <1>3, <1>4, <1>5 DEF LoopStep

(* The loop of a batch keeps the types.                                     *)
LEMMA LoopType ==
  ASSUME TypeInv, NEW c \in Calls, LoopStep(c)
  PROVE  TypeOK'
  <1>1. PICK step \in {"execute", "each", "final", "record"} :
          pc' = [pc EXCEPT ![c] = step]
    BY LoopSteps
  <1>2. PICK log \in Seq(Statuses) : delivery' = [delivery EXCEPT ![c] = log]
    BY LoopSteps
  <1>3. pc' \in [Calls -> {"idle", "done", "cancelled"} \cup Waiting]
    BY <1>1 DEF TypeInv, TypeOK, Waiting, Locking, Handling
  <1>4. delivery' \in [Calls -> Seq(Statuses)]
    BY <1>2 DEF TypeInv, TypeOK
  <1>5. generation' \in Nat /\ own' \in [Calls -> Nat]
    <2>1. \/ UNCHANGED <<generation, own>>
          \/ generation' = generation + 1 /\ own' = [own EXCEPT ![c] = @ + 1]
      BY LoopSteps
    <2>2. generation \in Nat /\ own \in [Calls -> Nat]
      BY DEF TypeInv, TypeOK
    <2>3. CASE generation' = generation + 1 /\ own' = [own EXCEPT ![c] = @ + 1]
      BY <2>2, <2>3
    <2> QED
      BY <2>1, <2>2, <2>3
  <1>6. /\ job' \in [Calls -> {"idle", "running", "ok", "failed"}]
        /\ UNCHANGED <<before, seen, reply, actionLock, results, held, orphans, history>>
    BY LoopSteps
  <1> QED
    BY <1>3, <1>4, <1>5, <1>6 DEF TypeInv, TypeOK, history

(* The digest of a batch that arrived is one the result store holds.        *)
LEMMA DigestType ==
  ASSUME TypeInv, NEW c \in Calls, pc[c] # "idle"
  PROVE  DigestOf(c) \in Digest
  <1>1. Expected(c) \in SUBSET Nat
    <2>1. CASE Request[c].basis = NoCall
      BY <2>1 DEF Expected
    <2>2. CASE Request[c].basis # NoCall
      <3>1. Request[c].basis \in Calls /\ reply[Request[c].basis].kind = "observation"
        BY <2>2, RequestShape DEF TypeInv, RepliesInv
      <3>2. reply[Request[c].basis] \in Observation
        BY <3>1 DEF TypeInv, TypeOK, Reply, Result, Observation
      <3> QED
        BY <2>2, <3>2 DEF Expected, Observation
    <2> QED
      BY <2>1, <2>2
  <1> QED
    BY <1>1, RequestShape DEF DigestOf, Digest

(* What a batch reports is a result.                                        *)
LEMMA ResultType ==
  ASSUME TypeOK, NEW c \in Calls
  PROVE  ResultOf(c) \in Result
  BY DEF TypeOK, ResultOf, Result

(* Inserting makes a store of a store.                                      *)
LEMMA InsertType ==
  ASSUME NEW store \in Seq(CachedResult), NEW entry \in CachedResult
  PROVE  Insert(store, entry) \in Seq(CachedResult)
  BY LimitAssumption DEF Insert

(* What an insertion evicts went by a request id.                           *)
LEMMA EvictedType ==
  ASSUME NEW store \in Seq(CachedResult)
  PROVE  Evicted(store) \subseteq Ids
  <1>1. CASE Len(store) < MaxResults
    BY <1>1 DEF Evicted
  <1>2. CASE ~(Len(store) < MaxResults)
    <2>1. Head(store) \in CachedResult
      BY <1>2, LimitAssumption
    <2> QED
      BY <1>2, <2>1 DEF Evicted, CachedResult, Digest
  <1> QED
    BY <1>1, <1>2

(* A blocking call leaves the desktop well typed.                           *)
LEMMA DesktopType ==
  ASSUME TypeInv, NEW task \in Task, Succeeds(task) \/ Fails(task),
         task.step = "execute" => task.at \in DOMAIN Request[task.call].actions
  PROVE  held' \subseteq Symbols /\ inputs' \in Nat /\ vain' \in Nat
  <1>1. inputs' \in Nat /\ vain' \in Nat
    BY DEF TypeInv, TypeOK, Succeeds, Fails
  <1>2. task.step = "execute" => ActionOf(task.call, task.at) \in Action
    <2>1. task.call \in Calls
      BY DEF Task
    <2> QED
      BY <2>1, RequestShape DEF ActionOf
  <1>3. CASE task.step = "execute" /\ Succeeds(task)
    BY <1>2, <1>3 DEF Succeeds, HeldAfter, Action, TypeInv, TypeOK
  <1>4. CASE task.step = "execute" /\ Fails(task)
    BY <1>2, <1>4 DEF Fails, HeldAfterFailure, Action, TypeInv, TypeOK
  <1>5. CASE task.step # "execute" /\ Succeeds(task)
    BY <1>5 DEF Succeeds, HeldAfterRelease, TypeInv, TypeOK
  <1>6. CASE task.step # "execute" /\ Fails(task)
    BY <1>6 DEF Fails, HeldAfterFailedRelease, TypeInv, TypeOK
  <1> QED
    BY <1>1, <1>3, <1>4, <1>5, <1>6

(* The task a live handler waits for is one the desktop lemma speaks about.  *)
LEMMA TaskOfType ==
  ASSUME TypeInv, NEW c \in Calls, pc[c] \in Working
  PROVE  /\ TaskOf(c) \in Task
         /\ TaskOf(c).step = "execute" =>
              TaskOf(c).at \in DOMAIN Request[TaskOf(c).call].actions
  <1>1. delivery[c] \in Seq(Statuses) /\ At(c) \in Nat \ {0}
    BY DEF TypeInv, TypeOK, At
  <1>2. TaskOf(c) \in Task
    BY <1>1 DEF TaskOf, Task
  <1>3. pc[c] = "execute" => At(c) \in 1..Len(Request[c].actions)
    BY <1>1, RequestShape DEF TypeInv, ActionsInv
  <1> QED
    BY <1>2, <1>3, RequestShape DEF TaskOf

(* Every step keeps the types.                                              *)
LEMMA TypeOKNext == TypeInv /\ [Next]_vars => TypeOK'
  <1> SUFFICES ASSUME TypeInv, [Next]_vars PROVE TypeOK'
    OBVIOUS
  <1> USE DEF TypeInv, TypeOK, Reply, Waiting, Locking, Handling, local, history
  <1>1. ASSUME NEW c \in Calls, Arrive(c) PROVE TypeOK'
    <2>1. pc' \in [Calls -> {"idle", "done", "cancelled"} \cup Waiting]
      <3>1. \E step \in {"lookup", "lock", "observe", "done"} :
              pc' = [pc EXCEPT ![c] = step]
        BY <1>1 DEF Arrive, Answer, Waits
      <3> QED
        BY <3>1
    <2>2. job' \in [Calls -> {"idle", "running", "ok", "failed"}]
      BY <1>1 DEF Arrive, Waits
    <2>3. reply' \in [Calls -> Reply]
      <3>1. \/ reply' = reply
            \/ reply' = [reply EXCEPT ![c] = [kind |-> "invalid"]]
        BY <1>1 DEF Arrive, Answer
      <3>2. [kind |-> "invalid"] \in Reply
        OBVIOUS
      <3> QED
        BY <3>1, <3>2
    <2> QED
      BY <1>1, <2>1, <2>2, <2>3 DEF Arrive
  <1>2. ASSUME NEW c \in Calls, ReturnRecorded(c) PROVE TypeOK'
    <2>1. PICK i \in DOMAIN results : Answer(c, results[i].result)
      BY <1>2 DEF ReturnRecorded
    <2>2. results[i].result \in Reply
      <3>1. results[i] \in CachedResult
        OBVIOUS
      <3> QED
        BY <3>1 DEF CachedResult
    <2> QED
      BY <1>2, <2>1, <2>2 DEF ReturnRecorded, Answer
  <1>3. ASSUME NEW c \in Calls, RefuseConflict(c) PROVE TypeOK'
    BY <1>3 DEF RefuseConflict, Answer
  <1>4. ASSUME NEW c \in Calls, WaitForLock(c) PROVE TypeOK'
    BY <1>4 DEF WaitForLock
  <1>5. ASSUME NEW c \in Calls, RefuseStale(c) PROVE TypeOK'
    BY <1>5 DEF RefuseStale, Answer
  <1>6. ASSUME NEW c \in Calls, Admit(c) PROVE TypeOK'
    <2>1. Request[c].id \in Ids
      BY RequestShape
    <2>2. admitted' \in [Ids -> Nat]
      <3>1. admitted' = [admitted EXCEPT ![Request[c].id] = @ + 1]
        BY <1>6 DEF Admit
      <3>2. admitted[Request[c].id] + 1 \in Nat
        BY <2>1
      <3> QED
        BY <3>1, <3>2
    <2>3. pc' \in [Calls -> {"idle", "done", "cancelled"} \cup Waiting]
      BY <1>6 DEF Admit, Waits
    <2> QED
      BY <1>6, <2>2, <2>3 DEF Admit, Waits
  <1>7. ASSUME NEW c \in Calls, LoopStep(c) PROVE TypeOK'
    BY <1>7, LoopType
  <1>8. ASSUME NEW c \in Calls, ActionRefused(c) PROVE TypeOK'
    <2>1. orphans' \subseteq Task
      <3>1. TaskOf(c) \in Task
        BY <1>8, TaskOfType DEF ActionRefused, Working
      <3> QED
        BY <1>8, <3>1 DEF ActionRefused
    <2>2. /\ pc' = [pc EXCEPT ![c] = "release"]
          /\ job' = [job EXCEPT ![c] = "running"]
      BY <1>8 DEF ActionRefused, Waits
    <2> QED
      BY <1>8, <2>1, <2>2 DEF ActionRefused
  <1>9. ASSUME NEW c \in Calls, BatchObserved(c) PROVE TypeOK'
    BY <1>9 DEF BatchObserved
  <1>10. ASSUME NEW c \in Calls, Record(c) PROVE TypeOK'
    <2>1. ResultOf(c) \in Result
      BY ResultType
    <2>2. DigestOf(c) \in Digest
      BY <1>10, DigestType DEF Record
    <2>3. results' \in Seq(CachedResult)
      BY <1>10, <2>1, <2>2, InsertType DEF Record, Entry, CachedResult
    <2>4. forgotten' \subseteq Ids
      BY <1>10, EvictedType DEF Record
    <2> QED
      BY <1>10, <2>1, <2>3, <2>4 DEF Record, Answer
  <1>11. ASSUME NEW c \in Calls, StartLocked(c) PROVE TypeOK'
    BY <1>11 DEF StartLocked, Waits
  <1>12. ASSUME NEW c \in Calls, EndLocked(c) PROVE TypeOK'
    BY <1>12 DEF EndLocked, Answer
  <1>13. ASSUME NEW c \in Calls, ReturnObservation(c) PROVE TypeOK'
    BY <1>13 DEF ReturnObservation, Answer, Observation
  <1>14. ASSUME NEW c \in Calls, FailObservation(c) PROVE TypeOK'
    BY <1>14 DEF FailObservation, Answer
  <1>15. ASSUME NEW c \in Calls, JobSucceeds(c) PROVE TypeOK'
    <2>1. held' \subseteq Symbols /\ inputs' \in Nat /\ vain' \in Nat
      BY <1>15, TaskOfType, DesktopType DEF JobSucceeds
    <2> QED
      BY <1>15, <2>1 DEF JobSucceeds
  <1>16. ASSUME NEW c \in Calls, JobFails(c) PROVE TypeOK'
    <2>1. held' \subseteq Symbols /\ inputs' \in Nat /\ vain' \in Nat
      BY <1>16, TaskOfType, DesktopType DEF JobFails
    <2> QED
      BY <1>16, <2>1 DEF JobFails
  <1>17. ASSUME NEW c \in Calls, Capture(c) PROVE TypeOK'
    <2>1. job' \in [Calls -> {"idle", "running", "ok", "failed"}]
      BY <1>17 DEF Capture
    <2>2. seen' \in [Calls -> Nat]
      BY <1>17 DEF Capture
    <2> QED
      BY <1>17, <2>1, <2>2 DEF Capture
  <1>18. ASSUME NEW c \in Calls, Cancel(c) PROVE TypeOK'
    BY <1>18, RequestShape DEF Cancel, TaskOf, Task, Working, At
  <1>19. ASSUME NEW task \in orphans, OrphanEnds(task) PROVE TypeOK'
    <2>1. task \in Task
      BY <1>19
    <2>2. task.step = "execute" => task.at \in DOMAIN Request[task.call].actions
      <3>1. task.call \in Calls /\ task.at \in Nat \ {0}
        BY <2>1 DEF Task
      <3>2. task.step = "execute" => task.at <= Len(Request[task.call].actions)
        BY DEF ActionsInv
      <3> QED
        BY <3>1, <3>2, RequestShape
    <2>3. held' \subseteq Symbols /\ inputs' \in Nat /\ vain' \in Nat
      BY <1>19, <2>1, <2>2, DesktopType DEF OrphanEnds
    <2> QED
      BY <1>19, <2>3 DEF OrphanEnds
  <1>20. CASE HumanInput
    BY <1>20 DEF HumanInput
  <1>21. CASE UNCHANGED vars
    BY <1>21 DEF vars
  <1> QED
    BY <1>1, <1>2, <1>3, <1>4, <1>5, <1>6, <1>7, <1>8, <1>9, <1>10,
       <1>11, <1>12, <1>13, <1>14, <1>15, <1>16, <1>17, <1>18, <1>19, <1>20,
       <1>21
    DEF Next, Handler, Driver, Finished, LoopStep

(* An answer never changes an observation some other call was given.        *)
LEMMA AnswerKeepsReplies ==
  ASSUME TypeInv, NEW c \in Calls, NEW r, Answer(c, r), pc[c] # "done",
         Request[c].basis # NoCall =>
           reply[Request[c].basis].kind = "observation"
  PROVE  RepliesInv'
  <1>1. /\ pc' \in [Calls -> {"idle", "done", "cancelled"} \cup Waiting]
        /\ pc'[c] = "done"
        /\ \A d \in Calls \ {c} : pc'[d] = pc[d] /\ reply'[d] = reply[d]
    BY DEF Answer, TypeInv, TypeOK
  <1>2. reply[c].kind = "none"
    BY DEF TypeInv, RepliesInv
  <1>3. \A d \in Calls : reply'[d].kind # "none" => pc'[d] = "done"
    BY <1>1 DEF TypeInv, RepliesInv
  <1>4. \A d \in Calls : pc'[d] # "idle" /\ Request[d].basis # NoCall =>
          /\ reply[Request[d].basis].kind = "observation"
          /\ Request[d].basis \in Calls \ {c}
    BY <1>1, <1>2, RequestShape DEF TypeInv, RepliesInv
  <1> QED
    BY <1>1, <1>3, <1>4 DEF RepliesInv

(* A quoted observation stays the one that was given.                       *)
LEMMA RepliesNext == TypeInv /\ [Next]_vars => RepliesInv'
  <1> SUFFICES ASSUME TypeInv, [Next]_vars PROVE RepliesInv'
    OBVIOUS
  <1> USE DEF TypeInv, RepliesInv
  <1>1. ASSUME NEW c \in Calls, Arrive(c) PROVE RepliesInv'
    <2>1. CASE Answer(c, [kind |-> "invalid"])
      BY <1>1, <2>1, AnswerKeepsReplies DEF Arrive
    <2>2. CASE UNCHANGED reply /\ \E step : pc' = [pc EXCEPT ![c] = step]
      <3>1. /\ pc[c] = "idle" /\ reply[c].kind = "none"
            /\ Request[c].basis # NoCall =>
                 reply[Request[c].basis].kind = "observation"
        BY <1>1 DEF Arrive
      <3>2. \A d \in Calls \ {c} : pc'[d] = pc[d]
        BY <2>2 DEF TypeOK
      <3> QED
        BY <2>2, <3>1, <3>2
    <2> QED
      BY <1>1, <2>1, <2>2 DEF Arrive, Waits
  <1>2. ASSUME NEW c \in Calls, ReturnRecorded(c) PROVE RepliesInv'
    <2>1. PICK i \in DOMAIN results : Answer(c, results[i].result)
      BY <1>2 DEF ReturnRecorded
    <2> QED
      BY <1>2, <2>1, AnswerKeepsReplies DEF ReturnRecorded, LooksUp
  <1>3. ASSUME NEW c \in Calls, RefuseConflict(c) PROVE RepliesInv'
    BY <1>3, AnswerKeepsReplies DEF RefuseConflict, LooksUp
  <1>4. ASSUME NEW c \in Calls, WaitForLock(c) PROVE RepliesInv'
    BY <1>4 DEF WaitForLock, TypeOK
  <1>5. ASSUME NEW c \in Calls, RefuseStale(c) PROVE RepliesInv'
    BY <1>5, AnswerKeepsReplies DEF RefuseStale, CanLock
  <1>6. ASSUME NEW c \in Calls, Admit(c) PROVE RepliesInv'
    BY <1>6 DEF Admit, CanLock, Waits, TypeOK
  <1>7. ASSUME NEW c \in Calls, LoopStep(c) PROVE RepliesInv'
    <2>1. PICK step \in {"execute", "each", "final", "record"} :
            pc' = [pc EXCEPT ![c] = step]
      BY <1>7, LoopSteps
    <2>2. pc[c] \in {"execute", "release", "each"} /\ UNCHANGED reply
      BY <1>7, LoopSteps
    <2> QED
      BY <2>1, <2>2 DEF TypeOK
  <1>8. ASSUME NEW c \in Calls, ActionRefused(c) PROVE RepliesInv'
    BY <1>8 DEF ActionRefused, Waits, TypeOK
  <1>9. ASSUME NEW c \in Calls, BatchObserved(c) PROVE RepliesInv'
    BY <1>9 DEF BatchObserved, TypeOK
  <1>10. ASSUME NEW c \in Calls, Record(c) PROVE RepliesInv'
    BY <1>10, AnswerKeepsReplies DEF Record
  <1>11. ASSUME NEW c \in Calls, StartLocked(c) PROVE RepliesInv'
    BY <1>11 DEF StartLocked, CanLock, Waits, TypeOK
  <1>12. ASSUME NEW c \in Calls, EndLocked(c) PROVE RepliesInv'
    BY <1>12, AnswerKeepsReplies DEF EndLocked
  <1>13. ASSUME NEW c \in Calls, ReturnObservation(c) PROVE RepliesInv'
    BY <1>13, AnswerKeepsReplies DEF ReturnObservation
  <1>14. ASSUME NEW c \in Calls, FailObservation(c) PROVE RepliesInv'
    BY <1>14, AnswerKeepsReplies DEF FailObservation
  <1>15. ASSUME NEW c \in Calls, JobSucceeds(c) PROVE RepliesInv'
    BY <1>15 DEF JobSucceeds
  <1>16. ASSUME NEW c \in Calls, JobFails(c) PROVE RepliesInv'
    BY <1>16 DEF JobFails
  <1>17. ASSUME NEW c \in Calls, Capture(c) PROVE RepliesInv'
    BY <1>17 DEF Capture
  <1>18. ASSUME NEW c \in Calls, Cancel(c) PROVE RepliesInv'
    BY <1>18 DEF Cancel, Waiting, Locking, Handling, TypeOK
  <1>19. ASSUME NEW task \in orphans, OrphanEnds(task) PROVE RepliesInv'
    BY <1>19 DEF OrphanEnds, local
  <1>20. CASE HumanInput
    BY <1>20 DEF HumanInput, local
  <1>21. CASE UNCHANGED vars
    BY <1>21 DEF vars, local
  <1> QED
    BY <1>1, <1>2, <1>3, <1>4, <1>5, <1>6, <1>7, <1>8, <1>9, <1>10,
       <1>11, <1>12, <1>13, <1>14, <1>15, <1>16, <1>17, <1>18, <1>19, <1>20,
       <1>21
    DEF Next, Handler, Driver, Finished, LoopStep

(* Handlers stay within the actions of their batch.                         *)
LEMMA ActionsNext == TypeInv /\ [Next]_vars => ActionsInv'
  <1> SUFFICES ASSUME TypeInv, [Next]_vars PROVE ActionsInv'
    OBVIOUS
  <1> USE DEF TypeInv
  <1>1. ASSUME NEW c \in Calls, Arrive(c) PROVE ActionsInv'
    <2>1. \E step \in {"lookup", "lock", "observe", "done"} :
            /\ pc' = [pc EXCEPT ![c] = step]
            /\ step = "lookup" => Request[c].op = "batch"
            /\ step \in {"lookup", "lock"} /\ Request[c].op = "batch" =>
                 Request[c].actions # <<>>
      BY <1>1 DEF Arrive, Answer, Waits, Valid
    <2>2. UNCHANGED <<delivery, orphans>> /\ pc[c] = "idle"
      BY <1>1 DEF Arrive
    <2> QED
      BY <2>1, <2>2 DEF ActionsInv, TypeOK, Handling, At
  <1>2. ASSUME NEW c \in Calls, ReturnRecorded(c) PROVE ActionsInv'
    BY <1>2 DEF ReturnRecorded, At, ActionsInv, TypeOK, Handling, LooksUp, Answer
  <1>3. ASSUME NEW c \in Calls, RefuseConflict(c) PROVE ActionsInv'
    BY <1>3 DEF RefuseConflict, At, ActionsInv, TypeOK, Handling, LooksUp, Answer
  <1>4. ASSUME NEW c \in Calls, WaitForLock(c) PROVE ActionsInv'
    BY <1>4 DEF WaitForLock, At, ActionsInv, TypeOK, Handling
  <1>5. ASSUME NEW c \in Calls, RefuseStale(c) PROVE ActionsInv'
    BY <1>5 DEF RefuseStale, At, ActionsInv, TypeOK, Handling, Answer
  <1>6. ASSUME NEW c \in Calls, Admit(c) PROVE ActionsInv'
    <2>1. Len(Request[c].actions) >= 1
      <3>1. Request[c].actions \in Seq(Action) /\ Request[c].actions # <<>>
        BY <1>6, RequestShape DEF Admit, CanLock, ActionsInv
      <3> QED
        BY <3>1
    <2>2. At(c) = 1
      BY <1>6 DEF Admit, CanLock, ActionsInv, At
    <2>3. /\ pc' = [pc EXCEPT ![c] = "execute"]
          /\ UNCHANGED <<delivery, orphans>> /\ Request[c].op = "batch" /\ pc[c] = "lock"
      BY <1>6 DEF Admit, CanLock, Waits
    <2> QED
      BY <2>1, <2>2, <2>3 DEF ActionsInv, At, TypeOK, Handling
  <1>7. ASSUME NEW c \in Calls, LoopStep(c) PROVE ActionsInv'
    <2>1. PICK step \in {"execute", "each", "final", "record"} :
            pc' = [pc EXCEPT ![c] = step]
      BY <1>7, LoopSteps
    <2>2. PICK log \in Seq(Statuses) : delivery' = [delivery EXCEPT ![c] = log]
      BY <1>7, LoopSteps
    <2>3. pc[c] \in {"execute", "release", "each"} /\ UNCHANGED orphans
      BY <1>7, LoopSteps
    <2>4. pc'[c] = "execute" => At(c)' <= Len(Request[c].actions)
      <3>1. pc'[c] = "execute" => Len(delivery'[c]) < Len(Request[c].actions)
        BY <1>7, LoopSteps
      <3>2. delivery'[c] \in Seq(Statuses)
        BY <2>2 DEF TypeOK
      <3>3. Len(delivery'[c]) \in Nat /\ Len(Request[c].actions) \in Nat
        BY <3>2, RequestShape
      <3> QED
        BY <3>1, <3>3 DEF At
    <2> QED
      BY <2>1, <2>2, <2>3, <2>4 DEF ActionsInv, At, TypeOK, Handling
  <1>8. ASSUME NEW c \in Calls, ActionRefused(c) PROVE ActionsInv'
    BY <1>8 DEF ActionRefused, At, ActionsInv, TypeOK, Handling, Waits, TaskOf
  <1>9. ASSUME NEW c \in Calls, BatchObserved(c) PROVE ActionsInv'
    BY <1>9 DEF BatchObserved, At, ActionsInv, TypeOK, Handling
  <1>10. ASSUME NEW c \in Calls, Record(c) PROVE ActionsInv'
    BY <1>10 DEF Record, At, ActionsInv, TypeOK, Handling, Answer
  <1>11. ASSUME NEW c \in Calls, StartLocked(c) PROVE ActionsInv'
    BY <1>11 DEF StartLocked, At, ActionsInv, TypeOK, Handling, Waits, CanLock
  <1>12. ASSUME NEW c \in Calls, EndLocked(c) PROVE ActionsInv'
    BY <1>12 DEF EndLocked, At, ActionsInv, TypeOK, Handling, Answer
  <1>13. ASSUME NEW c \in Calls, ReturnObservation(c) PROVE ActionsInv'
    BY <1>13 DEF ReturnObservation, At, ActionsInv, TypeOK, Handling, Answer
  <1>14. ASSUME NEW c \in Calls, FailObservation(c) PROVE ActionsInv'
    BY <1>14 DEF FailObservation, At, ActionsInv, TypeOK, Handling, Answer
  <1>15. ASSUME NEW c \in Calls, JobSucceeds(c) PROVE ActionsInv'
    BY <1>15 DEF JobSucceeds, At, ActionsInv, TypeOK, Handling
  <1>16. ASSUME NEW c \in Calls, JobFails(c) PROVE ActionsInv'
    BY <1>16 DEF JobFails, At, ActionsInv, TypeOK, Handling
  <1>17. ASSUME NEW c \in Calls, Capture(c) PROVE ActionsInv'
    BY <1>17 DEF Capture, At, ActionsInv, TypeOK, Handling
  <1>18. ASSUME NEW c \in Calls, Cancel(c) PROVE ActionsInv'
    BY <1>18 DEF Cancel, At, ActionsInv, TypeOK, Handling, TaskOf
  <1>19. ASSUME NEW task \in orphans, OrphanEnds(task) PROVE ActionsInv'
    BY <1>19 DEF OrphanEnds, local, At, ActionsInv
  <1>20. CASE HumanInput
    BY <1>20 DEF HumanInput, local, At, ActionsInv
  <1>21. CASE UNCHANGED vars
    BY <1>21 DEF vars, local, At, ActionsInv
  <1> QED
    BY <1>1, <1>2, <1>3, <1>4, <1>5, <1>6, <1>7, <1>8, <1>9, <1>10,
       <1>11, <1>12, <1>13, <1>14, <1>15, <1>16, <1>17, <1>18, <1>19, <1>20,
       <1>21
    DEF Next, Handler, Driver, Finished, LoopStep

(* The types, and what a handler and a detached call may refer to, hold in  *)
(* every reachable state.                                                    *)
THEOREM TypeCorrect == Spec => []TypeInv
  <1>1. TypeInv /\ [Next]_vars => TypeInv'
    BY TypeOKNext, RepliesNext, ActionsNext DEF TypeInv
  <1> QED
    BY TypeInit, <1>1, PTL DEF Spec

(* Every variable keeps its type.                                           *)
THEOREM WellTyped == Spec => []TypeOK
  <1>1. TypeInv => TypeOK
    BY DEF TypeInv
  <1> QED
    BY TypeCorrect, <1>1, PTL

-----------------------------------------------------------------------------
(***************************************************************************)
(* The safety invariants, on top of the types.                               *)
(***************************************************************************)

(* The lock is held exactly by the handler that is past it.                 *)
LockInv == \A c \in Calls : pc[c] \in Locking <=> actionLock = c

(* A batch in flight is not recorded yet, so recording it adds a new id.    *)
CacheInv ==
  /\ ResultsWellFormed
  /\ \A c \in Calls : pc[c] \in Handling => Missing(Request[c].id)

(* A batch that was executed is in flight or on record.                     *)
Recorded(id) == \E i \in DOMAIN results : results[i].digest.id = id
InFlight(id) == \E c \in Calls : pc[c] \in Handling /\ Request[c].id = id
RepeatInv == \A id \in Ids \ forgotten :
  \/ admitted[id] = 0
  \/ admitted[id] = 1 /\ (Recorded(id) \/ InFlight(id))

(* Whoever was answered with a result was answered with the one on record.  *)
ReplayInv ==
  \A c \in Calls : reply[c].kind = "result" /\ Request[c].id \notin forgotten =>
    \E i \in DOMAIN results : /\ results[i].digest.id = Request[c].id
                              /\ results[i].result = reply[c]

(* Only the batch in flight and human input move the generation.            *)
CountInv ==
  /\ OnlyHumanInputInterferes
  /\ \A c \in Calls : pc[c] \in {"idle", "lookup", "lock"} => own[c] = 0

Safety == LockInv /\ CacheInv /\ RepeatInv /\ ReplayInv /\ CountInv

-----------------------------------------------------------------------------
(* Inserting keeps every entry but the evicted one, in order, and adds the   *)
(* new one at the end.                                                       *)
Shift(store) == IF Len(store) < MaxResults THEN 0 ELSE 1

LEMMA InsertKeeps ==
  ASSUME NEW store \in Seq(CachedResult), NEW entry \in CachedResult,
         Len(store) <= MaxResults,
         NEW new, new = Insert(store, entry)
  PROVE  /\ Len(new) \in 1..MaxResults
         /\ DOMAIN new = 1..Len(new)
         /\ new[Len(new)] = entry
         /\ \A i \in 1..(Len(new) - 1) : /\ i + Shift(store) \in DOMAIN store
                                         /\ new[i] = store[i + Shift(store)]
         /\ \A j \in DOMAIN store :
              \/ store[j].digest.id \in Evicted(store)
              \/ /\ j - Shift(store) \in 1..(Len(new) - 1)
                 /\ new[j - Shift(store)] = store[j]
  <1>1. CASE Len(store) < MaxResults
    <2>1. new = Append(store, entry) /\ Shift(store) = 0
      BY <1>1 DEF Insert, Shift
    <2> QED
      BY <1>1, <2>1, LimitAssumption
  <1>2. CASE Len(store) = MaxResults
    <2>1. new = Append(Tail(store), entry) /\ Shift(store) = 1
      BY <1>2, LimitAssumption DEF Insert, Shift
    <2>2. Evicted(store) = {store[1].digest.id}
      BY <1>2, LimitAssumption DEF Evicted
    <2>3. /\ Tail(store) \in Seq(CachedResult)
          /\ Len(Tail(store)) = MaxResults - 1
          /\ \A i \in 1..(MaxResults - 1) : Tail(store)[i] = store[i + 1]
      BY <1>2, LimitAssumption
    <2>4. /\ Len(new) = MaxResults /\ DOMAIN new = 1..MaxResults
          /\ new[MaxResults] = entry
          /\ \A i \in 1..(MaxResults - 1) : new[i] = store[i + 1]
      BY <2>1, <2>3, LimitAssumption
    <2>5. \A j \in DOMAIN store :
            \/ j = 1
            \/ j - 1 \in 1..(MaxResults - 1) /\ new[j - 1] = store[j]
      BY <1>2, <2>4, LimitAssumption
    <2>6. \A i \in 1..(MaxResults - 1) : i + 1 \in DOMAIN store
      BY <1>2, LimitAssumption
    <2> QED
      BY <2>1, <2>2, <2>4, <2>5, <2>6, LimitAssumption
  <1> QED
    BY <1>1, <1>2, LimitAssumption

-----------------------------------------------------------------------------
(* The lock is taken on the way in and freed on every way out, abandoning    *)
(* the handler included.                                                     *)
LEMMA LockNext == TypeInv /\ LockInv /\ [Next]_vars => LockInv'
  <1> SUFFICES ASSUME TypeInv, LockInv, [Next]_vars PROVE LockInv'
    OBVIOUS
  <1> USE CallsAssumption DEF LockInv, Locking, Handling
  <1>0. pc \in [Calls -> {"idle", "done", "cancelled"} \cup Waiting]
    BY DEF TypeInv, TypeOK
  <1>1. ASSUME NEW c \in Calls, Arrive(c) PROVE LockInv'
    BY <1>0, <1>1 DEF Arrive, Answer, Waits
  <1>2. ASSUME NEW c \in Calls, ReturnRecorded(c) PROVE LockInv'
    BY <1>0, <1>2 DEF ReturnRecorded, Answer, LooksUp
  <1>3. ASSUME NEW c \in Calls, RefuseConflict(c) \/ WaitForLock(c) \/ RefuseStale(c)
        PROVE LockInv'
    BY <1>0, <1>3 DEF RefuseConflict, WaitForLock, RefuseStale, Answer, LooksUp, CanLock
  <1>4. ASSUME NEW c \in Calls, Admit(c) \/ StartLocked(c) PROVE LockInv'
    BY <1>0, <1>4 DEF Admit, StartLocked, CanLock, Waits
  <1>5. ASSUME NEW c \in Calls, LoopStep(c) PROVE LockInv'
    <2>1. PICK step \in {"execute", "each", "final", "record"} :
            pc' = [pc EXCEPT ![c] = step]
      BY <1>5, LoopSteps
    <2>2. pc[c] \in {"execute", "release", "each"} /\ UNCHANGED actionLock
      BY <1>5, LoopSteps
    <2> QED
      BY <1>0, <2>1, <2>2
  <1>6. ASSUME NEW c \in Calls, ActionRefused(c) \/ BatchObserved(c) PROVE LockInv'
    BY <1>0, <1>6 DEF ActionRefused, BatchObserved, Waits
  <1>7. ASSUME NEW c \in Calls, Record(c) \/ EndLocked(c) PROVE LockInv'
    BY <1>0, <1>7 DEF Record, EndLocked, Answer
  <1>8. ASSUME NEW c \in Calls, ReturnObservation(c) \/ FailObservation(c) PROVE LockInv'
    BY <1>0, <1>8 DEF ReturnObservation, FailObservation, Answer
  <1>9. ASSUME NEW c \in Calls, Driver(c) PROVE LockInv'
    BY <1>9 DEF Driver, JobSucceeds, JobFails, Capture
  <1>10. ASSUME NEW c \in Calls, Cancel(c) PROVE LockInv'
    BY <1>0, <1>10 DEF Cancel
  <1>11. CASE \/ \E task \in orphans : OrphanEnds(task)
              \/ HumanInput \/ UNCHANGED vars
    BY <1>11 DEF OrphanEnds, HumanInput, vars, local
  <1> QED
    BY <1>1, <1>2, <1>3, <1>4, <1>5, <1>6, <1>7, <1>8, <1>9, <1>10, <1>11
    DEF Next, Handler, Finished, LoopStep

(* Every other step leaves alone what the cache invariants are about, and    *)
(* answers with a recorded result or with none.                              *)
Quiet ==
  /\ UNCHANGED <<results, admitted, forgotten>>
  /\ \A c \in Calls : pc'[c] \in Handling <=> pc[c] \in Handling
  /\ \A c \in Calls : \/ reply'[c] = reply[c]
                     \/ reply'[c].kind # "result"
                     \/ \E i \in DOMAIN results :
                          /\ results[i].digest.id = Request[c].id
                          /\ results[i].result = reply'[c]

LEMMA BatchSteps ==
  TypeInv /\ [Next]_vars =>
    Quiet \/ \E c \in Calls : Admit(c) \/ Record(c) \/ Cancel(c)
  <1> SUFFICES ASSUME TypeInv, [Next]_vars,
                      \A c \in Calls : ~Admit(c) /\ ~Record(c) /\ ~Cancel(c)
               PROVE  Quiet
    OBVIOUS
  <1> USE DEF Quiet, Handling
  <1>0. /\ pc \in [Calls -> {"idle", "done", "cancelled"} \cup Waiting]
        /\ reply \in [Calls -> Reply]
    BY DEF TypeInv, TypeOK
  <1>1. ASSUME NEW c \in Calls, Arrive(c) PROVE Quiet
    <2>1. UNCHANGED <<results, admitted, forgotten>> /\ pc[c] = "idle"
      BY <1>1 DEF Arrive, history
    <2>2. \E step \in {"lookup", "lock", "observe", "done"} : pc' = [pc EXCEPT ![c] = step]
      BY <1>1 DEF Arrive, Answer, Waits
    <2>3. reply' = reply \/ reply' = [reply EXCEPT ![c] = [kind |-> "invalid"]]
      BY <1>1 DEF Arrive, Answer
    <2> QED
      BY <1>0, <2>1, <2>2, <2>3
  <1>2. ASSUME NEW c \in Calls, ReturnRecorded(c) PROVE Quiet
    <2>1. PICK i \in DOMAIN results : /\ Found(Request[c].id, i)
                                     /\ Answer(c, results[i].result)
      BY <1>2 DEF ReturnRecorded
    <2>2. UNCHANGED <<results, admitted, forgotten>> /\ pc[c] \in {"lookup", "lock"}
      BY <1>2 DEF ReturnRecorded, LooksUp, history
    <2> QED
      BY <1>0, <2>1, <2>2 DEF Answer, Found
  <1>3. ASSUME NEW c \in Calls, RefuseConflict(c) \/ RefuseStale(c) PROVE Quiet
    <2>1. PICK kind \in {"conflict", "stale"} : Answer(c, [kind |-> kind])
      BY <1>3 DEF RefuseConflict, RefuseStale
    <2>2. UNCHANGED <<results, admitted, forgotten>> /\ pc[c] \in {"lookup", "lock"}
      BY <1>3 DEF RefuseConflict, RefuseStale, LooksUp, CanLock, history
    <2> QED
      BY <1>0, <2>1, <2>2 DEF Answer
  <1>4. ASSUME NEW c \in Calls, WaitForLock(c) \/ StartLocked(c) PROVE Quiet
    BY <1>0, <1>4 DEF WaitForLock, StartLocked, CanLock, Waits, history
  <1>5. ASSUME NEW c \in Calls, LoopStep(c) PROVE Quiet
    <2>1. PICK step \in {"execute", "each", "final", "record"} :
            pc' = [pc EXCEPT ![c] = step]
      BY <1>5, LoopSteps
    <2>2. pc[c] \in {"execute", "release", "each"} /\ UNCHANGED <<reply, results, history>>
      BY <1>5, LoopSteps
    <2> QED
      BY <1>0, <2>1, <2>2 DEF history
  <1>6. ASSUME NEW c \in Calls, ActionRefused(c) \/ BatchObserved(c) PROVE Quiet
    BY <1>0, <1>6 DEF ActionRefused, BatchObserved, Waits, history
  <1>7. ASSUME NEW c \in Calls,
               EndLocked(c) \/ ReturnObservation(c) \/ FailObservation(c)
        PROVE  Quiet
    <2>1. PICK r : Answer(c, r) /\ r.kind # "result"
      BY <1>7 DEF EndLocked, ReturnObservation, FailObservation
    <2>2. UNCHANGED <<results, admitted, forgotten>>
          /\ pc[c] \in {"focus", "clipboard", "observe"}
      BY <1>7 DEF EndLocked, ReturnObservation, FailObservation, history
    <2> QED
      BY <1>0, <2>1, <2>2 DEF Answer
  <1>8. ASSUME NEW c \in Calls, Driver(c) PROVE Quiet
    BY <1>8 DEF Driver, JobSucceeds, JobFails, Capture, history
  <1>9. CASE \/ \E task \in orphans : OrphanEnds(task)
             \/ HumanInput \/ UNCHANGED vars
    BY <1>9 DEF OrphanEnds, HumanInput, vars, local, history
  <1> QED
    BY <1>1, <1>2, <1>3, <1>4, <1>5, <1>6, <1>7, <1>8, <1>9
    DEF Next, Handler, Finished, LoopStep

(* What recording a batch does to the store.                                *)
LEMMA RecordInserts ==
  ASSUME TypeInv, CacheInv, NEW c \in Calls, Record(c)
  PROVE  /\ Entry(c).digest.id = Request[c].id
         /\ Entry(c).result = ResultOf(c)
         /\ Len(results') \in 1..MaxResults
         /\ DOMAIN results' = 1..Len(results')
         /\ results'[Len(results')] = Entry(c)
         /\ \A i \in 1..(Len(results') - 1) :
              /\ i + Shift(results) \in DOMAIN results
              /\ results'[i] = results[i + Shift(results)]
         /\ \A j \in DOMAIN results :
              \/ results[j].digest.id \in Evicted(results)
              \/ /\ j - Shift(results) \in DOMAIN results'
                 /\ results'[j - Shift(results)] = results[j]
  <1>1. DigestOf(c) \in Digest /\ ResultOf(c) \in Result
    BY DigestType, ResultType DEF Record, TypeInv
  <1>2. /\ Entry(c) \in CachedResult
        /\ Entry(c).digest.id = Request[c].id /\ Entry(c).result = ResultOf(c)
    BY <1>1 DEF Entry, CachedResult, DigestOf
  <1>3. results \in Seq(CachedResult) /\ Len(results) <= MaxResults
    BY DEF CacheInv, ResultsWellFormed, TypeInv, TypeOK
  <1>4. results' = Insert(results, Entry(c))
    BY DEF Record
  <1> HIDE DEF Entry
  <1>5. /\ Len(results') \in 1..MaxResults
        /\ DOMAIN results' = 1..Len(results')
        /\ results'[Len(results')] = Entry(c)
        /\ \A i \in 1..(Len(results') - 1) :
             /\ i + Shift(results) \in DOMAIN results
             /\ results'[i] = results[i + Shift(results)]
        /\ \A j \in DOMAIN results :
             \/ results[j].digest.id \in Evicted(results)
             \/ /\ j - Shift(results) \in 1..(Len(results') - 1)
                /\ results'[j - Shift(results)] = results[j]
    BY ONLY <1>2, <1>3, <1>4, InsertKeeps, SMTT(20)
  <1>6. 1..(Len(results') - 1) \subseteq DOMAIN results'
    BY <1>5, LimitAssumption
  <1> QED
    BY <1>2, <1>5, <1>6

(* The store keeps one entry per id because a batch looks its id up under    *)
(* the lock and records it before it frees the lock.                         *)
LEMMA CacheNext == TypeInv /\ LockInv /\ CacheInv /\ [Next]_vars => CacheInv'
  <1> SUFFICES ASSUME TypeInv, LockInv, CacheInv, [Next]_vars PROVE CacheInv'
    OBVIOUS
  <1>0. pc \in [Calls -> {"idle", "done", "cancelled"} \cup Waiting]
    BY DEF TypeInv, TypeOK
  <1>1. CASE Quiet
    BY <1>1 DEF Quiet, CacheInv, ResultsWellFormed, Missing
  <1>2. ASSUME NEW c \in Calls, Admit(c) PROVE CacheInv'
    BY <1>0, <1>2 DEF Admit, CanLock, Waits, StillMissing, CacheInv, ResultsWellFormed,
       Missing, Handling
  <1>3. ASSUME NEW c \in Calls, Record(c) PROVE CacheInv'
    <2>2. Missing(Request[c].id)
      BY <1>3 DEF Record, CacheInv, Handling
    <2>3. \A d \in Calls : pc'[d] \notin Handling
      BY <1>0, <1>3, CallsAssumption DEF Record, Answer, LockInv, Locking, Handling
    <2>4. /\ Len(results') \in 1..MaxResults
          /\ DOMAIN results' = 1..Len(results')
          /\ results'[Len(results')].digest.id = Request[c].id
          /\ \A i \in 1..(Len(results') - 1) :
               /\ i + Shift(results) \in DOMAIN results
               /\ results'[i] = results[i + Shift(results)]
      BY <1>3, RecordInserts
    <2>5. \A i, j \in DOMAIN results' :
            results'[i].digest.id = results'[j].digest.id => i = j
      <3>1. \A i \in 1..(Len(results') - 1) : results'[i].digest.id # Request[c].id
        BY <2>2, <2>4 DEF Missing
      <3>2. \A i, j \in 1..(Len(results') - 1) :
              results'[i].digest.id = results'[j].digest.id => i = j
        BY <2>4 DEF CacheInv, ResultsWellFormed, Shift
      <3>3. \A i \in DOMAIN results' :
              i \in 1..(Len(results') - 1) \/ i = Len(results')
        BY <2>4
      <3> QED
        BY <2>4, <3>1, <3>2, <3>3
    <2> QED
      BY <2>3, <2>4, <2>5 DEF CacheInv, ResultsWellFormed
  <1>4. ASSUME NEW c \in Calls, Cancel(c) PROVE CacheInv'
    BY <1>0, <1>4 DEF Cancel, CacheInv, ResultsWellFormed, Missing, Handling
  <1> QED
    BY <1>1, <1>2, <1>3, <1>4, BatchSteps

(* A batch is admitted again only after its id was forgotten.               *)
LEMMA RepeatNext ==
  TypeInv /\ LockInv /\ CacheInv /\ RepeatInv /\ [Next]_vars => RepeatInv'
  <1> SUFFICES ASSUME TypeInv, LockInv, CacheInv, RepeatInv, [Next]_vars,
                      NEW id \in Ids, id \notin forgotten'
               PROVE  \/ admitted'[id] = 0
                      \/ admitted'[id] = 1 /\ (Recorded(id)' \/ InFlight(id)')
    BY DEF RepeatInv
  <1>0. /\ pc \in [Calls -> {"idle", "done", "cancelled"} \cup Waiting]
        /\ admitted \in [Ids -> Nat]
    BY DEF TypeInv, TypeOK
  <1>1. CASE Quiet
    BY <1>1 DEF Quiet, RepeatInv, Recorded, InFlight
  <1>2. ASSUME NEW c \in Calls, Admit(c)
        PROVE  \/ admitted'[id] = 0
               \/ admitted'[id] = 1 /\ (Recorded(id)' \/ InFlight(id)')
    <2>1. /\ pc' = [pc EXCEPT ![c] = "execute"] /\ UNCHANGED <<results, forgotten>>
          /\ admitted' = [admitted EXCEPT ![Request[c].id] = @ + 1]
          /\ pc[c] = "lock" /\ Missing(Request[c].id)
      BY <1>2 DEF Admit, CanLock, Waits, StillMissing
    <2>2. \A d \in Calls : pc[d] \notin Handling
      BY <1>2, CallsAssumption DEF Admit, CanLock, LockInv, Locking, Handling
    <2>3. CASE id = Request[c].id
      <3>1. admitted[id] = 0
        BY <2>1, <2>2, <2>3 DEF RepeatInv, Recorded, InFlight, Missing
      <3> QED
        BY <1>0, <2>1, <2>3, <3>1 DEF InFlight, Handling
    <2>4. CASE id # Request[c].id
      BY <1>0, <2>1, <2>2, <2>4 DEF RepeatInv, Recorded, InFlight
    <2> QED
      BY <2>3, <2>4
  <1>3. ASSUME NEW c \in Calls, Record(c)
        PROVE  \/ admitted'[id] = 0
               \/ admitted'[id] = 1 /\ (Recorded(id)' \/ InFlight(id)')
    <2>2. /\ id \notin forgotten /\ id \notin Evicted(results)
          /\ UNCHANGED admitted
      BY <1>3 DEF Record
    <2>3. InFlight(id) => Request[c].id = id
      BY <1>3 DEF Record, InFlight, LockInv, Locking, Handling
    <2>4. Request[c].id = id => Recorded(id)'
      BY <1>3, RecordInserts, LimitAssumption DEF Recorded
    <2>5. Recorded(id) => Recorded(id)'
      <3>1. SUFFICES ASSUME NEW j \in DOMAIN results, results[j].digest.id = id
                     PROVE  Recorded(id)'
        BY DEF Recorded
      <3>2. /\ j - Shift(results) \in DOMAIN results'
            /\ results'[j - Shift(results)] = results[j]
        BY <1>3, <2>2, <3>1, RecordInserts
      <3> QED
        BY <3>1, <3>2 DEF Recorded
    <2> QED
      BY <2>2, <2>3, <2>4, <2>5 DEF RepeatInv
  <1>4. ASSUME NEW c \in Calls, Cancel(c)
        PROVE  \/ admitted'[id] = 0
               \/ admitted'[id] = 1 /\ (Recorded(id)' \/ InFlight(id)')
    <2>1. UNCHANGED <<results, admitted>> /\ id \notin forgotten
      BY <1>4 DEF Cancel
    <2>2. InFlight(id) => InFlight(id)'
      BY <1>0, <1>4 DEF Cancel, InFlight
    <2> QED
      BY <2>1, <2>2 DEF RepeatInv, Recorded
  <1> QED
    BY <1>1, <1>2, <1>3, <1>4, BatchSteps

(* No step makes the record disagree with what a call was answered.         *)
LEMMA ReplayNext ==
  TypeInv /\ CacheInv /\ ReplayInv /\ [Next]_vars => ReplayInv'
  <1> SUFFICES ASSUME TypeInv, CacheInv, ReplayInv, [Next]_vars,
                      NEW d \in Calls, reply'[d].kind = "result",
                      Request[d].id \notin forgotten'
               PROVE  \E i \in DOMAIN results' :
                        /\ results'[i].digest.id = Request[d].id
                        /\ results'[i].result = reply'[d]
    BY DEF ReplayInv
  <1>0. reply \in [Calls -> Reply]
    BY DEF TypeInv, TypeOK
  <1>1. CASE Quiet
    BY <1>1 DEF Quiet, ReplayInv
  <1>2. ASSUME NEW c \in Calls, Admit(c) \/ Cancel(c)
        PROVE  \E i \in DOMAIN results' :
                 /\ results'[i].digest.id = Request[d].id
                 /\ results'[i].result = reply'[d]
    <2>1. UNCHANGED <<results, reply>> /\ Request[d].id \notin forgotten
      BY <1>2 DEF Admit, Cancel
    <2> QED
      BY <2>1 DEF ReplayInv
  <1>3. ASSUME NEW c \in Calls, Record(c)
        PROVE  \E i \in DOMAIN results' :
                 /\ results'[i].digest.id = Request[d].id
                 /\ results'[i].result = reply'[d]
    <2>3. /\ reply' = [reply EXCEPT ![c] = ResultOf(c)]
          /\ Request[d].id \notin forgotten
          /\ Request[d].id \notin Evicted(results)
      BY <1>3 DEF Record, Answer
    <2>4. CASE d = c
      <3>1. /\ Len(results') \in DOMAIN results'
            /\ results'[Len(results')].digest.id = Request[c].id
            /\ results'[Len(results')].result = ResultOf(c)
        BY <1>3, RecordInserts, LimitAssumption
      <3> QED
        BY <1>0, <2>3, <2>4, <3>1
    <2>5. CASE d # c
      <3>1. reply'[d] = reply[d]
        BY <1>0, <2>3, <2>5
      <3>2. PICK j \in DOMAIN results : /\ results[j].digest.id = Request[d].id
                                        /\ results[j].result = reply[d]
        BY <2>3, <3>1 DEF ReplayInv
      <3>3. /\ j - Shift(results) \in DOMAIN results'
            /\ results'[j - Shift(results)] = results[j]
        BY <1>3, <2>3, <3>2, RecordInserts
      <3> QED
        BY <3>1, <3>2, <3>3
    <2> QED
      BY <2>4, <2>5
  <1> QED
    BY <1>1, <1>2, <1>3, BatchSteps

(* The books of the batch in flight: nobody else moves the generation, since *)
(* focus_window moves it under the lock that the batch holds.                *)
LEMMA CountNext ==
  TypeInv /\ LockInv /\ CountInv /\ [Next]_vars => CountInv'
  <1> SUFFICES ASSUME TypeInv, LockInv, CountInv, [Next]_vars PROVE CountInv'
    OBVIOUS
  <1> USE DEF CountInv, OnlyHumanInputInterferes
  <1>0. /\ pc \in [Calls -> {"idle", "done", "cancelled"} \cup Waiting]
        /\ own \in [Calls -> Nat] /\ before \in [Calls -> Nat]
        /\ notedBefore \in [Calls -> Nat]
        /\ generation \in Nat /\ noted \in Nat
    BY DEF TypeInv, TypeOK
  <1>1. ASSUME NEW c \in Calls, Arrive(c) PROVE CountInv'
    <2>1. /\ UNCHANGED <<own, before, generation, noted, notedBefore>>
          /\ pc[c] = "idle"
      BY <1>1 DEF Arrive, history
    <2>2. \E step \in {"lookup", "lock", "observe", "done"} : pc' = [pc EXCEPT ![c] = step]
      BY <1>1 DEF Arrive, Answer, Waits
    <2> QED
      BY <1>0, <2>1, <2>2 DEF Handling
  <1>2. ASSUME NEW c \in Calls,
               ReturnRecorded(c) \/ RefuseConflict(c) \/ RefuseStale(c)
                 \/ ReturnObservation(c) \/ FailObservation(c)
        PROVE  CountInv'
    <2>1. /\ UNCHANGED <<own, before, generation, noted, notedBefore>>
          /\ pc' = [pc EXCEPT ![c] = "done"]
      BY <1>2 DEF ReturnRecorded, RefuseConflict, RefuseStale, ReturnObservation,
         FailObservation, Answer, history
    <2> QED
      BY <1>0, <2>1 DEF Handling
  <1>3. ASSUME NEW c \in Calls, WaitForLock(c) \/ StartLocked(c) PROVE CountInv'
    BY <1>0, <1>3 DEF WaitForLock, StartLocked, CanLock, Waits, Handling, history
  <1>4. ASSUME NEW c \in Calls, Admit(c) PROVE CountInv'
    <2>1. /\ pc' = [pc EXCEPT ![c] = "execute"]
          /\ before' = [before EXCEPT ![c] = generation]
          /\ notedBefore' = [notedBefore EXCEPT ![c] = noted]
          /\ UNCHANGED <<own, generation, noted>> /\ pc[c] = "lock"
      BY <1>4 DEF Admit, CanLock, Waits
    <2>2. \A d \in Calls : pc[d] \notin Handling
      BY <1>4, CallsAssumption DEF Admit, CanLock, LockInv, Locking
    <2>3. \A d \in Calls : pc'[d] \in Handling => d = c
      BY <1>0, <2>1, <2>2
    <2>4. own[c] = 0 /\ before'[c] = generation /\ notedBefore'[c] = noted
      BY <1>0, <2>1
    <2> QED
      BY <1>0, <2>1, <2>3, <2>4
  <1>5. ASSUME NEW c \in Calls, LoopStep(c) PROVE CountInv'
    <2>1. PICK step \in {"execute", "each", "final", "record"} :
            pc' = [pc EXCEPT ![c] = step]
      BY <1>5, LoopSteps
    <2>2. /\ pc[c] \in Handling
          /\ \/ UNCHANGED <<generation, own>>
             \/ generation' = generation + 1 /\ own' = [own EXCEPT ![c] = @ + 1]
          /\ UNCHANGED <<before, noted, notedBefore>>
      BY <1>5, LoopSteps DEF history, Handling
    <2>3. \A d \in Calls : pc[d] \in Handling => d = c
      BY <2>2 DEF LockInv, Locking
    <2>4. \A d \in Calls : pc'[d] \in Handling => d = c
      BY <1>0, <2>1, <2>3
    <2>5. generation' - own'[c] = generation - own[c]
      BY <1>0, <2>2
    <2>6. generation = before[c] + own[c] + (noted - notedBefore[c])
      BY <2>2
    <2>7. generation' = before'[c] + own'[c] + (noted' - notedBefore'[c])
      <3>1. generation' \in Nat /\ own'[c] \in Nat
        BY <1>0, <2>2
      <3> QED
        BY <1>0, <2>2, <2>5, <2>6, <3>1
    <2>8. \A d \in Calls : pc'[d] \in {"idle", "lookup", "lock"} =>
            d # c /\ pc[d] = pc'[d]
      BY <1>0, <2>1
    <2> QED
      BY <1>0, <2>2, <2>4, <2>7, <2>8
  <1>6. ASSUME NEW c \in Calls, ActionRefused(c) \/ BatchObserved(c) PROVE CountInv'
    <2>1. /\ UNCHANGED <<own, before, generation, noted, notedBefore>>
          /\ pc[c] \in Handling
          /\ \E step \in {"release", "record"} : pc' = [pc EXCEPT ![c] = step]
      BY <1>6 DEF ActionRefused, BatchObserved, Waits, Handling, history
    <2> QED
      BY <1>0, <2>1
  <1>7. ASSUME NEW c \in Calls, Record(c) PROVE CountInv'
    BY <1>0, <1>7 DEF Record, Answer, Handling
  <1>8. ASSUME NEW c \in Calls, EndLocked(c) PROVE CountInv'
    <2>1. /\ UNCHANGED own /\ pc' = [pc EXCEPT ![c] = "done"]
          /\ pc[c] \in {"focus", "clipboard"}
      BY <1>8 DEF EndLocked, Answer
    <2>2. \A d \in Calls : pc[d] \notin Handling
      BY <2>1 DEF LockInv, Locking, Handling
    <2>3. \A d \in Calls : pc'[d] \notin Handling
      BY <1>0, <2>1, <2>2 DEF Handling
    <2> QED
      BY <1>0, <2>1, <2>3
  <1>9. ASSUME NEW c \in Calls, Driver(c) PROVE CountInv'
    BY <1>9 DEF Driver, JobSucceeds, JobFails, Capture, history
  <1>10. ASSUME NEW c \in Calls, Cancel(c) PROVE CountInv'
    BY <1>0, <1>10 DEF Cancel, Handling
  <1>11. CASE HumanInput
    BY <1>0, <1>11 DEF HumanInput, local
  <1>12. CASE (\E task \in orphans : OrphanEnds(task)) \/ UNCHANGED vars
    BY <1>12 DEF OrphanEnds, vars, local, history
  <1> QED
    BY <1>1, <1>2, <1>3, <1>4, <1>5, <1>6, <1>7, <1>8, <1>9, <1>10, <1>11, <1>12
    DEF Next, Handler, Finished, LoopStep

(* Before the first call nothing is locked, recorded, answered or counted.  *)
LEMMA SafetyInit == Init => Safety
  BY CallsAssumption, LimitAssumption
  DEF Init, Safety, LockInv, CacheInv, ResultsWellFormed, RepeatInv, ReplayInv,
      CountInv, OnlyHumanInputInterferes, Locking, Handling

-----------------------------------------------------------------------------
(* The invariants above hold in every reachable state, whatever the workload, *)
(* the limits, the faults and the calls that are abandoned.                  *)
THEOREM SafetyCorrect == Spec => []Safety
  <1>1. TypeInv /\ Safety /\ [Next]_vars => Safety'
    BY LockNext, CacheNext, RepeatNext, ReplayNext, CountNext DEF Safety
  <1> QED
    BY TypeCorrect, SafetyInit, <1>1, PTL DEF Spec

(* Only one live handler at a time has a blocking call that drives input.   *)
THEOREM Serialized == Spec => []SerializedUnlessDetached
  <1>1. Safety => SerializedUnlessDetached
    BY DEF Safety, LockInv, SerializedUnlessDetached, Attached, Working, Locking, Handling
  <1> QED
    BY SafetyCorrect, <1>1, PTL

(* At-most-once: a second execution under a request id means that the first *)
(* was cut short or that its result was evicted.                             *)
THEOREM AtMostOnce == Spec => []RepeatOnlyIfForgotten
  <1>1. RepeatInv => RepeatOnlyIfForgotten
    <2> SUFFICES ASSUME RepeatInv, NEW id \in Ids, id \notin forgotten
                 PROVE  ~(admitted[id] > 1)
      BY DEF RepeatOnlyIfForgotten
    <2>1. admitted[id] = 0 \/ admitted[id] = 1
      BY DEF RepeatInv
    <2> QED
      BY <2>1
  <1>2. Safety => RepeatInv
    BY DEF Safety
  <1> QED
    BY SafetyCorrect, <1>1, <1>2, PTL

(* Two calls under one request id are answered with one result.             *)
THEOREM OneResult == Spec => []SameResultUnlessForgotten
  <1>1. Safety => SameResultUnlessForgotten
    BY DEF Safety, ReplayInv, CacheInv, ResultsWellFormed, SameResultUnlessForgotten
  <1> QED
    BY SafetyCorrect, <1>1, PTL

(* The result store stays within its limit and has one entry per id.        *)
THEOREM StoreWellFormed == Spec => []ResultsWellFormed
  <1>1. Safety => ResultsWellFormed
    BY DEF Safety, CacheInv
  <1> QED
    BY SafetyCorrect, <1>1, PTL

(* While a batch is in flight only it and human input move the generation.  *)
THEOREM InterferenceIsHuman == Spec => []OnlyHumanInputInterferes
  <1>1. Safety => OnlyHumanInputInterferes
    BY DEF Safety, CountInv
  <1> QED
    BY SafetyCorrect, <1>1, PTL

-----------------------------------------------------------------------------
(***************************************************************************)
(* The data plane keeps its promise: the initial states map to initial       *)
(* states, and every step to a step of the promise or to none.               *)
(***************************************************************************)

(* What runs under the lock and is no batch was asked to be none.           *)
OthersInv == \A c \in Calls : pc[c] \in {"focus", "clipboard"} => Request[c].op # "batch"

Inv == TypeInv /\ Safety /\ OthersInv

(* Only the step that takes the lock for it starts a focus or a clipboard    *)
(* write.                                                                    *)
LEMMA OthersNext == TypeInv /\ OthersInv /\ [Next]_vars => OthersInv'
  <1> SUFFICES ASSUME TypeInv, OthersInv, [Next]_vars PROVE OthersInv'
    OBVIOUS
  <1> USE DEF OthersInv
  <1>0. pc \in [Calls -> {"idle", "done", "cancelled"} \cup Waiting]
    BY DEF TypeInv, TypeOK
  <1>1. ASSUME NEW c \in Calls, Arrive(c) PROVE OthersInv'
    BY <1>0, <1>1 DEF Arrive, Answer, Waits
  <1>2. ASSUME NEW c \in Calls, StartLocked(c) PROVE OthersInv'
    BY <1>0, <1>2 DEF StartLocked, CanLock, Waits
  <1>3. ASSUME NEW c \in Calls, LoopStep(c) PROVE OthersInv'
    <2>1. PICK step \in {"execute", "each", "final", "record"} :
            pc' = [pc EXCEPT ![c] = step]
      BY <1>3, LoopSteps
    <2> QED
      BY <1>0, <2>1
  <1>4. ASSUME NEW c \in Calls,
               \/ ReturnRecorded(c) \/ RefuseConflict(c) \/ WaitForLock(c)
               \/ RefuseStale(c) \/ Admit(c) \/ ActionRefused(c) \/ BatchObserved(c)
               \/ Record(c) \/ EndLocked(c) \/ ReturnObservation(c)
               \/ FailObservation(c) \/ Cancel(c)
        PROVE  OthersInv'
    <2>1. \E step \in {"done", "lock", "execute", "release", "record", "cancelled"} :
            pc' = [pc EXCEPT ![c] = step]
      BY <1>4 DEF ReturnRecorded, RefuseConflict, WaitForLock, RefuseStale, Admit,
         ActionRefused, BatchObserved, Record, EndLocked, ReturnObservation,
         FailObservation, Cancel, Answer, Waits
    <2> QED
      BY <1>0, <2>1
  <1>5. ASSUME NEW c \in Calls, Driver(c) PROVE OthersInv'
    BY <1>5 DEF Driver, JobSucceeds, JobFails, Capture
  <1>6. CASE (\E task \in orphans : OrphanEnds(task)) \/ HumanInput \/ UNCHANGED vars
    BY <1>6 DEF OrphanEnds, HumanInput, vars, local
  <1> QED
    BY <1>1, <1>2, <1>3, <1>4, <1>5, <1>6 DEF Next, Handler, Finished, LoopStep

(* A handler that is not through yet has answered nobody.                   *)
LEMMA Unanswered ==
  ASSUME TypeInv, NEW c \in Calls, pc[c] \notin {"done", "cancelled"}
  PROVE  Batches!Open(c)
  <1>1. reply[c].kind = "none"
    BY DEF TypeInv, RepliesInv
  <1>2. reply[c] = NoAnswer
    BY <1>1 DEF TypeInv, TypeOK, Reply, Observation, Result, NoAnswer
  <1> QED
    BY <1>2 DEF Batches!Open, GivenUp

(* The batch a handler was given is the one it was given: what it expects    *)
(* is taken from an observation that nobody answers again.                   *)
LEMMA BodyKept ==
  ASSUME TypeInv, NEW c \in Calls, pc[c] \notin {"idle", "done"},
         pc'[c] # "idle", reply'[c].kind # "invalid",
         \A d \in Calls \ {c} : pc'[d] = pc[d] /\ reply'[d] = reply[d]
  PROVE  Body' = Body
  <1>1. reply[c].kind = "none"
    BY DEF TypeInv, RepliesInv
  <1>2. ASSUME NEW d \in Calls PROVE Accepted(d)' <=> Accepted(d)
    BY <1>1 DEF Accepted
  <1>3. ASSUME NEW d \in Calls, Accepted(d) PROVE DigestOf(d)' = DigestOf(d)
    <2>1. CASE Request[d].basis = NoCall
      BY <2>1 DEF DigestOf, Expected
    <2>2. CASE Request[d].basis # NoCall
      <3>1. Request[d].basis \in Calls \ {c}
        BY <1>1, <1>3, <2>2, RequestShape DEF TypeInv, RepliesInv, Accepted
      <3> QED
        BY <3>1 DEF DigestOf, Expected
    <2> QED
      BY <2>1, <2>2
  <1> QED
    BY <1>2, <1>3 DEF Body

(* What is neither seen in a posted batch, an answer, the lock, the record   *)
(* nor a caller that gave up is no step of the promise.                      *)
LEMMA Unseen ==
  ASSUME Body' = Body, GivenUp' = GivenUp, UNCHANGED <<reply, actionLock, results>>
  PROVE  UNCHANGED Batches!vars
  BY DEF Batches!vars, OnRecord

(* A handler that goes on, inside, is not seen.                             *)
LEMMA GoesOn ==
  ASSUME TypeInv, NEW c \in Calls, pc[c] \notin {"idle", "done", "cancelled"},
         NEW step, step \notin {"idle", "cancelled"}, pc' = [pc EXCEPT ![c] = step],
         UNCHANGED <<reply, actionLock, results>>
  PROVE  UNCHANGED Batches!vars
  <1>1. /\ pc'[c] = step
        /\ \A d \in Calls \ {c} : pc'[d] = pc[d]
    BY DEF TypeInv, TypeOK
  <1>2. reply[c].kind = "none"
    BY DEF TypeInv, RepliesInv
  <1>3. Body' = Body
    BY <1>1, <1>2, BodyKept
  <1>4. GivenUp' = GivenUp
    BY <1>1 DEF GivenUp
  <1> QED
    BY <1>3, <1>4, Unseen

(* Before the first call nothing was promised to anybody.                   *)
LEMMA PromiseInit == Init => Batches!Init
  BY DEF Init, Batches!Init, Body, Accepted, OnRecord, GivenUp, NoAnswer

-----------------------------------------------------------------------------
(* An answer that is no outcome, given without the desktop.                 *)
LEMMA Declines ==
  ASSUME Inv, NEW c \in Calls, pc[c] \in {"lookup", "lock", "observe"},
         NEW r \in Reply \ {NoAnswer}, r.kind \notin {"result", "invalid"}, Answer(c, r),
         UNCHANGED <<actionLock, results>>
  PROVE  Batches!Next
  <1>1. /\ pc'[c] = "done" /\ reply'[c] = r /\ reply' = [reply EXCEPT ![c] = r]
        /\ \A d \in Calls \ {c} : pc'[d] = pc[d] /\ reply'[d] = reply[d]
    BY DEF Answer, Inv, TypeInv, TypeOK
  <1>2. Body' = Body /\ GivenUp' = GivenUp
    BY <1>1, BodyKept DEF Inv, GivenUp
  <1>3. Batches!Open(c) /\ actionLock # c
    BY Unanswered DEF Inv, Safety, LockInv, Locking, Handling
  <1>4. r \in (Reply \ {NoAnswer}) \ Result
    BY DEF Result
  <1>5. Batches!Decline(c)
    BY <1>1, <1>2, <1>3, <1>4 DEF Batches!Decline, Batches!Answered, OnRecord
  <1> QED
    BY <1>5 DEF Batches!Next

(* A call that arrives posts its batch, or is refused, or is not seen yet.  *)
LEMMA ArrivePosts ==
  ASSUME Inv, NEW c \in Calls, Arrive(c)
  PROVE  Batches!Next \/ UNCHANGED Batches!vars
  <1>1. /\ pc[c] = "idle" /\ UNCHANGED <<actionLock, results>>
        /\ Request[c].basis # NoCall => reply[Request[c].basis].kind = "observation"
        /\ Batches!Open(c) /\ actionLock # c /\ reply[c].kind = "none"
    BY Unanswered DEF Arrive, Inv, Safety, LockInv, Locking, Handling, TypeInv, RepliesInv
  <1>2. \E step \in {"lookup", "lock", "observe", "done"} : pc' = [pc EXCEPT ![c] = step]
    BY DEF Arrive, Answer, Waits
  <1>3. /\ pc'[c] \notin {"idle", "cancelled"}
        /\ \A d \in Calls \ {c} : pc'[d] = pc[d]
        /\ GivenUp' = GivenUp
    BY <1>1, <1>2 DEF Inv, TypeInv, TypeOK, GivenUp
  <1>4. ASSUME UNCHANGED reply
        PROVE  \A d \in Calls : /\ DigestOf(d)' = DigestOf(d)
                                /\ d # c => (Accepted(d)' <=> Accepted(d))
    BY <1>3, <1>4 DEF DigestOf, Expected, Accepted
  <1>5. CASE Request[c].op = "batch" /\ ~Valid(Request[c].actions)
    <2> DEFINE r == [kind |-> "invalid"]
    <2>1. reply' = [reply EXCEPT ![c] = r]
      BY <1>5 DEF Arrive, Answer
    <2>2. reply'[c] = r /\ \A d \in Calls \ {c} : reply'[d] = reply[d]
      BY <2>1 DEF Inv, TypeInv, TypeOK
    <2>3. ASSUME NEW d \in Calls \ {c} PROVE Accepted(d)' <=> Accepted(d)
      BY <1>3, <2>2 DEF Accepted
    <2>4. ASSUME NEW d \in Calls \ {c}, Accepted(d) PROVE DigestOf(d)' = DigestOf(d)
      <3>1. CASE Request[d].basis = NoCall
        BY <3>1 DEF DigestOf, Expected
      <3>2. CASE Request[d].basis # NoCall
        <4>1. Request[d].basis \in Calls \ {c}
          BY <1>1, <2>4, <3>2, RequestShape DEF Inv, TypeInv, RepliesInv, Accepted
        <4> QED
          BY <2>2, <4>1 DEF DigestOf, Expected
      <3> QED
        BY <3>1, <3>2
    <2>5. ~Accepted(c) /\ ~Accepted(c)'
      BY <1>1, <2>2 DEF Accepted
    <2>6. Body' = Body
      BY <2>3, <2>4, <2>5 DEF Body
    <2>7. r \in (Reply \ {NoAnswer}) \ Result
      BY DEF Reply, Result, NoAnswer
    <2>8. Batches!Decline(c)
      <3>1. Batches!Answered(c, (Reply \ {NoAnswer}) \ Result)
        BY <2>1, <2>2, <2>7 DEF Batches!Answered
      <3>2. OnRecord' = OnRecord
        BY <1>1 DEF OnRecord
      <3> QED
        BY <1>1, <1>3, <2>6, <3>1, <3>2 DEF Batches!Decline
    <2> QED
      BY <2>8 DEF Batches!Next
  <1>6. CASE Request[c].op = "batch" /\ Valid(Request[c].actions)
    <2>1. UNCHANGED reply /\ ~Accepted(c) /\ Accepted(c)'
      BY <1>1, <1>3, <1>6 DEF Arrive, Accepted, Ops
    <2>2. DigestOf(c) \in Digest
      <3>1. Expected(c) \in SUBSET Nat
        <4>1. CASE Request[c].basis = NoCall
          BY <4>1 DEF Expected
        <4>2. CASE Request[c].basis # NoCall
          <5>1. /\ Request[c].basis \in Calls
                /\ reply[Request[c].basis].kind = "observation"
            BY <1>1, <4>2, RequestShape
          <5>2. reply[Request[c].basis] \in Observation
            BY <5>1 DEF Inv, TypeInv, TypeOK, Reply, Result, Observation
          <5> QED
            BY <4>2, <5>2 DEF Expected, Observation
        <4> QED
          BY <4>1, <4>2
      <3> QED
        BY <3>1, RequestShape DEF DigestOf, Digest
    <2>3. Body' = [Body EXCEPT ![c] = DigestOf(c)] /\ Body[c] = NoBody
      BY <1>4, <2>1 DEF Body
    <2>4. Body'[c] = DigestOf(c)
      BY <2>3 DEF Body
    <2>5. Batches!Submit(c)
      BY <1>1, <1>3, <2>1, <2>2, <2>3, <2>4 DEF Batches!Submit, OnRecord
    <2> QED
      BY <2>5 DEF Batches!Next
  <1>7. CASE Request[c].op # "batch"
    <2>1. UNCHANGED reply /\ ~Accepted(c) /\ ~Accepted(c)'
      BY <1>7 DEF Arrive, Accepted
    <2>2. Body' = Body
      BY <1>4, <2>1 DEF Body
    <2> QED
      BY <1>1, <1>3, <2>1, <2>2, Unseen
  <1> QED
    BY <1>5, <1>6, <1>7

(* The outcome a lookup finds is one on record for the batch it was asked.   *)
LEMMA LookupReplays ==
  ASSUME Inv, NEW c \in Calls, ReturnRecorded(c)
  PROVE  Batches!Next
  <1>1. PICK i \in DOMAIN results : /\ results[i].digest = DigestOf(c)
                                   /\ Answer(c, results[i].result)
    BY DEF ReturnRecorded
  <1>2. /\ pc[c] \in {"lookup", "lock"} /\ UNCHANGED <<actionLock, results>>
        /\ Request[c].op = "batch"
    BY DEF ReturnRecorded, LooksUp, Inv, TypeInv, ActionsInv
  <1>3. results[i].result \in Result
    <2>1. results[i] \in CachedResult
      BY DEF Inv, TypeInv, TypeOK
    <2> QED
      BY <2>1 DEF CachedResult
  <1>4. /\ pc'[c] = "done" /\ reply' = [reply EXCEPT ![c] = results[i].result]
        /\ reply'[c] = results[i].result
        /\ \A d \in Calls \ {c} : pc'[d] = pc[d] /\ reply'[d] = reply[d]
    BY <1>1 DEF Answer, Inv, TypeInv, TypeOK
  <1>5. Body' = Body /\ GivenUp' = GivenUp
    BY <1>2, <1>3, <1>4, BodyKept DEF Inv, GivenUp, Result
  <1>6. Batches!Open(c) /\ actionLock # c
    BY <1>2, Unanswered DEF Inv, Safety, LockInv, Locking, Handling
  <1>7. results[i] \in OnRecord /\ results[i].digest = Body[c]
    BY <1>1, <1>2 DEF OnRecord, Body, Accepted, Inv, TypeInv, RepliesInv
  <1>8. Batches!Replay(c)
    BY <1>2, <1>4, <1>5, <1>6, <1>7 DEF Batches!Replay, OnRecord
  <1> QED
    BY <1>8 DEF Batches!Next

(* Whoever takes the lock begins, and a batch that takes it is not on record. *)
LEMMA LockBegins ==
  ASSUME Inv, NEW c \in Calls, Admit(c) \/ StartLocked(c)
  PROVE  Batches!Next
  <1>1. /\ pc[c] = "lock" /\ actionLock = NoCall /\ actionLock' = c
        /\ UNCHANGED <<reply, results>>
        /\ Request[c].op = "batch" => Missing(Request[c].id)
        /\ \E step \in {"execute", "focus", "clipboard"} : pc' = [pc EXCEPT ![c] = step]
    BY DEF Admit, StartLocked, CanLock, StillMissing, Waits
  <1>2. /\ pc'[c] \notin {"idle", "cancelled"} /\ reply[c].kind = "none"
        /\ \A d \in Calls \ {c} : pc'[d] = pc[d]
    BY <1>1 DEF Inv, TypeInv, TypeOK, RepliesInv
  <1>3. Body' = Body /\ GivenUp' = GivenUp
    BY <1>1, <1>2, BodyKept DEF Inv, GivenUp
  <1>4. Batches!Open(c)
    BY <1>1, Unanswered DEF Inv
  <1>5. Body[c] # NoBody => \A entry \in OnRecord : entry.digest.id # Body[c].id
    BY <1>1 DEF Body, Accepted, DigestOf, Missing, OnRecord
  <1>6. Batches!Begin(c)
    BY <1>1, <1>3, <1>4, <1>5 DEF Batches!Begin, OnRecord
  <1> QED
    BY <1>6 DEF Batches!Next

(* A batch is put on record as it is answered, and frees the desktop.       *)
LEMMA RecordEnds ==
  ASSUME Inv, NEW c \in Calls, Record(c)
  PROVE  Batches!Next
  <1> DEFINE r == ResultOf(c)
             entry == [digest |-> Body[c], result |-> r]
  <1>1. /\ pc[c] = "record" /\ Answer(c, r) /\ actionLock' = NoCall
        /\ actionLock = c /\ Request[c].op = "batch" /\ r \in Result
    BY ResultType DEF Record, Inv, Safety, LockInv, Locking, Handling, TypeInv, ActionsInv
  <1> HIDE DEF r
  <1>2. /\ pc'[c] = "done" /\ reply' = [reply EXCEPT ![c] = r] /\ reply'[c] = r
        /\ \A d \in Calls \ {c} : pc'[d] = pc[d] /\ reply'[d] = reply[d]
    BY <1>1 DEF Answer, Inv, TypeInv, TypeOK
  <1>3. r.kind = "result"
    BY <1>1 DEF Result
  <1>4. Body' = Body /\ GivenUp' = GivenUp
    BY <1>1, <1>2, <1>3, BodyKept DEF Inv, GivenUp
  <1>5. Batches!Open(c)
    BY <1>1, Unanswered DEF Inv
  <1>6. Body[c] = DigestOf(c)
    BY <1>1 DEF Body, Accepted, Inv, TypeInv, RepliesInv
  <1>7. Body[c] # NoBody
    BY <1>6 DEF DigestOf, NoBody
  <1>8. Entry(c) = entry
    BY <1>6 DEF Entry, r
  <1>9. entry \in OnRecord' /\ OnRecord' \subseteq OnRecord \cup {entry}
    <2>1. /\ Len(results') \in DOMAIN results' /\ results'[Len(results')] = entry
          /\ \A i \in DOMAIN results' : \/ i = Len(results')
                                       \/ i \in 1..(Len(results') - 1)
          /\ \A i \in 1..(Len(results') - 1) :
               /\ i + Shift(results) \in DOMAIN results
               /\ results'[i] = results[i + Shift(results)]
      <3>1. /\ Len(results') \in 1..MaxResults
            /\ DOMAIN results' = 1..Len(results')
            /\ results'[Len(results')] = Entry(c)
            /\ \A i \in 1..(Len(results') - 1) :
                 /\ i + Shift(results) \in DOMAIN results
                 /\ results'[i] = results[i + Shift(results)]
        BY RecordInserts DEF Inv, Safety
      <3>2. Len(results') \in Nat \ {0}
        BY <3>1, LimitAssumption
      <3> QED
        BY <1>8, <3>1, <3>2
    <2> QED
      BY <2>1 DEF OnRecord
  <1>10. Batches!EndBatch(c)
    BY <1>1, <1>2, <1>4, <1>5, <1>7, <1>9 DEF Batches!EndBatch, Batches!Answered
  <1> QED
    BY <1>10 DEF Batches!Next

(* A focus or a clipboard write ends with no outcome and nothing on record.  *)
LEMMA OtherEnds ==
  ASSUME Inv, NEW c \in Calls, EndLocked(c)
  PROVE  Batches!Next
  <1>1. PICK r \in [kind : {"ok", "error"}] : Answer(c, r)
    BY DEF EndLocked
  <1>2. /\ pc[c] \in {"focus", "clipboard"} /\ UNCHANGED results
        /\ actionLock' = NoCall /\ actionLock = c /\ Request[c].op # "batch"
    BY DEF EndLocked, Inv, Safety, LockInv, Locking, OthersInv
  <1>3. /\ pc'[c] = "done" /\ reply' = [reply EXCEPT ![c] = r] /\ reply'[c] = r
        /\ \A d \in Calls \ {c} : pc'[d] = pc[d] /\ reply'[d] = reply[d]
    BY <1>1 DEF Answer, Inv, TypeInv, TypeOK
  <1>4. r \in (Reply \ {NoAnswer}) \ Result
    BY <1>1 DEF Reply, Result, NoAnswer
  <1>5. Body' = Body /\ GivenUp' = GivenUp
    BY <1>1, <1>2, <1>3, BodyKept DEF Inv, GivenUp
  <1>6. Batches!Open(c) /\ Body[c] = NoBody
    BY <1>2, Unanswered DEF Inv, Body, Accepted
  <1>7. Batches!Answered(c, (Reply \ {NoAnswer}) \ Result)
    BY <1>3, <1>4 DEF Batches!Answered
  <1>8. Batches!EndOther(c)
    BY <1>2, <1>5, <1>6, <1>7 DEF Batches!EndOther, OnRecord
  <1> QED
    BY <1>8 DEF Batches!Next

(* A dropped handler leaves the desktop to the next and nothing on record.  *)
LEMMA CancelGivesUp ==
  ASSUME Inv, NEW c \in Calls, Cancel(c)
  PROVE  Batches!Next
  <1>1. /\ pc[c] \notin {"idle", "done", "cancelled"}
        /\ pc' = [pc EXCEPT ![c] = "cancelled"]
        /\ actionLock' = IF actionLock = c THEN NoCall ELSE actionLock
        /\ UNCHANGED <<reply, results>>
    BY DEF Cancel, Waiting, Locking, Handling
  <1>2. /\ pc'[c] = "cancelled" /\ reply[c].kind = "none"
        /\ \A d \in Calls \ {c} : pc'[d] = pc[d]
    BY <1>1 DEF Inv, TypeInv, TypeOK, RepliesInv
  <1>3. Body' = Body
    BY <1>1, <1>2, BodyKept DEF Inv
  <1>4. GivenUp' = GivenUp \cup {c}
    BY <1>2 DEF GivenUp
  <1>5. Batches!Open(c)
    BY <1>1, Unanswered DEF Inv
  <1>6. Batches!GiveUp(c)
    BY <1>1, <1>3, <1>4, <1>5 DEF Batches!GiveUp, OnRecord
  <1> QED
    BY <1>6 DEF Batches!Next

(* Every step of the service is a step of the promise, or is not seen.      *)
LEMMA PromiseNext == Inv /\ [Next]_vars => [Batches!Next]_(Batches!vars)
  <1> SUFFICES ASSUME Inv, [Next]_vars
               PROVE  Batches!Next \/ UNCHANGED Batches!vars
    OBVIOUS
  <1>1. ASSUME NEW c \in Calls, Arrive(c)
        PROVE  Batches!Next \/ UNCHANGED Batches!vars
    BY <1>1, ArrivePosts
  <1>2. ASSUME NEW c \in Calls, ReturnRecorded(c) PROVE Batches!Next
    BY <1>2, LookupReplays
  <1>3. ASSUME NEW c \in Calls, RefuseConflict(c) \/ RefuseStale(c) PROVE Batches!Next
    <2>1. PICK r \in [kind : {"conflict", "stale"}] : Answer(c, r)
      BY <1>3 DEF RefuseConflict, RefuseStale
    <2>2. pc[c] \in {"lookup", "lock"} /\ UNCHANGED <<actionLock, results>>
      BY <1>3 DEF RefuseConflict, RefuseStale, LooksUp, CanLock
    <2>3. r \in Reply \ {NoAnswer} /\ r.kind \notin {"result", "invalid"}
      BY <2>1 DEF Reply, NoAnswer
    <2> QED
      BY <2>1, <2>2, <2>3, Declines
  <1>4. ASSUME NEW c \in Calls, ReturnObservation(c) \/ FailObservation(c)
        PROVE  Batches!Next
    <2> DEFINE o == [kind |-> "observation", generation |-> generation, seen |-> seen[c]]
               e == [kind |-> "error"]
    <2>1. o \in Observation /\ e \in Reply
      BY DEF Inv, TypeInv, TypeOK, Observation, Reply
    <2>2. /\ o \in Reply \ {NoAnswer} /\ o.kind \notin {"result", "invalid"}
          /\ e \in Reply \ {NoAnswer} /\ e.kind \notin {"result", "invalid"}
      BY <2>1 DEF Reply, NoAnswer
    <2>3. /\ pc[c] = "observe" /\ UNCHANGED <<actionLock, results>>
          /\ Answer(c, o) \/ Answer(c, e)
      BY <1>4 DEF ReturnObservation, FailObservation
    <2> HIDE DEF o, e
    <2> QED
      BY <2>2, <2>3, Declines
  <1>5. ASSUME NEW c \in Calls, Admit(c) \/ StartLocked(c) PROVE Batches!Next
    BY <1>5, LockBegins
  <1>6. ASSUME NEW c \in Calls, Record(c) PROVE Batches!Next
    BY <1>6, RecordEnds
  <1>7. ASSUME NEW c \in Calls, EndLocked(c) PROVE Batches!Next
    BY <1>7, OtherEnds
  <1>8. ASSUME NEW c \in Calls, Cancel(c) PROVE Batches!Next
    BY <1>8, CancelGivesUp
  <1>9. ASSUME NEW c \in Calls, LoopStep(c) PROVE UNCHANGED Batches!vars
    <2>1. PICK step \in {"execute", "each", "final", "record"} :
            pc' = [pc EXCEPT ![c] = step]
      BY <1>9, LoopSteps DEF Inv
    <2>2. pc[c] \in {"execute", "release", "each"} /\ UNCHANGED <<reply, actionLock, results>>
      BY <1>9, LoopSteps DEF Inv
    <2> QED
      BY <2>1, <2>2, GoesOn DEF Inv
  <1>10. ASSUME NEW c \in Calls, WaitForLock(c) \/ ActionRefused(c) \/ BatchObserved(c)
         PROVE  UNCHANGED Batches!vars
    <2>1. PICK step \in {"lock", "release", "record"} : pc' = [pc EXCEPT ![c] = step]
      BY <1>10 DEF WaitForLock, ActionRefused, BatchObserved, Waits
    <2>2. /\ pc[c] \in {"lookup", "execute", "final"}
          /\ UNCHANGED <<reply, actionLock, results>>
      BY <1>10 DEF WaitForLock, ActionRefused, BatchObserved
    <2> QED
      BY <2>1, <2>2, GoesOn DEF Inv
  <1>11. CASE \/ \E c \in Calls : Driver(c)
              \/ \E task \in orphans : OrphanEnds(task)
              \/ HumanInput \/ UNCHANGED vars
    <2>1. UNCHANGED <<pc, reply, actionLock, results>>
      BY <1>11 DEF Driver, JobSucceeds, JobFails, Capture, OrphanEnds, HumanInput, vars, local
    <2>2. Body' = Body /\ GivenUp' = GivenUp
      BY <2>1 DEF Body, GivenUp, Accepted, DigestOf, Expected
    <2> QED
      BY <2>1, <2>2, Unseen
  <1> QED
    BY <1>1, <1>2, <1>3, <1>4, <1>5, <1>6, <1>7, <1>8, <1>9, <1>10, <1>11
    DEF Next, Handler, Finished, LoopStep

-----------------------------------------------------------------------------
(* The service implements the promise: concurrency, retries, the two lookups *)
(* and dropped handlers never show a caller anything else.                   *)
THEOREM Implements == Spec => KeepsItsPromise
  <1>1. Init => OthersInv
    BY DEF Init, OthersInv
  <1>2. Spec => []Inv
    <2>1. TypeInv /\ OthersInv /\ [Next]_vars => OthersInv'
      BY OthersNext
    <2> QED
      BY <1>1, <2>1, TypeCorrect, SafetyCorrect, PTL DEF Spec, Inv
  <1> QED
    BY <1>2, PromiseInit, PromiseNext, PTL DEF Spec, KeepsItsPromise, Batches!Spec

=============================================================================
