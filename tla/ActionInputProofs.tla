--------------------------- MODULE ActionInputProofs ---------------------------
(***************************************************************************)
(* The input of the action batches: no action is counted twice, each one is  *)
(* unless something failed or was dropped, and a batch without a failure     *)
(* leaves nothing held down.                                                *)
(* Both hold for every workload and every limit, whatever calls are dropped  *)
(* and whatever fails in between.                                            *)
(***************************************************************************)
EXTENDS ActionServiceProofs, Recursion, FiniteSetTheorems

(* A handler has a blocking call only once it has got past the lookups; only   *)
(* calls that observe wait for one without the lock, and a batch that got past *)
(* its validation is balanced.                                               *)
JobInv == \A c \in Calls :
  /\ pc[c] \in {"idle", "lookup", "lock"} => job[c] = "idle"
  /\ pc[c] \in {"focus", "clipboard"} => Request[c].op # "observe"
  /\ pc[c] = "observe" => Request[c].op = "observe"
  /\ Request[c].op = "batch" /\ pc[c] \notin {"idle", "done", "cancelled"} =>
       Valid(Request[c].actions)

(* How far a batch's report has got: to every action, when it leaves the loop.  *)
LoopInv == \A c \in Calls :
  /\ pc[c] = "release" => Len(delivery[c]) < Len(Request[c].actions)
  /\ pc[c] = "each" => Len(delivery[c]) <= Len(Request[c].actions)
  /\ pc[c] \in {"final", "record"} => Len(delivery[c]) = Len(Request[c].actions)

(* Nothing but captures has gone wrong so far.  Faultless comes and goes with    *)
(* them; this does not come back.                                            *)
Troubled(c) ==
  \/ pc[c] \in {"cancelled", "release"}
  \/ job[c] = "failed" /\ Request[c].op # "observe" /\ pc[c] \notin {"each", "final"}
  \/ \E i \in DOMAIN delivery[c] : delivery[c][i] = "refused"
Untroubled == \A c \in Calls : ~Troubled(c)

OrphanInv == Untroubled => orphans = {}

(* What the driver has done, the actions with nothing to inject included; what  *)
(* of it is not counted yet is the lock holder's, if any.                     *)
Driven == inputs + vain
Owed == IF Uncounted = {} THEN 0 ELSE 1
BooksInv == /\ generation + Owed <= Driven + noted
            /\ Untroubled => generation + Owed = Driven + noted

(* What a batch holds down after its first k actions, as the validation sees    *)
(* it, and how many of them the driver is through with.                      *)
Progress(actions) ==
  LET scan[i \in 0..Len(actions)] ==
        IF i = 0 THEN [ok |-> TRUE, held |-> {}]
                 ELSE Track(scan[i - 1], actions[i])
  IN  scan
Through(c) == IF pc[c] = "execute" /\ job[c] = "ok" THEN At(c) ELSE Len(delivery[c])
HeldInv == Untroubled =>
  /\ \A c \in Calls : pc[c] \in Handling =>
       held \subseteq Progress(Request[c].actions)[Through(c)].held
  /\ (\A c \in Calls : pc[c] \notin Handling) => held = {}
InputInv == JobInv /\ LoopInv /\ OrphanInv /\ BooksInv /\ HeldInv

-----------------------------------------------------------------------------
(* The scan of the validation, one action at a time.                        *)
Scanned == [ok : BOOLEAN, held : SUBSET Symbols]

LEMMA ProgressUnfolds ==
  ASSUME NEW actions \in Seq(Action)
  PROVE  LET p == Progress(actions) IN
         /\ p \in [0..Len(actions) -> Scanned]
         /\ p[0] = [ok |-> TRUE, held |-> {}]
         /\ \A i \in 1..Len(actions) : p[i] = Track(p[i - 1], actions[i])
  <1> DEFINE n == Len(actions)
             base == [ok |-> TRUE, held |-> {}]
             Succ == [i \in 1..n |-> [s \in Scanned |-> Track(s, actions[i])]]
             Unfold(f) == [i \in 0..n |-> IF i = 0 THEN base ELSE Track(f[i - 1], actions[i])]
             p == CHOOSE f : f = Unfold(f)
  <1>1. n \in Nat /\ base \in Scanned
    BY DEF Scanned
  <1>2. \A s \in Scanned, a \in Action : Track(s, a) \in Scanned
    BY DEF Scanned, Track, Action
  <1>3. /\ \A s \in Scanned, i \in 1..n : Succ[i][s] = Track(s, actions[i])
        /\ Succ \in [1..n -> [Scanned -> Scanned]]
    <2>1. \A i \in 1..n : actions[i] \in Action
      OBVIOUS
    <2>2. \A s \in Scanned, i \in 1..n : Track(s, actions[i]) \in Scanned
      BY <1>2, <2>1
    <2> QED
      BY <2>2
  <1> HIDE DEF Succ, base, n
  <1>4. PICK f : Iterates(f, base, Succ, n, Scanned)
    BY <1>1, <1>3, IntervalRecursion
  <1>5. \A i \in 1..n : f[i] = Track(f[i - 1], actions[i])
    <2> TAKE i \in 1..n
    <2>1. i - 1 \in 0..n
      BY <1>1
    <2>2. f[i - 1] \in Scanned
      BY <1>4, <2>1 DEF Iterates
    <2> QED
      BY <1>3, <1>4, <2>2 DEF Iterates
  <1>6. f = Unfold(f)
    BY <1>1, <1>4, <1>5 DEF Iterates
  <1>7. p = Unfold(p)
    BY <1>6
  <1> HIDE DEF p
  <1>8. p[0] = base /\ \A i \in 1..n : p[i] = Track(p[i - 1], actions[i])
    BY <1>1, <1>7
  <1>9. p = [i \in 0..n |-> p[i]]
    BY <1>7
  <1>10. \A i \in 0..n : p[i] \in Scanned
    <2> DEFINE T == {i \in 0..n : p[i] \in Scanned}
    <2>1. 0 \in T
      BY <1>1, <1>8
    <2>2. ASSUME NEW i \in 1..n, i - 1 \in T PROVE i \in T
      BY <1>1, <1>2, <1>8, <2>2 DEF n
    <2> HIDE DEF T
    <2>3. 0..n \subseteq T
      BY <1>1, <2>1, <2>2, IntervalInduction
    <2> QED
      BY <2>3 DEF T
  <1>11. Progress(actions) = p
    BY DEF Progress, p, n, base
  <1> QED
    BY <1>8, <1>9, <1>10, <1>11 DEF n, base

(* The verdict of the validation is the last step of its scan.               *)
LEMMA ScanIsProgress ==
  ASSUME NEW actions
  PROVE  Scan(actions) = Progress(actions)[Len(actions)]
  BY DEF Scan, Progress

-----------------------------------------------------------------------------
(* What the loop makes of the report of a batch: it goes on to the next        *)
(* action, observes, or leaves with an entry for every action, those it       *)
(* skipped included.                                                         *)
Reported(c, log) ==
  /\ \A d \in Calls \ {c} : pc'[d] = pc[d] /\ job'[d] = job[d] /\ delivery'[d] = delivery[d]
  /\ \A i \in DOMAIN log : i \in DOMAIN delivery'[c] /\ delivery'[c][i] = log[i]
  /\ \/ /\ pc'[c] = "execute" /\ job'[c] = "running" /\ delivery'[c] = log
        /\ Len(log) < Len(Request[c].actions)
     \/ pc'[c] = "each" /\ job'[c] = "running" /\ delivery'[c] = log
     \/ /\ pc'[c] \in {"final", "record"} /\ job'[c] \in {"running", "idle"}
        /\ Len(delivery'[c]) = Len(Request[c].actions)
        /\ delivery'[c] = log \/ \E i \in DOMAIN log : log[i] = "refused"

(* Filling up a report keeps what it says.                                  *)
LEMMA Filled ==
  ASSUME NEW log \in Seq(Statuses), NEW n \in Nat
  PROVE  LET skipped == [i \in 1..n |-> "skipped"] IN
         /\ Len(log \o skipped) = Len(log) + n
         /\ \A i \in DOMAIN log : i \in DOMAIN (log \o skipped) /\ (log \o skipped)[i] = log[i]
         /\ n = 0 => log \o skipped = log
  <1> DEFINE skipped == [i \in 1..n |-> "skipped"]
  <1>1. skipped \in Seq(Statuses) /\ Len(skipped) = n
    BY DEF Statuses
  <1> HIDE DEF skipped
  <1>2. /\ Len(log \o skipped) = Len(log) + n
        /\ DOMAIN (log \o skipped) = 1..(Len(log) + n)
    BY <1>1
  <1>3. \A i \in 1..Len(log) : (log \o skipped)[i] = log[i]
    BY <1>1
  <1>4. ASSUME n = 0 PROVE log \o skipped = log
    <2>1. skipped = << >>
      BY <1>1, <1>4
    <2> QED
      BY <2>1
  <1>5. \A i \in DOMAIN log :
          i \in DOMAIN (log \o skipped) /\ (log \o skipped)[i] = log[i]
    <2>1. Len(log) \in Nat /\ DOMAIN log = 1..Len(log)
      OBVIOUS
    <2>2. \A i \in 1..Len(log) : i \in 1..(Len(log) + n)
      BY <2>1
    <2> QED
      BY <1>2, <1>3, <2>1, <2>2
  <1> QED
    BY <1>2, <1>4, <1>5 DEF skipped

(* Proceeding with a log reports that log.                                   *)
LEMMA ProceedReports ==
  ASSUME TypeOK, NEW c \in Calls, NEW log \in Seq(Statuses),
         Len(log) <= Len(Request[c].actions), Proceed(c, log)
  PROVE  Reported(c, log)
  <1> DEFINE total   == Len(Request[c].actions)
             stopped == Request[c].stop /\ \E i \in DOMAIN log : log[i] = "refused"
             n       == total - Len(log)
             skipped == [i \in 1..n |-> "skipped"]
  <1>1. /\ pc \in [Calls -> {"idle", "done", "cancelled"} \cup Waiting]
        /\ job \in [Calls -> {"idle", "running", "ok", "failed"}]
        /\ delivery \in [Calls -> Seq(Statuses)]
    BY DEF TypeOK
  <1>2. total \in Nat /\ Len(log) \in Nat
    BY RequestShape
  <1>3. n \in Nat /\ Len(log) + n = total
    BY <1>2
  <1> HIDE DEF n
  <1>4. /\ Len(log \o skipped) = total
        /\ \A i \in DOMAIN log : i \in DOMAIN (log \o skipped) /\ (log \o skipped)[i] = log[i]
        /\ n = 0 => log \o skipped = log
    BY <1>2, <1>3, Filled
  <1>5. CASE /\ Len(log) < total
             /\ delivery' = [delivery EXCEPT ![c] = log]
             /\ Waits(c, "execute")
    BY <1>1, <1>5 DEF Waits, Reported
  <1>6. CASE /\ stopped \/ Len(log) >= total
             /\ delivery' = [delivery EXCEPT ![c] = log \o skipped]
             /\ IF Request[c].observe = "final"
                THEN Waits(c, "final")
                ELSE /\ pc' = [pc EXCEPT ![c] = "record"]
                     /\ job' = [job EXCEPT ![c] = "idle"]
    <2> HIDE DEF skipped
    <2>1. /\ \E step \in {"final", "record"} : pc' = [pc EXCEPT ![c] = step]
          /\ \E state \in {"running", "idle"} : job' = [job EXCEPT ![c] = state]
      BY <1>6 DEF Waits
    <2>2. delivery'[c] = log \o skipped /\ \A d \in Calls \ {c} : delivery'[d] = delivery[d]
      BY <1>1, <1>6
    <2>3. delivery'[c] = log \/ \E i \in DOMAIN log : log[i] = "refused"
      <3>1. Len(log) >= total => n = 0
        BY <1>2, <1>3
      <3> QED
        BY <1>4, <1>6, <2>2, <3>1
    <2> QED
      BY <1>1, <1>4, <2>1, <2>2, <2>3 DEF Reported
  <1> QED
    BY <1>5, <1>6 DEF Proceed, n

(* The report of a batch after the step that its loop makes next.            *)
NextLog(c) ==
  IF pc[c] = "execute" THEN Append(delivery[c], Delivered(ActionOf(c, At(c))))
  ELSE IF pc[c] = "release" THEN Append(delivery[c], "refused")
  ELSE delivery[c]

(* Each turn of the loop adds at most one entry, and then proceeds.           *)
LEMMA LoopReports ==
  ASSUME TypeInv, LoopInv, NEW c \in Calls, LoopStep(c)
  PROVE  /\ NextLog(c) \in Seq(Statuses)
         /\ Len(NextLog(c)) <= Len(Request[c].actions)
         /\ Reported(c, NextLog(c))
  <1>1. /\ pc \in [Calls -> {"idle", "done", "cancelled"} \cup Waiting]
        /\ job \in [Calls -> {"idle", "running", "ok", "failed"}]
        /\ delivery \in [Calls -> Seq(Statuses)] /\ TypeOK
        /\ Len(delivery[c]) \in Nat /\ Len(Request[c].actions) \in Nat
    <2>1. /\ pc \in [Calls -> {"idle", "done", "cancelled"} \cup Waiting]
          /\ job \in [Calls -> {"idle", "running", "ok", "failed"}]
          /\ delivery \in [Calls -> Seq(Statuses)] /\ TypeOK
      BY DEF TypeInv, TypeOK
    <2>2. Request[c].actions \in Seq(Action) /\ delivery[c] \in Seq(Statuses)
      BY <2>1, RequestShape
    <2> QED
      BY <2>1, <2>2
  <1>2. CASE ActionDelivered(c)
    <2>1. pc[c] = "execute" /\ At(c) <= Len(Request[c].actions)
      BY <1>2 DEF ActionDelivered, TypeInv, ActionsInv
    <2>2. Delivered(ActionOf(c, At(c))) \in Statuses
      BY DEF Delivered, Statuses
    <2>3. /\ NextLog(c) = Append(delivery[c], Delivered(ActionOf(c, At(c))))
          /\ NextLog(c) \in Seq(Statuses) /\ Len(NextLog(c)) <= Len(Request[c].actions)
      BY <1>1, <2>1, <2>2 DEF NextLog, At
    <2>4. CASE Request[c].observe = "each"
      <3>1. delivery' = [delivery EXCEPT ![c] = NextLog(c)] /\ Waits(c, "each")
        BY <1>2, <2>3, <2>4 DEF ActionDelivered
      <3>2. delivery'[c] = NextLog(c)
        BY <1>1, <3>1
      <3> QED
        BY <1>1, <2>3, <3>1, <3>2 DEF Waits, Reported
    <2>5. CASE Request[c].observe # "each"
      <3>1. Proceed(c, NextLog(c))
        BY <1>2, <2>3, <2>5 DEF ActionDelivered
      <3> QED
        BY <1>1, <2>3, <3>1, ProceedReports
    <2> QED
      BY <2>4, <2>5
  <1>3. CASE Released(c)
    <2>1. pc[c] = "release" /\ Proceed(c, Append(delivery[c], "refused"))
      BY <1>3 DEF Released
    <2>2. /\ NextLog(c) = Append(delivery[c], "refused")
          /\ NextLog(c) \in Seq(Statuses) /\ Len(NextLog(c)) <= Len(Request[c].actions)
      BY <1>1, <2>1 DEF NextLog, LoopInv, Statuses
    <2> QED
      BY <1>1, <2>1, <2>2, ProceedReports
  <1>4. CASE ActionObserved(c)
    <2>1. pc[c] = "each" /\ Proceed(c, delivery[c])
      BY <1>4 DEF ActionObserved
    <2>2. /\ NextLog(c) = delivery[c]
          /\ NextLog(c) \in Seq(Statuses) /\ Len(NextLog(c)) <= Len(Request[c].actions)
      BY <1>1, <2>1 DEF NextLog, LoopInv
    <2> QED
      BY <1>1, <2>1, <2>2, ProceedReports
  <1> QED
    BY <1>2, <1>3, <1>4 DEF LoopStep

-----------------------------------------------------------------------------
(* A handler starts a blocking call only once it is past the lookups, and a    *)
(* batch gets past its arrival only if it is valid.                          *)
LEMMA JobNext == TypeInv /\ LoopInv /\ JobInv /\ [Next]_vars => JobInv'
  <1> SUFFICES ASSUME TypeInv, LoopInv, JobInv, [Next]_vars PROVE JobInv'
    OBVIOUS
  <1> USE DEF JobInv
  <1>0. /\ pc \in [Calls -> {"idle", "done", "cancelled"} \cup Waiting]
        /\ job \in [Calls -> {"idle", "running", "ok", "failed"}]
    BY DEF TypeInv, TypeOK
  <1>1. ASSUME NEW c \in Calls, Arrive(c) PROVE JobInv'
    BY <1>0, <1>1 DEF Arrive, Answer, Waits
  <1>2. ASSUME NEW c \in Calls, ReturnRecorded(c) PROVE JobInv'
    <2>1. pc' = [pc EXCEPT ![c] = "done"] /\ UNCHANGED job
      BY <1>2 DEF ReturnRecorded, Answer
    <2> QED
      BY <1>0, <2>1
  <1>3. ASSUME NEW c \in Calls,
               \/ RefuseConflict(c) \/ RefuseStale(c) \/ EndLocked(c)
               \/ ReturnObservation(c) \/ FailObservation(c) \/ Record(c)
        PROVE  JobInv'
    <2>1. pc' = [pc EXCEPT ![c] = "done"] /\ UNCHANGED job
      BY <1>3 DEF RefuseConflict, RefuseStale, EndLocked, ReturnObservation,
         FailObservation, Record, Answer
    <2> QED
      BY <1>0, <2>1
  <1>4. ASSUME NEW c \in Calls, WaitForLock(c) PROVE JobInv'
    BY <1>0, <1>4 DEF WaitForLock
  <1>5. ASSUME NEW c \in Calls, Admit(c) PROVE JobInv'
    BY <1>0, <1>5 DEF Admit, CanLock, Waits
  <1>6. ASSUME NEW c \in Calls, LoopStep(c) PROVE JobInv'
    <2>1. PICK step \in {"execute", "each", "final", "record"} :
            pc' = [pc EXCEPT ![c] = step]
      BY <1>6, LoopSteps
    <2>2. /\ pc[c] \in {"execute", "release", "each"}
          /\ \A d \in Calls \ {c} : job'[d] = job[d]
      BY <1>6, LoopSteps, LoopReports DEF Reported
    <2> QED
      BY <1>0, <2>1, <2>2
  <1>7. ASSUME NEW c \in Calls, ActionRefused(c) \/ BatchObserved(c) PROVE JobInv'
    <2>1. /\ \E step \in {"release", "record"} : pc' = [pc EXCEPT ![c] = step]
          /\ \E state \in {"running", "idle"} : job' = [job EXCEPT ![c] = state]
          /\ pc[c] \in {"execute", "final"}
      BY <1>7 DEF ActionRefused, BatchObserved, Waits
    <2> QED
      BY <1>0, <2>1
  <1>8. ASSUME NEW c \in Calls, StartLocked(c) PROVE JobInv'
    BY <1>0, <1>8 DEF StartLocked, CanLock, Waits
  <1>9. ASSUME NEW c \in Calls, Driver(c) PROVE JobInv'
    <2>1. /\ \E state \in {"ok", "failed"} : job' = [job EXCEPT ![c] = state]
          /\ UNCHANGED pc /\ pc[c] \notin {"idle", "lookup", "lock"}
      BY <1>9 DEF Driver, JobSucceeds, JobFails, Capture, Working
    <2> QED
      BY <1>0, <2>1
  <1>10. ASSUME NEW c \in Calls, Cancel(c) PROVE JobInv'
    BY <1>0, <1>10 DEF Cancel
  <1>11. CASE \/ \E task \in orphans : OrphanEnds(task)
              \/ HumanInput \/ UNCHANGED vars
    BY <1>11 DEF OrphanEnds, HumanInput, vars, local
  <1>12. ASSUME NEW c \in Calls, Handler(c) PROVE JobInv'
    BY <1>2, <1>3, <1>4, <1>5, <1>6, <1>7, <1>8, <1>12 DEF Handler, LoopStep
  <1> QED
    BY <1>1, <1>9, <1>10, <1>11, <1>12 DEF Next, Finished

(* What every step but the loop's leaves alone of the reports.              *)
LEMMA ReportsKept ==
  ASSUME TypeInv, [Next]_vars
  PROVE  UNCHANGED delivery \/ \E c \in Calls : LoopStep(c)
  <1>1. ASSUME NEW c \in Calls, Handler(c) PROVE UNCHANGED delivery \/ LoopStep(c)
    BY <1>1 DEF Handler, LoopStep, ReturnRecorded, RefuseConflict, WaitForLock, RefuseStale,
       Admit, ActionRefused, BatchObserved, Record, StartLocked, EndLocked,
       ReturnObservation, FailObservation, local
  <1>2. ASSUME NEW c \in Calls, Arrive(c) \/ Driver(c) \/ Cancel(c) PROVE UNCHANGED delivery
    BY <1>2 DEF Arrive, Driver, JobSucceeds, JobFails, Capture, Cancel, local
  <1>3. CASE (\E task \in orphans : OrphanEnds(task)) \/ HumanInput \/ UNCHANGED vars
    BY <1>3 DEF OrphanEnds, HumanInput, vars, local
  <1> QED
    BY <1>1, <1>2, <1>3 DEF Next, Finished

(* A handler enters the way out of an action from the action, and the capture   *)
(* or the record from the loop.                                              *)
LEMMA LoopNext == TypeInv /\ LoopInv /\ [Next]_vars => LoopInv'
  <1> SUFFICES ASSUME TypeInv, LoopInv, [Next]_vars PROVE LoopInv'
    OBVIOUS
  <1>0. /\ pc \in [Calls -> {"idle", "done", "cancelled"} \cup Waiting]
        /\ \A c \in Calls : Len(delivery[c]) \in Nat /\ Len(Request[c].actions) \in Nat
    BY RequestShape DEF TypeInv, TypeOK
  <1>1. ASSUME NEW c \in Calls, LoopStep(c) PROVE LoopInv'
    <2>1. Reported(c, NextLog(c)) /\ Len(NextLog(c)) <= Len(Request[c].actions)
      BY <1>1, LoopReports
    <2> QED
      BY <1>0, <2>1 DEF Reported, LoopInv
  <1>2. ASSUME NEW c \in Calls, ActionRefused(c) PROVE LoopInv'
    <2>1. /\ pc' = [pc EXCEPT ![c] = "release"] /\ UNCHANGED delivery /\ pc[c] = "execute"
      BY <1>2 DEF ActionRefused, Waits
    <2>2. Len(delivery[c]) < Len(Request[c].actions)
      BY <1>0, <2>1 DEF TypeInv, ActionsInv, At
    <2> QED
      BY <1>0, <2>1, <2>2 DEF LoopInv
  <1>3. ASSUME NEW c \in Calls, BatchObserved(c) PROVE LoopInv'
    BY <1>0, <1>3 DEF BatchObserved, LoopInv
  <1>4. ASSUME UNCHANGED delivery,
               \A c \in Calls : \/ pc'[c] = pc[c]
                               \/ pc'[c] \notin {"release", "each", "final", "record"}
        PROVE  LoopInv'
    BY <1>4 DEF LoopInv
  <1>5. ASSUME NEW c \in Calls, ReturnRecorded(c) PROVE LoopInv'
    <2>1. pc' = [pc EXCEPT ![c] = "done"] /\ UNCHANGED delivery
      BY <1>5 DEF ReturnRecorded, Answer
    <2> QED
      BY <1>0, <1>4, <2>1
  <1>6. ASSUME NEW c \in Calls, Arrive(c) \/ Handler(c) \/ Driver(c) \/ Cancel(c),
               ~LoopStep(c), ~ActionRefused(c), ~BatchObserved(c), ~ReturnRecorded(c)
        PROVE  LoopInv'
    <2>1. /\ UNCHANGED delivery
          /\ \/ UNCHANGED pc
             \/ \E step \in {"lookup", "lock", "observe", "done", "execute", "focus",
                             "clipboard", "cancelled"} : pc' = [pc EXCEPT ![c] = step]
      BY <1>6 DEF Handler, Driver, LoopStep, Arrive, RefuseConflict,
         WaitForLock, RefuseStale, Admit, Record, StartLocked, EndLocked,
         ReturnObservation, FailObservation, JobSucceeds, JobFails, Capture, Cancel,
         Answer, Waits
    <2> QED
      BY <1>0, <1>4, <2>1
  <1>7. CASE \/ \E task \in orphans : OrphanEnds(task)
             \/ HumanInput \/ UNCHANGED vars
    BY <1>7 DEF OrphanEnds, HumanInput, vars, local, LoopInv
  <1> QED
    BY <1>1, <1>2, <1>3, <1>5, <1>6, <1>7 DEF Next, Finished

-----------------------------------------------------------------------------
(* A call in trouble stays in trouble: what its action did goes on record.    *)
LEMMA TroubleStays ==
  ASSUME TypeInv, JobInv, LoopInv, [Next]_vars, NEW d \in Calls, Troubled(d)
  PROVE  Troubled(d)'
  <1> USE DEF Troubled
  <1>0. /\ pc \in [Calls -> {"idle", "done", "cancelled"} \cup Waiting]
        /\ job \in [Calls -> {"idle", "running", "ok", "failed"}]
        /\ delivery \in [Calls -> Seq(Statuses)]
    BY DEF TypeInv, TypeOK
  <1>1. ASSUME UNCHANGED delivery, pc'[d] = pc[d], job'[d] = job[d] PROVE Troubled(d)'
    BY <1>1
  <1>2. ASSUME NEW c \in Calls, LoopStep(c) PROVE Troubled(d)'
    <2>1. /\ Reported(c, NextLog(c)) /\ NextLog(c) \in Seq(Statuses)
          /\ Len(NextLog(c)) <= Len(Request[c].actions)
      BY <1>2, LoopReports
    <2>2. CASE c # d
      BY <1>0, <2>1, <2>2 DEF Reported
    <2>3. CASE c = d
      <3>1. \/ pc[c] = "execute" /\ job[c] = "ok"
            \/ pc[c] = "release"
            \/ pc[c] = "each"
        BY <1>2 DEF LoopStep, ActionDelivered, Released, ActionObserved
      <3>2. \E i \in DOMAIN NextLog(c) : NextLog(c)[i] = "refused"
        <4> DEFINE old == delivery[c]
        <4>1. old \in Seq(Statuses)
          BY <1>0
        <4> HIDE DEF old
        <4>2. \A e \in Statuses :
                /\ Append(old, e)[Len(old) + 1] = e /\ Len(old) + 1 \in DOMAIN Append(old, e)
                /\ \A i \in DOMAIN old : i \in DOMAIN Append(old, e) /\ Append(old, e)[i] = old[i]
          BY <4>1
        <4>3. Delivered(ActionOf(c, At(c))) \in Statuses /\ "refused" \in Statuses
          BY DEF Delivered, Statuses
        <4> QED
          BY <2>3, <3>1, <4>2, <4>3 DEF NextLog, old
      <3> QED
        BY <2>1, <2>3, <3>2 DEF Reported
    <2> QED
      BY <2>2, <2>3
  <1>3. ASSUME NEW c \in Calls, ReturnRecorded(c) PROVE Troubled(d)'
    <2>1. pc' = [pc EXCEPT ![c] = "done"] /\ UNCHANGED <<job, delivery>>
          /\ pc[c] \in {"lookup", "lock"}
      BY <1>3 DEF ReturnRecorded, Answer, LooksUp
    <2> QED
      BY <1>0, <2>1
  <1>4. ASSUME NEW c \in Calls,
               \/ RefuseConflict(c) \/ RefuseStale(c) \/ EndLocked(c)
               \/ ReturnObservation(c) \/ FailObservation(c) \/ Record(c) \/ WaitForLock(c)
        PROVE  Troubled(d)'
    <2>1. /\ \E step \in {"done", "lock"} : pc' = [pc EXCEPT ![c] = step]
          /\ UNCHANGED <<job, delivery>> /\ pc[c] \notin {"cancelled", "release", "each", "final"}
      BY <1>4 DEF RefuseConflict, RefuseStale, EndLocked, ReturnObservation,
         FailObservation, Record, Answer, LooksUp, CanLock, WaitForLock
    <2> QED
      BY <1>0, <2>1
  <1>5. ASSUME NEW c \in Calls, Arrive(c) \/ Admit(c) \/ StartLocked(c) PROVE Troubled(d)'
    <2>1. /\ pc[c] \in {"idle", "lock"} /\ job[c] = "idle" /\ UNCHANGED delivery
          /\ \A e \in Calls \ {c} : pc'[e] = pc[e] /\ job'[e] = job[e]
      BY <1>0, <1>5 DEF Arrive, Admit, StartLocked, CanLock, Waits, Answer, JobInv
    <2> QED
      BY <1>0, <2>1
  <1>6. ASSUME NEW c \in Calls, ActionRefused(c) \/ Cancel(c) PROVE Troubled(d)'
    <2>1. /\ \E step \in {"release", "cancelled"} : pc' = [pc EXCEPT ![c] = step]
          /\ UNCHANGED delivery
          /\ \A e \in Calls \ {c} : job'[e] = job[e]
      BY <1>0, <1>6 DEF ActionRefused, Cancel, Waits
    <2> QED
      BY <1>0, <2>1
  <1>7. ASSUME NEW c \in Calls, BatchObserved(c) PROVE Troubled(d)'
    BY <1>0, <1>7 DEF BatchObserved
  <1>8. ASSUME NEW c \in Calls, Driver(c) PROVE Troubled(d)'
    <2>1. /\ \E state \in {"ok", "failed"} : job' = [job EXCEPT ![c] = state]
          /\ UNCHANGED <<pc, delivery>> /\ job[c] = "running"
      BY <1>8 DEF Driver, JobSucceeds, JobFails, Capture
    <2> QED
      BY <1>0, <2>1
  <1>9. CASE \/ \E task \in orphans : OrphanEnds(task)
             \/ HumanInput \/ UNCHANGED vars
    BY <1>9 DEF OrphanEnds, HumanInput, vars, local
  <1> QED
    BY <1>2, <1>3, <1>4, <1>5, <1>6, <1>7, <1>8, <1>9
    DEF Next, Handler, Finished, LoopStep

(* Whoever is out of trouble after a step was out of it before.                *)
LEMMA UntroubledPast ==
  ASSUME TypeInv, JobInv, LoopInv, [Next]_vars, Untroubled'
  PROVE  Untroubled
  BY TroubleStays DEF Untroubled

(* No blocking call is left behind as long as there is no trouble.          *)
LEMMA OrphanNext ==
  ASSUME TypeInv, JobInv, LoopInv, OrphanInv, [Next]_vars
  PROVE  OrphanInv'
  <1> SUFFICES ASSUME Untroubled' PROVE orphans' = {}
    BY DEF OrphanInv
  <1>1. orphans = {}
    BY UntroubledPast DEF OrphanInv
  <1>2. pc \in [Calls -> {"idle", "done", "cancelled"} \cup Waiting]
    BY DEF TypeInv, TypeOK
  <1>3. ASSUME NEW c \in Calls, ActionRefused(c) \/ Cancel(c) PROVE FALSE
    <2>1. pc'[c] \in {"release", "cancelled"}
      BY <1>2, <1>3 DEF ActionRefused, Cancel, Waits
    <2> QED
      BY <2>1 DEF Untroubled, Troubled
  <1>4. ASSUME NEW c \in Calls, LoopStep(c) PROVE orphans' = {}
    BY <1>1, <1>4, LoopSteps
  <1> QED
    BY <1>1, <1>3, <1>4
    DEF Next, Handler, Driver, Finished, LoopStep, Arrive, ReturnRecorded, RefuseConflict,
        WaitForLock, RefuseStale, Admit, BatchObserved, Record, StartLocked, EndLocked,
        ReturnObservation, FailObservation, JobSucceeds, JobFails, Capture,
        OrphanEnds, HumanInput, vars

-----------------------------------------------------------------------------
(* A call is uncounted when the input of its action, or of its focus, is done. *)
Drives(c) == \/ pc[c] = "focus"
             \/ pc[c] = "execute" /\ Injects(ActionOf(c, At(c)))
Counts(c) == job[c] = "ok" /\ Drives(c)

(* What a blocking call does is what its handler, at the step it is at, asked  *)
(* for.                                                                      *)
LEMMA DrivesItsAction ==
  ASSUME NEW c
  PROVE  /\ DrivesInput(TaskOf(c)) <=> Drives(c)
         /\ DrivesInput(TaskOf(c))' <=> Drives(c)'
  BY DEF DrivesInput, TaskOf, Drives

(* The input that is not counted yet is that of the handlers still to count it. *)
LEMMA UncountedCounts ==
  /\ Uncounted = {c \in Calls : Counts(c)}
  /\ Uncounted' = {c \in Calls : Counts(c)'}
  <1>1. \A c \in Calls : job[c] = "ok" /\ DrivesInput(TaskOf(c)) <=> Counts(c)
    BY DrivesItsAction DEF Counts
  <1>2. \A c \in Calls : job'[c] = "ok" /\ DrivesInput(TaskOf(c))' <=> Counts(c)'
    BY DrivesItsAction DEF Counts
  <1> QED
    BY <1>1, <1>2 DEF Uncounted

(* The books after a step, from what the step does to them.                  *)
LEMMA Balance ==
  ASSUME TypeInv, JobInv, LoopInv, BooksInv, [Next]_vars,
         generation' \in Nat, Driven' \in Nat, noted' \in Nat,
         generation' + Owed' + Driven + noted <= generation + Owed + Driven' + noted',
         Untroubled' =>
           generation' + Owed' + Driven + noted = generation + Owed + Driven' + noted'
  PROVE  BooksInv'
  <1>1. PICK g \in Nat, o \in Nat, i \in Nat, n \in Nat :
          generation = g /\ Owed = o /\ Driven = i /\ noted = n
    <2>1. generation \in Nat /\ noted \in Nat /\ Owed \in Nat
      BY DEF TypeInv, TypeOK, Owed
    <2>2. Driven \in Nat
      BY DEF TypeInv, TypeOK, Driven
    <2> QED
      BY <2>1, <2>2
  <1>2. PICK g1 \in Nat, o1 \in Nat, i1 \in Nat, n1 \in Nat :
          generation' = g1 /\ Owed' = o1 /\ Driven' = i1 /\ noted' = n1
    BY DEF Owed
  <1>3. /\ g1 + o1 + i + n <= g + o + i1 + n1
        /\ Untroubled' => g1 + o1 + i + n = g + o + i1 + n1
    BY <1>1, <1>2
  <1>4. g + o <= i + n /\ (Untroubled => g + o = i + n)
    BY <1>1 DEF BooksInv
  <1>5. g1 + o1 <= i1 + n1 /\ (Untroubled' => g1 + o1 = i1 + n1)
    BY <1>3, <1>4, UntroubledPast
  <1> QED
    BY <1>2, <1>5 DEF BooksInv

(* Steps that drive no input and count none.                                *)
LEMMA BooksKept ==
  ASSUME TypeInv, JobInv, LoopInv, BooksInv, [Next]_vars,
         UNCHANGED <<generation, inputs, vain, noted>>,
         \A c \in Calls : Counts(c)' <=> Counts(c)
  PROVE  BooksInv'
  <1>1. Owed' = Owed /\ Owed \in {0, 1}
    BY UncountedCounts DEF Owed
  <1>2. generation \in Nat /\ Driven \in Nat /\ noted \in Nat /\ Driven' = Driven
    BY DEF TypeInv, TypeOK, Driven
  <1> QED
    BY <1>1, <1>2, Balance

(* Only the holder of the lock can be uncounted.                             *)
LEMMA UncountedHolds ==
  ASSUME LockInv, NEW c \in Calls, pc[c] \in Locking
  PROVE  Owed = IF Counts(c) THEN 1 ELSE 0
  <1>1. \A d \in Calls : Counts(d) => d = c
    BY DEF Counts, Drives, LockInv, Locking, Handling
  <1> QED
    BY <1>1, UncountedCounts DEF Owed

(* What a step of the holder of the lock makes of it.                        *)
LEMMA OwedNext ==
  ASSUME LockInv, NEW c \in Calls, pc[c] \in Locking,
         \A d \in Calls \ {c} : pc'[d] = pc[d]
  PROVE  Owed' = IF Counts(c)' THEN 1 ELSE 0
  <1>1. \A d \in Calls \ {c} : ~Counts(d)'
    BY DEF Counts, Drives, LockInv, Locking, Handling
  <1> QED
    BY <1>1, UncountedCounts DEF Owed

(* A call that succeeds adds to what was driven if it drives input at all.      *)
LEMMA SucceedsDrives ==
  ASSUME inputs \in Nat, vain \in Nat, NEW task, Succeeds(task)
  PROVE  Driven' = IF DrivesInput(task) THEN Driven + 1 ELSE Driven
  <1>1. MayBeVain(task) => DrivesInput(task)
    BY DEF MayBeVain, DrivesInput, Injects
  <1>2. CASE ~DrivesInput(task)
    BY <1>1, <1>2 DEF Succeeds, Driven
  <1>3. CASE DrivesInput(task)
    <2>1. \/ inputs' = inputs + 1 /\ vain' = vain
          \/ inputs' = inputs /\ vain' = vain + 1
      BY <1>3 DEF Succeeds
    <2> QED
      BY <1>3, <2>1 DEF Driven
  <1> QED
    BY <1>2, <1>3

(* The input of an action is counted by the step that takes note of it, and     *)
(* the lock keeps any other from reaching the desktop in between.             *)
LEMMA BooksNext ==
  ASSUME TypeInv, LockInv, JobInv, LoopInv, OrphanInv, BooksInv, [Next]_vars
  PROVE  BooksInv'
  <1>0. /\ pc \in [Calls -> {"idle", "done", "cancelled"} \cup Waiting]
        /\ job \in [Calls -> {"idle", "running", "ok", "failed"}]
        /\ delivery \in [Calls -> Seq(Statuses)]
        /\ generation \in Nat /\ Driven \in Nat /\ noted \in Nat
        /\ inputs \in Nat /\ vain \in Nat
    BY DEF TypeInv, TypeOK, Driven
  <1>1. ASSUME NEW c \in Calls, JobSucceeds(c) PROVE BooksInv'
    <2>1. /\ UNCHANGED <<pc, delivery, generation, noted>> /\ pc[c] \in Locking
          /\ ~Counts(c) /\ job'[c] = "ok" /\ Succeeds(TaskOf(c))
      BY <1>0, <1>1 DEF JobSucceeds, Succeeds, Working, Locking, Handling, Counts
    <2>4. Driven' = IF DrivesInput(TaskOf(c)) THEN Driven + 1 ELSE Driven
      BY <1>0, <2>1, SucceedsDrives
    <2>2. Counts(c)' <=> DrivesInput(TaskOf(c))
      BY <2>1, DrivesItsAction DEF Counts, Drives, At
    <2>3. Owed = 0 /\ Owed' = IF DrivesInput(TaskOf(c)) THEN 1 ELSE 0
      BY <2>1, <2>2, UncountedHolds, OwedNext
    <2> QED
      BY <1>0, <2>1, <2>3, <2>4, Balance
  <1>2. ASSUME NEW c \in Calls, JobFails(c) PROVE BooksInv'
    <2>1. /\ UNCHANGED <<pc, delivery, generation, noted>> /\ pc[c] \in Locking
          /\ pc[c] \in Working /\ ~Counts(c) /\ job'[c] = "failed"
          /\ Driven' = Driven \/ Driven' = Driven + 1
      BY <1>0, <1>2 DEF JobFails, Fails, Working, Locking, Handling, Counts, Driven
    <2>2. Owed = 0 /\ Owed' = 0
      BY <2>1, UncountedHolds, OwedNext DEF Counts
    <2>3. Request[c].op # "observe"
      BY <2>1 DEF Working, JobInv, TypeInv, ActionsInv, Handling
    <2>4. ~Untroubled'
      BY <2>1, <2>3 DEF Untroubled, Troubled, Working
    <2> QED
      BY <1>0, <2>1, <2>2, <2>4, Balance
  <1>3. ASSUME NEW c \in Calls, LoopStep(c) PROVE BooksInv'
    <2>1. /\ pc[c] \in {"execute", "release", "each"} /\ UNCHANGED noted /\ Driven' = Driven
      BY <1>3, LoopSteps DEF history, Driven
    <2>2. Reported(c, NextLog(c))
      BY <1>3, LoopReports
    <2>3. Owed = (IF Counts(c) THEN 1 ELSE 0) /\ Owed' = 0
      BY <2>1, <2>2, UncountedHolds, OwedNext DEF Reported, Counts, Drives, Locking, Handling
    <2>4. generation' = IF Counts(c) THEN generation + 1 ELSE generation
      BY <1>3, <2>1 DEF LoopStep, ActionDelivered, Released, ActionObserved, CountInput,
         Counts, Drives
    <2> QED
      BY <1>0, <2>1, <2>3, <2>4, Balance
  <1>4. ASSUME NEW c \in Calls, EndLocked(c) PROVE BooksInv'
    <2>1. /\ pc[c] \in {"focus", "clipboard"} /\ UNCHANGED noted /\ Driven' = Driven
          /\ pc' = [pc EXCEPT ![c] = "done"]
          /\ generation' = IF Counts(c) THEN generation + 1 ELSE generation
      BY <1>4 DEF EndLocked, Answer, Counts, Drives, history, Driven
    <2>2. Owed = (IF Counts(c) THEN 1 ELSE 0) /\ Owed' = 0
      BY <1>0, <2>1, UncountedHolds, OwedNext DEF Counts, Drives, Locking
    <2> QED
      BY <1>0, <2>1, <2>2, Balance
  <1>5. ASSUME NEW c \in Calls, Cancel(c) PROVE BooksInv'
    <2>1. /\ UNCHANGED <<delivery, generation, noted>> /\ Driven' = Driven
          /\ pc' = [pc EXCEPT ![c] = "cancelled"] /\ job' = [job EXCEPT ![c] = "idle"]
      BY <1>5 DEF Cancel, Driven
    <2>2. \A d \in Calls : Counts(d)' => Counts(d)
      BY <1>0, <2>1 DEF Counts, Drives, At
    <2>3. Owed \in {0, 1} /\ (Owed' = Owed \/ (Owed = 1 /\ Owed' = 0))
      <3>1. Uncounted = {} => Uncounted' = {}
        BY <2>2, UncountedCounts
      <3> QED
        BY <3>1 DEF Owed
    <2>4. ~Untroubled'
      BY <1>0, <2>1 DEF Untroubled, Troubled
    <2> QED
      BY <1>0, <2>1, <2>3, <2>4, Balance
  <1>6. ASSUME NEW task \in orphans, OrphanEnds(task) PROVE BooksInv'
    <2>1. /\ UNCHANGED <<pc, job, delivery, generation, noted>>
          /\ Driven' = Driven \/ Driven' = Driven + 1
      BY <1>0, <1>6, SucceedsDrives DEF OrphanEnds, Succeeds, Fails, local, Driven
    <2>2. Owed' = Owed /\ Owed \in {0, 1}
      BY <2>1, UncountedCounts DEF Owed, Counts, Drives, At
    <2>3. ~Untroubled'
      BY UntroubledPast DEF OrphanInv
    <2> QED
      BY <1>0, <2>1, <2>2, <2>3, Balance
  <1>7. CASE HumanInput
    <2>1. /\ UNCHANGED <<pc, job, delivery>> /\ Driven' = Driven
          /\ generation' = generation + 1 /\ noted' = noted + 1
      BY <1>7 DEF HumanInput, local, Driven
    <2>2. Owed' = Owed /\ Owed \in {0, 1}
      BY <2>1, UncountedCounts DEF Owed, Counts, Drives, At
    <2> QED
      BY <1>0, <2>1, <2>2, Balance
  <1>8. ASSUME NEW c \in Calls, ReturnRecorded(c) PROVE BooksInv'
    <2>1. /\ UNCHANGED <<job, delivery, generation, inputs, vain, noted>>
          /\ pc' = [pc EXCEPT ![c] = "done"] /\ pc[c] \in {"lookup", "lock"}
      BY <1>8 DEF ReturnRecorded, Answer, LooksUp, history
    <2> QED
      BY <1>0, <2>1, BooksKept DEF Counts, Drives, At
  <1>9. ASSUME NEW c \in Calls,
               \/ RefuseConflict(c) \/ RefuseStale(c) \/ WaitForLock(c)
               \/ ReturnObservation(c) \/ FailObservation(c) \/ Record(c)
        PROVE  BooksInv'
    <2>1. /\ UNCHANGED <<job, delivery, generation, inputs, vain, noted>>
          /\ \E step \in {"done", "lock"} : pc' = [pc EXCEPT ![c] = step]
          /\ pc[c] \in {"lookup", "lock", "observe", "record"}
      BY <1>9 DEF RefuseConflict, RefuseStale, WaitForLock, ReturnObservation,
         FailObservation, Record, Answer, LooksUp, CanLock, history
    <2> QED
      BY <1>0, <2>1, BooksKept DEF Counts, Drives, At
  <1>10. ASSUME NEW c \in Calls,
                \/ Arrive(c) \/ Admit(c) \/ StartLocked(c) \/ ActionRefused(c)
                \/ BatchObserved(c) \/ Capture(c)
         PROVE  BooksInv'
    <2>1. UNCHANGED <<delivery, generation, inputs, vain, noted>>
      BY <1>10 DEF Arrive, Admit, StartLocked, ActionRefused, BatchObserved, Capture, history
    <2>2. /\ pc[c] \in {"idle", "lock", "each", "final", "observe"} \/ job[c] # "ok"
          /\ pc'[c] \notin {"execute", "focus"} \/ job'[c] = "running"
      BY <1>0, <1>10 DEF Arrive, Admit, StartLocked, ActionRefused, BatchObserved, Capture,
         CanLock, TimedOut, Waits, Answer
    <2>4. ~Counts(c) /\ ~Counts(c)'
      BY <2>2 DEF Counts, Drives
    <2>3. \A d \in Calls \ {c} : pc'[d] = pc[d] /\ job'[d] = job[d]
      BY <1>0, <1>10 DEF Arrive, Admit, StartLocked, ActionRefused, BatchObserved, Capture,
         Waits, Answer
    <2> QED
      BY <2>1, <2>3, <2>4, BooksKept DEF Counts, Drives, At
  <1>11. CASE UNCHANGED vars
    BY <1>11, BooksKept DEF vars, local, history, Counts, Drives, At
  <1> QED
    BY <1>1, <1>2, <1>3, <1>4, <1>5, <1>6, <1>7, <1>8, <1>9, <1>10, <1>11
    DEF Next, Handler, Driver, Finished, LoopStep

-----------------------------------------------------------------------------
(* What the driver does to the desktop is what the validation expects of it.   *)
LEMMA DriverFollowsScan ==
  ASSUME NEW scan \in Scanned, NEW action \in Action, NEW down,
         down \subseteq scan.held
  PROVE  HeldAfter(down, action) \subseteq Track(scan, action).held
  BY DEF HeldAfter, Track, Scanned, Action, Kinds

(* Steps that leave the desktop and the batch in flight where they are.        *)
LEMMA HeldKept ==
  ASSUME TypeInv, JobInv, LoopInv, HeldInv, [Next]_vars, UNCHANGED held,
         \A c \in Calls : pc'[c] \in Handling <=> pc[c] \in Handling,
         \A c \in Calls : pc[c] \in Handling /\ Untroubled' => Through(c)' = Through(c)
  PROVE  HeldInv'
  <1> SUFFICES ASSUME Untroubled'
               PROVE  /\ \A c \in Calls : pc'[c] \in Handling =>
                           held' \subseteq Progress(Request[c].actions)[Through(c)'].held
                      /\ (\A c \in Calls : pc'[c] \notin Handling) => held' = {}
    BY DEF HeldInv, Progress, Track
  <1>1. Untroubled
    BY UntroubledPast
  <1> QED
    BY <1>1 DEF HeldInv

(* What is held down while a batch runs is what its actions so far hold, and    *)
(* after the last of them nothing: the validation saw to it.                  *)
LEMMA HeldNext ==
  ASSUME TypeInv, LockInv, JobInv, LoopInv, OrphanInv, HeldInv, [Next]_vars
  PROVE  HeldInv'
  <1>0. /\ pc \in [Calls -> {"idle", "done", "cancelled"} \cup Waiting]
        /\ job \in [Calls -> {"idle", "running", "ok", "failed"}]
        /\ delivery \in [Calls -> Seq(Statuses)]
    BY DEF TypeInv, TypeOK
  <1>1. ASSUME NEW c \in Calls, JobSucceeds(c) PROVE HeldInv'
    <2>1. UNCHANGED <<pc, delivery>> /\ job' = [job EXCEPT ![c] = "ok"] /\ job[c] = "running"
      BY <1>1 DEF JobSucceeds
    <2>2. CASE pc[c] = "execute"
      <3> SUFFICES ASSUME Untroubled' PROVE HeldInv'
        BY DEF HeldInv
      <3> DEFINE actions == Request[c].actions
                 k == Len(delivery[c])
      <3>1. k \in Nat /\ At(c) = k + 1 /\ At(c) \in 1..Len(actions) /\ actions \in Seq(Action)
        BY <1>0, <2>2, RequestShape DEF TypeInv, ActionsInv, At
      <3>2. held \subseteq Progress(actions)[k].held
        BY <2>1, <2>2, UntroubledPast DEF HeldInv, Handling, Through
      <3>3. /\ Progress(actions)[k] \in Scanned
            /\ Progress(actions)[k + 1] = Track(Progress(actions)[k], actions[k + 1])
        <4>1. k \in 0..Len(actions) /\ k + 1 \in 1..Len(actions) /\ (k + 1) - 1 = k
          BY <3>1
        <4> HIDE DEF k, actions
        <4> QED
          BY <3>1, <4>1, ProgressUnfolds
      <3>4. held' = HeldAfter(held, actions[k + 1])
        BY <1>1, <2>2, <3>1 DEF JobSucceeds, Succeeds, TaskOf, ActionOf
      <3>5. held' \subseteq Progress(actions)[k + 1].held
        BY <3>1, <3>2, <3>3, <3>4, DriverFollowsScan
      <3>6. Through(c)' = k + 1
        BY <1>0, <2>1, <2>2, <3>1 DEF Through, At
      <3>7. \A d \in Calls : pc[d] \in Handling <=> d = c
        BY <2>2 DEF LockInv, Locking, Handling
      <3> QED
        BY <2>1, <3>5, <3>6, <3>7 DEF HeldInv, Progress
    <2>3. CASE pc[c] = "release"
      BY <2>1, <2>3 DEF HeldInv, Untroubled, Troubled
    <2>4. CASE pc[c] \in {"focus", "clipboard"}
      <3>1. \A d \in Calls : pc[d] \notin Handling
        BY <2>4 DEF LockInv, Locking, Handling
      <3>2. UNCHANGED held
        BY <1>1, <2>4 DEF JobSucceeds, Succeeds, TaskOf
      <3> QED
        BY <2>1, <3>1, <3>2, HeldKept
    <2> QED
      BY <1>1, <2>2, <2>3, <2>4 DEF JobSucceeds, Working
  <1>2. ASSUME NEW c \in Calls, JobFails(c) PROVE HeldInv'
    <2>1. pc' = pc /\ pc[c] \in Working /\ job'[c] = "failed"
      BY <1>0, <1>2 DEF JobFails
    <2>2. Request[c].op # "observe"
      BY <2>1 DEF Working, JobInv, TypeInv, ActionsInv, Handling
    <2>3. ~Untroubled'
      BY <2>1, <2>2 DEF Untroubled, Troubled, Working
    <2> QED
      BY <2>3 DEF HeldInv
  <1>3. ASSUME NEW c \in Calls, LoopStep(c) PROVE HeldInv'
    <2>1. /\ pc[c] \in {"execute", "release", "each"} /\ UNCHANGED held
      BY <1>3, LoopSteps
    <2>2. Reported(c, NextLog(c)) /\ NextLog(c) \in Seq(Statuses)
      BY <1>3, LoopReports
    <2>3. pc'[c] \in Handling /\ pc[c] \in Handling
          /\ \A d \in Calls \ {c} : pc'[d] = pc[d]
      BY <2>1, <2>2 DEF Reported, Handling
    <2>4. ASSUME Untroubled' PROVE Through(c)' = Through(c)
      <3>1. pc[c] # "release"
        BY <2>4, UntroubledPast DEF Untroubled, Troubled
      <3>2. Through(c) = Len(NextLog(c))
        <4>1. pc[c] = "execute" => job[c] = "ok"
          BY <1>3 DEF LoopStep, ActionDelivered, Released, ActionObserved
        <4>2. Delivered(ActionOf(c, At(c))) \in Statuses
          BY DEF Delivered, Statuses
        <4>3. pc[c] = "execute" => Len(NextLog(c)) = Len(delivery[c]) + 1
          BY <1>0, <4>2 DEF NextLog
        <4> QED
          BY <2>1, <3>1, <4>1, <4>3 DEF Through, NextLog, At
      <3>3. delivery'[c] = NextLog(c)
        <4>1. \A i \in DOMAIN delivery'[c] : delivery'[c][i] # "refused"
          BY <2>4 DEF Untroubled, Troubled
        <4> QED
          BY <2>2, <4>1 DEF Reported
      <3>4. ~(pc'[c] = "execute" /\ job'[c] = "ok")
        BY <2>2 DEF Reported
      <3> QED
        BY <3>2, <3>3, <3>4 DEF Through
    <2>5. \A d \in Calls \ {c} : pc[d] \notin Handling
      BY <2>3 DEF LockInv, Locking
    <2> QED
      BY <2>1, <2>3, <2>4, <2>5, HeldKept
  <1>4. ASSUME NEW c \in Calls, ActionRefused(c) \/ Cancel(c) PROVE HeldInv'
    <2>1. pc'[c] \in {"release", "cancelled"}
      BY <1>0, <1>4 DEF ActionRefused, Cancel, Waits
    <2> QED
      BY <2>1 DEF HeldInv, Untroubled, Troubled
  <1>5. ASSUME NEW c \in Calls, BatchObserved(c) PROVE HeldInv'
    <2>1. /\ pc' = [pc EXCEPT ![c] = "record"] /\ pc[c] = "final"
          /\ UNCHANGED <<delivery, held>> /\ job' = [job EXCEPT ![c] = "idle"]
      BY <1>5 DEF BatchObserved
    <2> QED
      BY <1>0, <2>1, HeldKept DEF Through, Handling, At
  <1>6. ASSUME NEW c \in Calls, Record(c) PROVE HeldInv'
    <2> SUFFICES ASSUME Untroubled' PROVE HeldInv'
      BY DEF HeldInv
    <2> DEFINE actions == Request[c].actions
    <2>1. /\ pc[c] = "record" /\ pc' = [pc EXCEPT ![c] = "done"] /\ UNCHANGED held
      BY <1>6 DEF Record, Answer
    <2>2. held \subseteq Progress(actions)[Len(actions)].held
      BY <2>1, UntroubledPast DEF HeldInv, Handling, Through, LoopInv
    <2>3. Progress(actions)[Len(actions)].held = {}
      <3>1. Valid(actions)
        BY <2>1 DEF JobInv, TypeInv, ActionsInv, Handling
      <3> QED
        BY <3>1, ScanIsProgress DEF Valid, Balanced
    <2>4. \A d \in Calls : pc'[d] \notin Handling
      BY <1>0, <2>1 DEF LockInv, Locking, Handling
    <2> QED
      BY <2>1, <2>2, <2>3, <2>4 DEF HeldInv
  <1>7. ASSUME NEW c \in Calls, Admit(c) PROVE HeldInv'
    <2> SUFFICES ASSUME Untroubled' PROVE HeldInv'
      BY DEF HeldInv
    <2>1. /\ pc' = [pc EXCEPT ![c] = "execute"] /\ UNCHANGED held /\ actionLock = NoCall
      BY <1>7 DEF Admit, CanLock, Waits
    <2>2. \A d \in Calls : pc[d] \notin Handling
      BY <2>1, CallsAssumption DEF LockInv, Locking
    <2>3. held' = {}
      BY <2>1, <2>2, UntroubledPast DEF HeldInv
    <2> QED
      BY <1>0, <2>1, <2>3 DEF HeldInv, Handling
  <1>8. ASSUME NEW task \in orphans, OrphanEnds(task) PROVE HeldInv'
    BY <1>8, UntroubledPast DEF OrphanInv, HeldInv
  <1>9. ASSUME UNCHANGED <<delivery, held>>,
               NEW c \in Calls, pc[c] \notin Handling, pc'[c] \notin Handling,
               \A d \in Calls \ {c} : pc'[d] = pc[d] /\ job'[d] = job[d]
        PROVE  HeldInv'
    <2>1. \A d \in Calls : pc[d] \in Handling => Through(d)' = Through(d)
      BY <1>9 DEF Through, At
    <2> QED
      BY <1>9, <2>1, HeldKept
  <1>10. ASSUME NEW c \in Calls, ReturnRecorded(c) PROVE HeldInv'
    <2>1. /\ UNCHANGED <<job, delivery, held>>
          /\ pc' = [pc EXCEPT ![c] = "done"] /\ pc[c] \in {"lookup", "lock"}
      BY <1>10 DEF ReturnRecorded, Answer, LooksUp
    <2> QED
      BY <1>0, <1>9, <2>1 DEF Handling
  <1>11. ASSUME NEW c \in Calls,
                \/ RefuseConflict(c) \/ RefuseStale(c) \/ WaitForLock(c) \/ Arrive(c)
                \/ ReturnObservation(c) \/ FailObservation(c) \/ StartLocked(c) \/ EndLocked(c)
         PROVE  HeldInv'
    <2>1. UNCHANGED <<delivery, held>>
      BY <1>11 DEF RefuseConflict, RefuseStale, WaitForLock, Arrive, ReturnObservation,
         FailObservation, StartLocked, EndLocked
    <2>2. /\ pc[c] \in {"idle", "lookup", "lock", "observe", "focus", "clipboard"}
          /\ \E step \in {"lookup", "lock", "observe", "focus", "clipboard", "done"} :
               pc' = [pc EXCEPT ![c] = step]
          /\ \A d \in Calls \ {c} : job'[d] = job[d]
      BY <1>0, <1>11 DEF RefuseConflict, RefuseStale, WaitForLock, Arrive, ReturnObservation,
         FailObservation, StartLocked, EndLocked, Answer, Waits, LooksUp, CanLock
    <2> QED
      BY <1>0, <1>9, <2>1, <2>2 DEF Handling
  <1>12. ASSUME NEW c \in Calls, Capture(c) PROVE HeldInv'
    <2>1. /\ UNCHANGED <<pc, delivery, held>> /\ pc[c] # "execute"
          /\ \A d \in Calls \ {c} : job'[d] = job[d]
      BY <1>0, <1>12 DEF Capture
    <2> QED
      BY <2>1, HeldKept DEF Through, At
  <1>13. CASE HumanInput \/ UNCHANGED vars
    <2>1. UNCHANGED <<pc, job, delivery, held>>
      BY <1>13 DEF HumanInput, vars, local
    <2> QED
      BY <2>1, HeldKept DEF Through, At
  <1> QED
    BY <1>1, <1>2, <1>3, <1>4, <1>5, <1>6, <1>7, <1>8, <1>10, <1>11, <1>12, <1>13
    DEF Next, Handler, Driver, Finished, LoopStep

-----------------------------------------------------------------------------
(* Before the first call nothing was driven, counted or left behind.          *)
LEMMA InputInit == Init => InputInv
  <1> SUFFICES ASSUME Init PROVE InputInv
    OBVIOUS
  <1>1. JobInv /\ LoopInv /\ OrphanInv
    BY DEF Init, JobInv, LoopInv, OrphanInv
  <1>2. Owed = 0
    BY UncountedCounts DEF Init, Owed, Counts
  <1>3. BooksInv
    BY <1>2 DEF Init, BooksInv, Driven
  <1>4. HeldInv
    BY DEF Init, HeldInv, Handling
  <1> QED
    BY <1>1, <1>3, <1>4 DEF InputInv

(* What is counted and what is held down, in every reachable state.          *)
THEOREM InputInvCorrect == Spec => []InputInv
  <1>1. TypeInv /\ LockInv /\ InputInv /\ [Next]_vars => InputInv'
    BY JobNext, LoopNext, OrphanNext, BooksNext, HeldNext DEF InputInv
  <1>2. Safety => LockInv
    BY DEF Safety
  <1> QED
    BY TypeCorrect, SafetyCorrect, InputInit, <1>1, <1>2, PTL DEF Spec

(* A run that shows no failure has had none: all trouble leaves a trace.        *)
LEMMA FaultlessIsUntroubled ==
  ASSUME Faultless
  PROVE  Untroubled
  BY DEF Faultless, Untroubled, Troubled

(* The generation counts no action of the driver twice, and as long as nothing   *)
(* fails, times out or is dropped it misses none.                             *)
THEOREM CountedOnce == Spec => []InputCounted
  <1>1. ASSUME TypeInv, LockInv, InputInv PROVE InputCounted
    <2>1. Cardinality(Uncounted) = Owed
      <3>1. CASE Uncounted = {}
        BY <3>1, FS_EmptySet DEF Owed
      <3>2. CASE Uncounted # {}
        <4>1. PICK c \in Calls : Counts(c)
          BY <3>2, UncountedCounts
        <4>2. \A d \in Calls : Counts(d) => d = c
          BY <1>1, <4>1 DEF Counts, Drives, LockInv, Locking, Handling
        <4>3. Uncounted = {c}
          BY <4>1, <4>2, UncountedCounts
        <4> QED
          BY <4>3, FS_Singleton DEF Owed
      <3> QED
        BY <3>1, <3>2
    <2>2. generation \in Nat /\ inputs \in Nat /\ vain \in Nat /\ noted \in Nat
      BY <1>1 DEF TypeInv, TypeOK
    <2> QED
      BY <1>1, <2>1, <2>2, FaultlessIsUntroubled
      DEF InputInv, BooksInv, InputCounted, Driven, Owed
  <1>2. Safety => LockInv
    BY DEF Safety
  <1> QED
    BY TypeCorrect, SafetyCorrect, InputInvCorrect, <1>1, <1>2, PTL

(* A batch that ran without a failure leaves nothing held down.              *)
THEOREM NothingHeld == Spec => []NothingHeldUnlessFaulty
  <1>1. ASSUME LockInv, InputInv PROVE NothingHeldUnlessFaulty
    <2> SUFFICES ASSUME actionLock = NoCall, Faultless PROVE held = {}
      BY DEF NothingHeldUnlessFaulty
    <2>1. \A c \in Calls : pc[c] \notin Handling
      BY <1>1, CallsAssumption DEF LockInv, Locking
    <2> QED
      BY <1>1, <2>1, FaultlessIsUntroubled DEF InputInv, HeldInv
  <1>2. Safety => LockInv
    BY DEF Safety
  <1> QED
    BY SafetyCorrect, InputInvCorrect, <1>1, <1>2, PTL

=============================================================================
