---------------------------- MODULE ActionService ----------------------------
(***************************************************************************)
(* The data-plane service of one session: concurrent HTTP calls that drive *)
(* one desktop.  A call posts a batch of actions (actions), focuses a      *)
(* window (focus_window), writes the clipboard (write_clipboard) or takes  *)
(* an observation (observe).                                               *)
(*                                                                         *)
(* A handler is an async task.  It yields at each await, and everything    *)
(* between two awaits is one step here.  What drives the desktop runs on   *)
(* the blocking pool (job); a handler only waits for it.  A handler that   *)
(* gives up waiting, because DRIVER_TIMEOUT passed or because its own      *)
(* future was dropped, does not stop the blocking call: it goes on,        *)
(* detached (orphans).                                                     *)
(***************************************************************************)
EXTENDS InputSequence, FiniteSets

CONSTANTS Calls,        \* the HTTP calls the service receives
          NoCall,       \* the holder of a free lock
          Ids,          \* request ids
          Request,      \* what each call asks for
          MaxResults,   \* MAX_CACHED_RESULTS
          MaxHuman,     \* bound: hints of human input that arrive
          Impatient,    \* the calls whose client or deadline may give up
          Faults        \* what may go wrong in the driver: "fail", "timeout"

Ops == {"batch", "focus", "clipboard", "observe"}

(* A batch may expect the input generation of an earlier observation, the    *)
(* call named by basis.  The fields of a batch mean nothing to other calls.  *)
Requests == [op : Ops, id : Ids, actions : Seq(Action), stop : BOOLEAN,
             observe : {"none", "final", "each"}, basis : Calls \cup {NoCall}]

ASSUME CallsAssumption   == NoCall \notin Calls
ASSUME RequestAssumption == Request \in [Calls -> Requests]
ASSUME LimitAssumption   == MaxResults \in Nat \ {0} /\ MaxHuman \in Nat

VARIABLES
  pc,           \* where each handler is
  job,          \* the blocking call each handler waits for
  delivery,     \* delivery status of the actions a batch is through with
  own,          \* own_input_events
  before,       \* input_generation_before
  seen,         \* input generation when the pixels of a capture were read
  reply,        \* what each call was answered
  actionLock,   \* action_lock
  results,      \* the ResultStore, oldest first
  generation,   \* input_generation
  held,         \* the buttons and keys held down on the desktop
  orphans,      \* detached blocking calls still running
  (* history of the run, never read by a step's guard but for MaxHuman *)
  noted,        \* human input counted so far
  notedBefore,  \* the same when a batch was admitted
  inputs,       \* data-plane inputs that reached the desktop
  vain,         \* actions that succeeded with nothing to inject
  admitted,     \* times a batch with each id was executed
  forgotten     \* ids whose batch was cut short or whose result was evicted

local   == <<pc, job, delivery, own, before, seen, reply>>
history == <<noted, notedBefore, inputs, vain, admitted, forgotten>>
vars    == <<local, actionLock, results, generation, held, orphans, history>>

Handling == {"execute", "release", "each", "final", "record"}
Locking  == Handling \cup {"focus", "clipboard"}
Waiting  == {"lookup", "lock", "observe"} \cup Locking
Working  == {"execute", "release", "focus", "clipboard"}   \* its job drives input
Statuses == {"attempted", "waited", "refused", "skipped"}

Observation == [kind : {"observation"}, generation : Nat, seen : Nat]
Result == [kind : {"result"}, status : {"completed", "failed", "partial"},
           delivery : Seq(Statuses), before : Nat, after : Nat,
           interference : BOOLEAN]
Reply  == Observation \cup Result
            \cup [kind : {"none", "ok", "invalid", "conflict", "stale", "error"}]

(* The request body as its hash tells it apart.                             *)
Digest == [id : Ids, actions : Seq(Action), stop : BOOLEAN,
           observe : {"none", "final", "each"}, expected : SUBSET Nat]
CachedResult == [digest : Digest, result : Result]
Task == [call : Calls, step : Working, at : Nat \ {0}]

TypeOK ==
  /\ pc \in [Calls -> {"idle", "done", "cancelled"} \cup Waiting]
  /\ job \in [Calls -> {"idle", "running", "ok", "failed"}]
  /\ delivery \in [Calls -> Seq(Statuses)]
  /\ own \in [Calls -> Nat]
  /\ before \in [Calls -> Nat]
  /\ seen \in [Calls -> Nat]
  /\ reply \in [Calls -> Reply]
  /\ actionLock \in Calls \cup {NoCall}
  /\ results \in Seq(CachedResult)
  /\ generation \in Nat
  /\ held \subseteq Symbols
  /\ orphans \subseteq Task
  /\ noted \in Nat
  /\ notedBefore \in [Calls -> Nat]
  /\ inputs \in Nat
  /\ vain \in Nat
  /\ admitted \in [Ids -> Nat]
  /\ forgotten \subseteq Ids

Init ==
  /\ pc = [c \in Calls |-> "idle"]
  /\ job = [c \in Calls |-> "idle"]
  /\ delivery = [c \in Calls |-> <<>>]
  /\ own = [c \in Calls |-> 0]
  /\ before = [c \in Calls |-> 0]
  /\ seen = [c \in Calls |-> 0]
  /\ reply = [c \in Calls |-> [kind |-> "none"]]
  /\ actionLock = NoCall
  /\ results = <<>>
  /\ generation = 0
  /\ held = {}
  /\ orphans = {}
  /\ noted = 0
  /\ notedBefore = [c \in Calls |-> 0]
  /\ inputs = 0
  /\ vain = 0
  /\ admitted = [i \in Ids |-> 0]
  /\ forgotten = {}

-----------------------------------------------------------------------------
Expected(c) == IF Request[c].basis = NoCall THEN {}
               ELSE {reply[Request[c].basis].generation}

DigestOf(c) == [id |-> Request[c].id, actions |-> Request[c].actions,
                stop |-> Request[c].stop, observe |-> Request[c].observe,
                expected |-> Expected(c)]

(* ActionBatchRequest.validate, as far as its actions' data go here.        *)
AnyActions(actions) == actions # <<>>   \* variant: balance is not checked
Valid(actions) == actions # <<>> /\ Balanced(actions)

(* ResultStore.get: the first entry with this id, whatever its hash.        *)
Found(id, i) == /\ results[i].digest.id = id
                /\ \A j \in 1..(i - 1) : results[j].digest.id # id
Missing(id) == \A i \in DOMAIN results : results[i].digest.id # id

(* ResultStore.insert: the oldest entry makes room.                         *)
InsertTooLate(store, entry) ==   \* variant: room is made one entry too late
  Append(IF Len(store) <= MaxResults THEN store ELSE Tail(store), entry)
Insert(store, entry) ==
  Append(IF Len(store) < MaxResults THEN store ELSE Tail(store), entry)
Evicted(store) == IF Len(store) < MaxResults THEN {} ELSE {Head(store).digest.id}

Answer(c, r) == /\ pc' = [pc EXCEPT ![c] = "done"]
                /\ reply' = [reply EXCEPT ![c] = r]

At(c) == Len(delivery[c]) + 1
ActionOf(c, i) == Request[c].actions[i]
TaskOf(c) == [call |-> c, step |-> pc[c], at |-> At(c)]

TimedOut(c) == job[c] = "running" /\ "timeout" \in Faults
Captured(c) == job[c] = "ok"   \* variant: a capture that fails is waited for
Over(c) == job[c] \in {"ok", "failed"} \/ TimedOut(c)

Waits(c, step) == /\ pc' = [pc EXCEPT ![c] = step]
                  /\ job' = [job EXCEPT ![c] = "running"]

(* The head of the action loop, with log the delivery statuses so far: the  *)
(* next action, or, past the last one or past a failure of a batch that      *)
(* stops on errors, the way out of the loop.                                 *)
Proceed(c, log) ==
  LET total   == Len(Request[c].actions)
      stopped == Request[c].stop /\ \E i \in DOMAIN log : log[i] = "refused"
      skipped == [i \in 1..(total - Len(log)) |-> "skipped"]
  IN  \/ /\ ~stopped /\ Len(log) < total
         /\ delivery' = [delivery EXCEPT ![c] = log]
         /\ Waits(c, "execute")
      \/ /\ stopped \/ Len(log) >= total
         /\ delivery' = [delivery EXCEPT ![c] = log \o skipped]
         /\ IF Request[c].observe = "final"
            THEN Waits(c, "final")
            ELSE /\ pc' = [pc EXCEPT ![c] = "record"]
                 /\ job' = [job EXCEPT ![c] = "idle"]

-----------------------------------------------------------------------------
(* A call arrives.  An agent can only quote an observation it was given.    *)
Arrive(c) ==
  LET r == Request[c] IN
  /\ pc[c] = "idle"
  /\ r.basis # NoCall => reply[r.basis].kind = "observation"
  /\ \/ /\ r.op = "batch" /\ ~Valid(r.actions)
        /\ Answer(c, [kind |-> "invalid"])
        /\ UNCHANGED job
     \/ /\ r.op = "batch" /\ Valid(r.actions)
        /\ pc' = [pc EXCEPT ![c] = "lookup"]
        /\ UNCHANGED <<job, reply>>
     \/ /\ r.op \in {"focus", "clipboard"}
        /\ pc' = [pc EXCEPT ![c] = "lock"]
        /\ UNCHANGED <<job, reply>>
     \/ /\ r.op = "observe"
        /\ Waits(c, "observe")
        /\ UNCHANGED reply
  /\ UNCHANGED <<delivery, own, before, seen, actionLock, results, generation,
                 held, orphans, history>>

(* Both lookups of actions: before it waits for the lock, and once it has it. *)
LooksUp(c) == \/ pc[c] = "lookup"
              \/ pc[c] = "lock" /\ Request[c].op = "batch" /\ actionLock = NoCall

ReturnRecorded(c) ==
  /\ LooksUp(c)
  /\ \E i \in DOMAIN results : /\ Found(Request[c].id, i)
                               /\ results[i].digest = DigestOf(c)
                               /\ Answer(c, results[i].result)
  /\ UNCHANGED <<job, delivery, own, before, seen, actionLock, results,
                 generation, held, orphans, history>>

RefuseConflict(c) ==
  /\ LooksUp(c)
  /\ \E i \in DOMAIN results : /\ Found(Request[c].id, i)
                               /\ results[i].digest # DigestOf(c)
  /\ Answer(c, [kind |-> "conflict"])
  /\ UNCHANGED <<job, delivery, own, before, seen, actionLock, results,
                 generation, held, orphans, history>>

WaitForLock(c) ==
  /\ pc[c] = "lookup"
  /\ Missing(Request[c].id)
  /\ pc' = [pc EXCEPT ![c] = "lock"]
  /\ UNCHANGED <<job, delivery, own, before, seen, reply, actionLock, results,
                 generation, held, orphans, history>>

(* The lock, the second lookup, the stale check and the first action: no    *)
(* await that matters lies between them.                                     *)
AssumeMissing(c) == c \in Calls   \* variant: only the first lookup is made
StillMissing(c) == Missing(Request[c].id)

CanBargeIn(c, op) == pc[c] = "lock" /\ Request[c].op = op   \* variant: no lock
CanLock(c, op) == pc[c] = "lock" /\ Request[c].op = op /\ actionLock = NoCall

RefuseStale(c) ==
  /\ CanLock(c, "batch")
  /\ StillMissing(c)
  /\ Expected(c) \notin {{}, {generation}}
  /\ Answer(c, [kind |-> "stale"])
  /\ UNCHANGED <<job, delivery, own, before, seen, actionLock, results,
                 generation, held, orphans, history>>

Admit(c) ==
  /\ CanLock(c, "batch")
  /\ StillMissing(c)
  /\ Expected(c) \in {{}, {generation}}
  /\ actionLock' = c
  /\ before' = [before EXCEPT ![c] = generation]
  /\ notedBefore' = [notedBefore EXCEPT ![c] = noted]
  /\ admitted' = [admitted EXCEPT ![Request[c].id] = @ + 1]
  /\ Waits(c, "execute")
  /\ UNCHANGED <<delivery, own, seen, reply, results, generation, held, orphans,
                 noted, inputs, vain, forgotten>>

-----------------------------------------------------------------------------
(* The loop of a batch.                                                     *)
CountPresses(c, action) ==   \* variant: letting go is not counted
  IF action.kind \in {"wait", "up"}
  THEN UNCHANGED <<generation, own>>
  ELSE generation' = generation + 1 /\ own' = [own EXCEPT ![c] = @ + 1]
CountEvery(c, action) ==     \* variant: a wait counts as input
  generation' = generation + 1 /\ own' = [own EXCEPT ![c] = @ + 1]
CountInput(c, action) ==
  IF Injects(action)
  THEN generation' = generation + 1 /\ own' = [own EXCEPT ![c] = @ + 1]
  ELSE UNCHANGED <<generation, own>>

Confirmed(action) == IF Injects(action) THEN "confirmed" ELSE "waited"   \* variant
Delivered(action) == IF Injects(action) THEN "attempted" ELSE "waited"

ActionDelivered(c) ==
  LET action == ActionOf(c, At(c))
      log == Append(delivery[c], Delivered(action))
  IN
  /\ pc[c] = "execute" /\ job[c] = "ok"
  /\ CountInput(c, action)
  /\ IF Request[c].observe = "each"
     THEN delivery' = [delivery EXCEPT ![c] = log] /\ Waits(c, "each")
     ELSE Proceed(c, log)
  /\ UNCHANGED <<before, seen, reply, actionLock, results, held, orphans, history>>

(* The action failed, or its deadline passed and it is left to itself.      *)
ActionRefused(c) ==
  /\ pc[c] = "execute" /\ (job[c] = "failed" \/ TimedOut(c))
  /\ orphans' = IF job[c] = "running" THEN orphans \cup {TaskOf(c)} ELSE orphans
  /\ Waits(c, "release")
  /\ UNCHANGED <<delivery, own, before, seen, reply, actionLock, results,
                 generation, held, history>>

Released(c) ==
  /\ pc[c] = "release" /\ job[c] \in {"ok", "failed"}
  /\ Proceed(c, Append(delivery[c], "refused"))
  /\ UNCHANGED <<own, before, seen, reply, actionLock, results, generation, held,
                 orphans, history>>

(* An observation after an action, or its error: the batch goes on.         *)
ActionObserved(c) ==
  /\ pc[c] = "each" /\ Over(c)
  /\ Proceed(c, delivery[c])
  /\ UNCHANGED <<own, before, seen, reply, actionLock, results, generation, held,
                 orphans, history>>

BatchObserved(c) ==
  /\ pc[c] = "final" /\ Over(c)
  /\ pc' = [pc EXCEPT ![c] = "record"]
  /\ job' = [job EXCEPT ![c] = "idle"]
  /\ UNCHANGED <<delivery, own, before, seen, reply, actionLock, results,
                 generation, held, orphans, history>>

ResultOf(c) ==
  LET executed == {i \in DOMAIN delivery[c] : delivery[c][i] # "skipped"}
      failed   == {i \in DOMAIN delivery[c] : delivery[c][i] = "refused"}
  IN  [kind |-> "result",
       status |-> IF failed = {} THEN "completed"
                  ELSE IF failed = executed THEN "failed" ELSE "partial",
       delivery |-> delivery[c],
       before |-> before[c],
       after |-> generation,
       interference |-> generation # before[c] + own[c]]

EntryBefore(c) ==   \* variant: made up before the final capture
  [digest |-> DigestOf(c), result |-> [ResultOf(c) EXCEPT !.after = before[c] + own[c]]]
Entry(c) == [digest |-> DigestOf(c), result |-> ResultOf(c)]

Record(c) ==
  /\ pc[c] = "record"
  /\ results' = Insert(results, Entry(c))
  /\ forgotten' = forgotten \cup Evicted(results)
  /\ actionLock' = NoCall
  /\ Answer(c, ResultOf(c))
  /\ UNCHANGED <<job, delivery, own, before, seen, generation, held, orphans,
                 noted, notedBefore, inputs, vain, admitted>>

-----------------------------------------------------------------------------
(* focus_window and write_clipboard: one blocking call under the lock.      *)
StartLocked(c) ==
  /\ \E op \in {"focus", "clipboard"} : CanLock(c, op) /\ Waits(c, op)
  /\ actionLock' = c
  /\ UNCHANGED <<delivery, own, before, seen, reply, results, generation, held,
                 orphans, history>>

EndLocked(c) ==
  /\ pc[c] \in {"focus", "clipboard"} /\ job[c] \in {"ok", "failed"}
  /\ generation' = IF pc[c] = "focus" /\ job[c] = "ok"
                   THEN generation + 1 ELSE generation
  /\ actionLock' = NoCall
  /\ Answer(c, [kind |-> IF job[c] = "ok" THEN "ok" ELSE "error"])
  /\ UNCHANGED <<job, delivery, own, before, seen, results, held, orphans, history>>

(* observe, once the pixels are there: the observation is stamped with the  *)
(* input generation of now.  seen, the generation the pixels were read at,   *)
(* is not part of the code's answer.                                         *)
ReturnObservation(c) ==
  /\ pc[c] = "observe" /\ job[c] = "ok"
  /\ Answer(c, [kind |-> "observation", generation |-> generation, seen |-> seen[c]])
  /\ UNCHANGED <<job, delivery, own, before, seen, actionLock, results,
                 generation, held, orphans, history>>

FailObservation(c) ==
  /\ pc[c] = "observe" /\ (job[c] = "failed" \/ TimedOut(c))
  /\ Answer(c, [kind |-> "error"])
  /\ UNCHANGED <<job, delivery, own, before, seen, actionLock, results,
                 generation, held, orphans, history>>

-----------------------------------------------------------------------------
(* The blocking calls.  What one does to the desktop when it succeeds, and   *)
(* what it may have done when it fails.                                      *)
DrivesInput(task) ==
  \/ task.step = "focus"
  \/ task.step = "execute" /\ Injects(ActionOf(task.call, task.at))

(* A move to where the pointer is already, or an empty text: the action        *)
(* succeeds and injects nothing.                                             *)
MayBeVain(task) ==
  LET action == ActionOf(task.call, task.at) IN
  task.step = "execute" /\ action.kind = "tap" /\ action.symbols = {}

Succeeds(task) ==
  LET action == ActionOf(task.call, task.at) IN
  /\ held' = CASE task.step = "execute" -> HeldAfter(held, action)
               [] task.step = "release" -> HeldAfterRelease(held)
               [] OTHER -> held
  /\ \/ ~DrivesInput(task) /\ UNCHANGED <<inputs, vain>>
     \/ DrivesInput(task) /\ inputs' = inputs + 1 /\ UNCHANGED vain
     \/ MayBeVain(task) /\ vain' = vain + 1 /\ UNCHANGED inputs

Fails(task) ==
  LET action == ActionOf(task.call, task.at) IN
  /\ held' \in CASE task.step = "execute" -> HeldAfterFailure(held, action)
                 [] task.step = "release" -> HeldAfterFailedRelease(held)
                 [] OTHER -> {held}
  /\ \/ inputs' = inputs
     \/ DrivesInput(task) /\ inputs' = inputs + 1
  /\ UNCHANGED vain

JobSucceeds(c) ==
  /\ pc[c] \in Working /\ job[c] = "running"
  /\ Succeeds(TaskOf(c))
  /\ job' = [job EXCEPT ![c] = "ok"]
  /\ UNCHANGED <<pc, delivery, own, before, seen, reply, actionLock, results,
                 generation, orphans, noted, notedBefore, admitted, forgotten>>

JobFails(c) ==
  /\ "fail" \in Faults
  /\ pc[c] \in Working /\ job[c] = "running"
  /\ Fails(TaskOf(c))
  /\ job' = [job EXCEPT ![c] = "failed"]
  /\ UNCHANGED <<pc, delivery, own, before, seen, reply, actionLock, results,
                 generation, orphans, noted, notedBefore, admitted, forgotten>>

Capture(c) ==
  /\ pc[c] \in {"observe", "each", "final"} /\ job[c] = "running"
  /\ \/ /\ job' = [job EXCEPT ![c] = "ok"]
        /\ seen' = [seen EXCEPT ![c] = generation]
     \/ /\ "fail" \in Faults
        /\ job' = [job EXCEPT ![c] = "failed"]
        /\ UNCHANGED seen
  /\ UNCHANGED <<pc, delivery, own, before, reply, actionLock, results,
                 generation, held, orphans, history>>

OrphanEnds(task) ==
  /\ task \in orphans
  /\ Succeeds(task) \/ ("fail" \in Faults /\ Fails(task))
  /\ orphans' = orphans \ {task}
  /\ UNCHANGED <<local, actionLock, results, generation, noted, notedBefore,
                 admitted, forgotten>>

-----------------------------------------------------------------------------
(* A hint on the human-input socket.  A hint lost or late on its way is no   *)
(* step of the service.                                                      *)
HumanInput ==
  /\ noted < MaxHuman
  /\ noted' = noted + 1
  /\ generation' = generation + 1
  /\ UNCHANGED <<local, actionLock, results, held, orphans, notedBefore, inputs,
                 vain, admitted, forgotten>>

(* The handler's future is dropped at an await: API_TIMEOUT passed, or the   *)
(* client hung up.  Its guard goes with it; a running blocking call does not. *)
Cancel(c) ==
  /\ c \in Impatient
  /\ pc[c] \in Waiting
  /\ pc' = [pc EXCEPT ![c] = "cancelled"]
  /\ job' = [job EXCEPT ![c] = "idle"]
  /\ actionLock' = IF actionLock = c THEN NoCall ELSE actionLock
  /\ orphans' = IF pc[c] \in Working /\ job[c] = "running"
                THEN orphans \cup {TaskOf(c)} ELSE orphans
  /\ forgotten' = IF pc[c] \in Handling
                  THEN forgotten \cup {Request[c].id} ELSE forgotten
  /\ UNCHANGED <<delivery, own, before, seen, reply, results, generation, held,
                 noted, notedBefore, inputs, vain, admitted>>

(* Every call was answered or dropped and nothing runs: the end of a run.    *)
Finished ==
  /\ \A c \in Calls :
       \/ pc[c] \in {"done", "cancelled"}
       \/ pc[c] = "idle" /\ Request[c].basis # NoCall
  /\ orphans = {}
  /\ UNCHANGED vars

Handler(c) ==
  \/ ReturnRecorded(c) \/ RefuseConflict(c) \/ WaitForLock(c)
  \/ RefuseStale(c) \/ Admit(c)
  \/ ActionDelivered(c) \/ ActionRefused(c) \/ Released(c)
  \/ ActionObserved(c) \/ BatchObserved(c) \/ Record(c)
  \/ StartLocked(c) \/ EndLocked(c)
  \/ ReturnObservation(c) \/ FailObservation(c)

Driver(c) == JobSucceeds(c) \/ JobFails(c) \/ Capture(c)

Next ==
  \/ \E c \in Calls : Arrive(c) \/ Handler(c) \/ Driver(c) \/ Cancel(c)
  \/ \E task \in orphans : OrphanEnds(task)
  \/ HumanInput
  \/ Finished

Spec == Init /\ [][Next]_vars

(* Handlers are scheduled, and a blocking call ends: xdotool is killed at its *)
(* deadline and the sleeps of an action are bounded.                         *)
Fairness == \A c \in Calls : /\ WF_vars(Handler(c))
                             /\ WF_vars(Driver(c))
                             /\ WF_vars(\E task \in orphans :
                                          task.call = c /\ OrphanEnds(task))

FairSpec == Spec /\ Fairness

-----------------------------------------------------------------------------
Attached == {c \in Calls : pc[c] \in Working /\ job[c] = "running"}

(* At most one blocking call that drives input runs on behalf of a live      *)
(* handler: what overlaps it can only be a call some handler gave up on.     *)
SerializedUnlessDetached == \A c, d \in Attached : c = d

(* A batch runs again under the same request id only if its first run was    *)
(* cut short by a dropped future, or its recorded result was evicted.        *)
RepeatOnlyIfForgotten == \A id \in Ids : admitted[id] > 1 => id \in forgotten

(* Architecture.md: "Reusing a request ID returns the recorded result        *)
(* instead of repeating input."  No batch runs while an identical one has    *)
(* already driven the desktop.                                               *)
RetryNeverRepeats ==
  \A c, d \in Calls : c # d /\ Request[c] = Request[d] /\ pc[d] \in Handling =>
    \A i \in DOMAIN delivery[c] : delivery[c][i] # "attempted"

(* Two calls with one request id that are both answered with a result get    *)
(* the same one, be they concurrent or one after the other.                  *)
SameResultUnlessForgotten ==
  \A c, d \in Calls :
    (/\ Request[c].id = Request[d].id /\ Request[c].id \notin forgotten
     /\ reply[c].kind = "result" /\ reply[d].kind = "result")
    => reply[c] = reply[d]

(* The store holds at most one result per request id and never more than its *)
(* limit: a lookup that stops at the first entry sees the only one.          *)
ResultsWellFormed ==
  /\ Len(results) <= MaxResults
  /\ \A i, j \in DOMAIN results :
       results[i].digest.id = results[j].digest.id => i = j

(* While a batch holds the lock, the generation moves by its own input and   *)
(* by human input alone, so interference_detected means human input.         *)
OnlyHumanInputInterferes ==
  \A c \in Calls : pc[c] \in Handling =>
    generation = before[c] + own[c] + (noted - notedBefore[c])

(* Calls of the driver that succeeded and that a live handler is about to count. *)
Uncounted == {c \in Calls : job[c] = "ok" /\ DrivesInput(TaskOf(c))}

Faultless == \A c \in Calls :
  /\ pc[c] \notin {"cancelled", "release"} /\ job[c] # "failed"
  /\ \A i \in DOMAIN delivery[c] : delivery[c][i] # "refused"

(* Besides human input the generation counts what the driver was called for,  *)
(* each action once and also one that had nothing to inject, but never a wait, *)
(* a clipboard write or a clean-up; and it misses no input as long as no action *)
(* failed, timed out or was abandoned.                                       *)
InputCounted ==
  LET counted == generation + Cardinality(Uncounted) IN
  /\ counted <= noted + inputs + vain
  /\ Faultless => counted = noted + inputs + vain

(* Protocol.md: "`input_generation`, which increases when input reaches the    *)
(* desktop".  Once every call is answered or dropped and nothing runs, all     *)
(* that has reached the desktop has been counted.                            *)
EveryInputCounted ==
  orphans = {} /\ (\A c \in Calls : pc[c] \notin Waiting) => noted + inputs <= generation

(* Between batches nothing is held down, as long as no action failed, timed  *)
(* out or was abandoned: the validation and the execution agree on balance.  *)
NothingHeldUnlessFaulty == actionLock = NoCall /\ Faultless => held = {}

(* Architecture.md: "If human or other input changed the desktop, the        *)
(* service rejects stale work before injecting it."  A batch that expects    *)
(* the generation of an observation runs only if no input was counted since  *)
(* the observation's pixels were read.                                       *)
StaleWorkRejected ==
  \A c \in Calls : pc[c] \in Handling /\ Request[c].basis # NoCall =>
    reply[Request[c].basis].seen = before[c]

(* Every call that arrived is answered: each way out of a handler frees the  *)
(* lock for the next.                                                        *)
EveryCallAnswered == \A c \in Calls : pc[c] # "idle" ~> pc[c] \in {"done", "cancelled"}

=============================================================================
