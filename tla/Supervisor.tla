------------------------------ MODULE Supervisor ------------------------------
(***************************************************************************)
(* vdesk serve --local: a supervisor that starts a desktop, serves it and   *)
(* takes it down again.  Several runtimes of one user share a runtime        *)
(* directory (the D-Bus path, the human-input socket and client.json), the   *)
(* RFB port and, as configured, a display.                                   *)
(*                                                                         *)
(* A child is a program of its own: it claims its resource when it is up,   *)
(* and the display and the viewer exit when theirs is taken.  The supervisor *)
(* only polls its children, so another's child may answer what it waits for. *)
(***************************************************************************)
EXTENDS Naturals

CONSTANTS Runtimes,    \* the runs of serve --local
          NoRuntime,   \* no owner
          Display,     \* the display each runtime is configured for
          Faults,      \* what may go wrong: "child", "slow", "crash", "kill", "remove"
          MaxFaults,   \* bound: how many times in a run
          Mixed        \* bound: whether overlaps meet faults

ASSUME OwnerAssumption  == NoRuntime \notin Runtimes
ASSUME FaultsAssumption == MaxFaults \in Nat /\ Mixed \in BOOLEAN

Kinds == {"dbus", "display", "desktop", "viewer"}   \* the children
Rank  == [dbus |-> 1, display |-> 2, desktop |-> 3, viewer |-> 4]

VARIABLES
  phase,       \* where each supervisor is
  child,       \* its children
  server,      \* its service task
  failed,      \* whether it ends for another reason than a signal
  survivors,   \* the runtimes that manage a process which outlived its kill
  bus,         \* the runtime whose D-Bus daemon bound the path
  human,       \* the runtime whose service last bound the human-input socket
  store,       \* the runtime that client.json names
  (* history of the run; only trouble is read by a guard, as a bound *)
  trouble,     \* faults so far
  signaled,    \* runtimes that were sent TERM or INT
  crowded,     \* two runtimes lived at the same time
  spoiled      \* runtimes that met a fault, or what a killed one left behind

runtime == <<phase, child, server, failed, survivors>>
shared  == <<bus, human, store>>
history == <<trouble, signaled, crowded, spoiled>>
vars    == <<runtime, shared, history>>

Starting == {"dbus", "display", "desktop", "viewer", "publish", "handlers"}
Closing  == {"drain", "reap", "compare", "unlink"}
Up       == {"handlers", "running"} \cup Closing   \* the service task is there
Phases   == {"off", "running", "dropping", "ended", "killed"} \cup Starting \cup Closing
Present  == {r \in Runtimes : phase[r] \notin {"off", "dropping", "ended", "killed"}}

Alive(r, k) == child[r][k] \in {"starting", "serving"}
Left(r)     == {k \in Kinds : Alive(r, k)}

TypeOK ==
  /\ phase \in [Runtimes -> Phases]
  /\ child \in [Runtimes -> [Kinds -> {"none", "starting", "serving", "exited"}]]
  /\ server \in [Runtimes -> {"none", "binding", "serving", "finished"}]
  /\ failed \in [Runtimes -> BOOLEAN]
  /\ survivors \subseteq Runtimes
  /\ bus \in Runtimes \cup {NoRuntime}
  /\ human \in Runtimes \cup {NoRuntime}
  /\ store \in Runtimes \cup {NoRuntime}
  /\ trouble \in 0..MaxFaults
  /\ signaled \subseteq Runtimes
  /\ crowded \in BOOLEAN
  /\ spoiled \subseteq Runtimes

Init ==
  /\ phase = [r \in Runtimes |-> "off"]
  /\ child = [r \in Runtimes |-> [k \in Kinds |-> "none"]]
  /\ server = [r \in Runtimes |-> "none"]
  /\ failed = [r \in Runtimes |-> FALSE]
  /\ survivors = {}
  /\ bus = NoRuntime
  /\ human = NoRuntime
  /\ store = NoRuntime
  /\ trouble = 0
  /\ signaled = {}
  /\ crowded = FALSE
  /\ spoiled = {}

-----------------------------------------------------------------------------
(* Who answers at each resource.                                            *)
Taken(k, d) == \E r \in Runtimes : child[r][k] = "serving" /\ Display[r] = d
Answers(k, r) ==
  CASE k = "dbus"    -> bus # NoRuntime /\ child[bus]["dbus"] = "serving"
    [] k = "display" -> Taken("display", Display[r])
    [] k = "desktop" -> Taken("display", Display[r]) /\ Taken("desktop", Display[r])
    [] k = "viewer"  -> \E o \in Runtimes : child[o]["viewer"] = "serving"
Free(k, r) ==
  CASE k = "viewer"  -> ~Answers("viewer", r)
    [] k = "display" -> ~Taken("display", Display[r])
    [] OTHER         -> TRUE   \* dbus-daemon takes its path over

(* A child gets its resource, or finds it taken and exits.                  *)
ChildUp(r, k) ==
  /\ child[r][k] = "starting"
  /\ child' = [child EXCEPT ![r][k] = IF Free(k, r) THEN "serving" ELSE "exited"]
  /\ bus' = IF k = "dbus" THEN r ELSE bus
  /\ UNCHANGED <<phase, server, failed, human, store, survivors, history>>

Spawn(r, k) == child' = [child EXCEPT ![r][k] = "starting"]

To(r, p) == phase' = [phase EXCEPT ![r] = p]

(* The way out of run_inner with an error.  A service that was started is     *)
(* told to finish first.                                                     *)
Gives(r) == /\ To(r, IF server[r] = "none" THEN "reap" ELSE "drain")
            /\ failed' = [failed EXCEPT ![r] = TRUE]

(* ensure_children: try_wait reaps a child that has exited.                 *)
SomeExited(r) == \E k \in Kinds : child[r][k] = "exited"
Noticed(r) == \E k \in Kinds :
  /\ child[r][k] = "exited"
  /\ \A j \in Kinds : child[r][j] = "exited" => Rank[k] <= Rank[j]
  /\ child' = [child EXCEPT ![r][k] = "none"]

-----------------------------------------------------------------------------
(* A supervisor starts: it takes whatever is at its D-Bus path for stale.   *)
Start(r) ==
  /\ phase[r] = "off"
  /\ To(r, "dbus")
  /\ bus' = NoRuntime
  /\ Spawn(r, "dbus")
  /\ Mixed \/ Present = {} \/ trouble = 0
  /\ crowded' = (crowded \/ Present # {})
  /\ spoiled' = IF \E o \in Runtimes : phase[o] = "killed"
                THEN spoiled \cup {r} ELSE spoiled
  /\ UNCHANGED <<server, failed, human, store, survivors, trouble, signaled>>

(* The waits: for the D-Bus socket, the display, the desktop (its windows are  *)
(* looked for twice) and the RFB port.  All but the wait for the desktop ask  *)
(* for the resource before they look at the children.                        *)
ReadyAlive(r) == ~SomeExited(r)   \* variant: a child that lives is taken to be up
Ready(r) == /\ Answers(phase[r], r)
            /\ phase[r] = "desktop" => ~SomeExited(r)
FollowingUnwatched ==   \* variant: the first wait leads to a phase nobody handles
  [dbus |-> "display", display |-> "desktop", desktop |-> "viewer", viewer |-> "watch"]
Following ==
  [dbus |-> "display", display |-> "desktop", desktop |-> "viewer", viewer |-> "publish"]

Proceed(r) ==
  /\ phase[r] \in Kinds
  /\ Ready(r)
  /\ To(r, Following[phase[r]])
  /\ IF Following[phase[r]] \in Kinds THEN Spawn(r, Following[phase[r]])
                                      ELSE UNCHANGED child
  /\ UNCHANGED <<server, failed, shared, survivors, history>>

(* A child has exited, during the waits or while the runtime is up.         *)
Notice(r) ==
  /\ phase[r] \in Kinds \cup {"running"}
  /\ phase[r] \in Kinds => ~Ready(r)
  /\ Noticed(r)
  /\ Gives(r)
  /\ UNCHANGED <<server, shared, survivors, history>>

Fault(kind, r) == /\ kind \in Faults /\ trouble < MaxFaults
                  /\ crowded => Mixed
                  /\ trouble' = trouble + 1
                  /\ spoiled' = spoiled \cup {r}
                  /\ UNCHANGED <<signaled, crowded>>

(* STARTUP_TIMEOUT passes: at once when nothing will answer any more.       *)
Hopeless(r) == \A o \in Runtimes : child[o][phase[r]] # "starting"

Deadline(r) ==
  /\ phase[r] \in Kinds /\ ~Ready(r) /\ ~SomeExited(r)
  /\ \/ Fault("slow", r)
     \/ Hopeless(r) /\ UNCHANGED history
  /\ Gives(r)
  /\ UNCHANGED <<child, server, shared, survivors>>

(* The driver is connected and the port bound; then the descriptor is saved, *)
(* the service spawned, and the signal handlers are installed last.          *)
PublishUnsaved(r) ==   \* variant: the descriptor is not saved
  /\ phase[r] = "publish"
  /\ \/ /\ Answers("display", r)
        /\ To(r, "handlers")
        /\ server' = [server EXCEPT ![r] = "binding"]
        /\ UNCHANGED <<store, failed, history>>
     \/ /\ ~Answers("display", r)
        /\ Gives(r)
        /\ UNCHANGED <<store, server, history>>
  /\ UNCHANGED <<child, bus, human, survivors>>
Publish(r) ==
  /\ phase[r] = "publish"
  /\ \/ /\ Answers("display", r)
        /\ To(r, "handlers")
        /\ store' = r
        /\ server' = [server EXCEPT ![r] = "binding"]
        /\ UNCHANGED <<failed, history>>
     \/ /\ \/ ~Answers("display", r) /\ UNCHANGED history
           \/ Answers("display", r) /\ Fault("slow", r)
        /\ Gives(r)
        /\ UNCHANGED <<store, server>>
  /\ UNCHANGED <<child, bus, human, survivors>>

InstallHandlers(r) ==
  /\ phase[r] = "handlers"
  /\ To(r, "running")
  /\ UNCHANGED <<child, server, failed, shared, survivors, history>>

-----------------------------------------------------------------------------
(* The service task takes the human-input socket over and serves.  The path   *)
(* of an earlier service is still there: nobody removes it at the end.       *)
Serve(r) ==
  /\ server[r] = "binding"
  /\ phase[r] \in Up
  /\ human' = r
  /\ server' = [server EXCEPT ![r] = "serving"]
  /\ UNCHANGED <<phase, child, failed, bus, store, survivors, history>>

(* The service fails by itself, and the supervisor finds out.               *)
ServerFails(r) ==
  /\ Fault("child", r)
  /\ phase[r] \in Up /\ server[r] \in {"binding", "serving"}
  /\ server' = [server EXCEPT ![r] = "finished"]
  /\ UNCHANGED <<phase, child, failed, shared, survivors>>

NoticeServer(r) ==
  /\ phase[r] = "running" /\ server[r] = "finished"
  /\ Gives(r)
  /\ UNCHANGED <<child, server, shared, survivors, history>>

(* The supervisor's process ends, and whatever serves in it is gone.        *)
Exits(r) == To(r, "ended") /\ server' = [server EXCEPT ![r] = "none"]

(* TERM or INT: before the handlers are installed the default disposition     *)
(* ends the supervisor on the spot; once it is closing nobody listens.       *)
Dies(r) == /\ To(r, "killed")
           /\ server' = [server EXCEPT ![r] = "none"]
           /\ UNCHANGED child

Signal(r) ==
  /\ r \notin signaled
  /\ signaled' = signaled \cup {r}
  /\ \/ phase[r] \in Starting /\ Dies(r)
     \/ phase[r] = "running" /\ To(r, "drain") /\ UNCHANGED <<child, server>>
  /\ UNCHANGED <<failed, shared, survivors, trouble, crowded, spoiled>>

(* KILL, at any time.  One that has taken everything down leaves nothing.     *)
Crash(r) ==
  /\ Fault("crash", r)
  /\ \/ r \in Present /\ Dies(r)
     \/ phase[r] = "dropping" /\ Exits(r) /\ UNCHANGED child
  /\ UNCHANGED <<failed, shared, survivors>>

-----------------------------------------------------------------------------
(* Taking down: the service gets three seconds, which a request may outlast,  *)
(* then the children go, the last one first, with TERM or, in the end, KILL. *)
ServerFinishes(r) ==
  /\ phase[r] \in Closing /\ server[r] = "serving" /\ r \notin survivors
  /\ server' = [server EXCEPT ![r] = "finished"]
  /\ UNCHANGED <<phase, child, failed, shared, survivors, history>>

DrainedInFull(r) ==   \* variant: the service gets all the time it wants
  /\ phase[r] = "drain" /\ server[r] = "finished"
  /\ To(r, "reap")
  /\ UNCHANGED <<child, server, failed, shared, survivors, history>>
Drained(r) ==
  /\ phase[r] = "drain"
  /\ To(r, "reap")
  /\ UNCHANGED <<child, server, failed, shared, survivors, history>>

Unreaped(r) == {k \in Kinds : child[r][k] # "none"}
Responsive(r) ==   \* variant: a child is listed once it is up
  {k \in Kinds : child[r][k] \in {"serving", "exited"}}
Remaining(r) == Unreaped(r)

(* A D-Bus daemon that is told to end removes its path, whoever's it is now. *)
Terminate(r) ==
  /\ phase[r] = "reap"
  /\ \E k \in Remaining(r) :
       /\ \A j \in Remaining(r) : Rank[j] <= Rank[k]
       /\ child' = [child EXCEPT ![r][k] = "none"]
       /\ bus' \in IF k = "dbus" /\ Alive(r, k) THEN {bus, NoRuntime} ELSE {bus}
  /\ UNCHANGED <<phase, server, failed, human, store, survivors, history>>

(* LocalRuntimeStore::remove: load and compare, then unlink.                *)
Reaped(r) ==
  /\ phase[r] = "reap"
  /\ Remaining(r) = {}
  /\ To(r, "compare")
  /\ UNCHANGED <<child, server, failed, shared, survivors, history>>

(* run returns what run_inner did.  After an error main exits with status 1   *)
(* and drops nothing; without one it returns, and drops the async runtime     *)
(* with the service's tasks.                                                 *)
Returns(r) == /\ UNCHANGED failed
              /\ IF failed[r] THEN Exits(r) ELSE To(r, "dropping") /\ UNCHANGED server

(* An error of store.remove: run fails with it.                             *)
RemoveFails(r) == failed' = [failed EXCEPT ![r] = TRUE] /\ Exits(r)

CompareOwn(r) ==
  /\ phase[r] = "compare"
  /\ \/ store = r /\ To(r, "unlink") /\ UNCHANGED <<server, failed, history>>
     \/ store # r /\ Returns(r) /\ UNCHANGED history
     \/ store # NoRuntime /\ Fault("remove", r) /\ RemoveFails(r)
  /\ UNCHANGED <<child, shared, survivors>>

(* By now it may be another's descriptor, or one that another took away.     *)
UnlinkOwn(r) ==
  /\ phase[r] = "unlink"
  /\ \/ store # NoRuntime /\ store' = NoRuntime /\ Returns(r) /\ UNCHANGED history
     \/ /\ (store = NoRuntime /\ UNCHANGED history) \/ Fault("remove", r)
        /\ RemoveFails(r)
        /\ UNCHANGED store
  /\ UNCHANGED <<child, bus, human, survivors>>

(* The drop of the async runtime waits for the workers, and one may wait for a *)
(* managed process: in kill_process, or in the drop of the ProcessStore.      *)
Dropped(r) ==
  /\ phase[r] = "dropping"
  /\ r \notin survivors
  /\ Exits(r)
  /\ UNCHANGED <<child, failed, shared, survivors, history>>

(* The kill of a managed process fails, and the service waits for the process  *)
(* to exit by itself.                                                        *)
KillFails(r) ==
  /\ Fault("kill", r)
  /\ phase[r] \in Up \cup {"dropping"} /\ server[r] = "serving"
  /\ survivors' = survivors \cup {r}
  /\ UNCHANGED <<phase, child, server, failed, shared>>

ProcessExits(r) ==
  /\ r \in survivors
  /\ survivors' = survivors \ {r}
  /\ UNCHANGED <<phase, child, server, failed, shared, history>>

-----------------------------------------------------------------------------
(* A child exits by itself, under a supervisor or after it was killed.      *)
ChildExits(r, k) ==
  /\ Fault("child", r)
  /\ Alive(r, k)
  /\ child' = [child EXCEPT ![r][k] = "exited"]
  /\ bus' \in IF k = "dbus" THEN {bus, NoRuntime} ELSE {bus}
  /\ UNCHANGED <<phase, server, failed, human, store, survivors>>

-----------------------------------------------------------------------------
Finished == Present = {} /\ UNCHANGED vars

Step(r) ==
  \/ Proceed(r) \/ Notice(r) \/ Deadline(r) \/ Publish(r) \/ InstallHandlers(r)
  \/ NoticeServer(r) \/ Drained(r) \/ Terminate(r) \/ Reaped(r)
  \/ CompareOwn(r) \/ UnlinkOwn(r) \/ Dropped(r)

Next ==
  \/ \E r \in Runtimes : \/ Start(r) \/ Step(r) \/ Serve(r)
                         \/ ServerFails(r) \/ ServerFinishes(r)
                         \/ KillFails(r) \/ ProcessExits(r)
                         \/ Signal(r) \/ Crash(r)
                         \/ \E k \in Kinds : ChildUp(r, k) \/ ChildExits(r, k)
  \/ Finished

Spec == Init /\ [][Next]_vars

(* The supervisor is scheduled and its timeouts pass; a child that was started *)
(* claims its resource or exits.  That the service finishes is not assumed.    *)
Fairness == \A r \in Runtimes : /\ WF_vars(Step(r))
                                /\ \A k \in Kinds : WF_vars(ChildUp(r, k))
FairSpec == Spec /\ Fairness

-----------------------------------------------------------------------------
Over(r) == phase[r] \in {"ended", "killed"}

(* A runtime that ends, however it failed and whoever else lives, has reaped   *)
(* every child it started and is no longer advertised, unless it ends with    *)
(* the error that its descriptor could not be removed.                       *)
EndedLeavesNothing ==
  \A r \in Runtimes : phase[r] = "ended" =>
    /\ Left(r) = {}
    /\ store = r => failed[r] /\ r \in spoiled

(* Runtimes that follow one another start and run without an error, whatever  *)
(* faults the earlier ones met and whatever they left on disk, as long as no   *)
(* supervisor was killed and this one meets no fault itself.                 *)
UndisturbedStarts ==
  \A r \in Runtimes \ spoiled : failed[r] => crowded

(* A runtime that is up alone is the one that is advertised, its service hears  *)
(* of human input, and its children own the bus and the display.              *)
RunningIsPublished ==
  \A r \in Runtimes \ spoiled : phase[r] = "running" /\ ~crowded =>
    /\ store = r
    /\ bus = r
    /\ server[r] = "serving" => human = r
    /\ \A k \in Kinds : child[r][k] = "serving"

(* No runtime stays as it is on the way: it ends up running, with a service    *)
(* and four children of its own, or it ends, whatever its service, its children *)
(* and other runtimes do.  One that came up on another's children gives way,   *)
(* and only a managed process that outlived its kill keeps one that has taken   *)
(* everything down from ending.                                              *)
EveryRuntimeSettles ==
  \A r \in Runtimes :
    phase[r] # "off" ~>
      \/ Over(r)
      \/ phase[r] = "running" /\ server[r] # "finished"
           /\ \A k \in Kinds : child[r][k] = "serving"
      \/ phase[r] = "dropping" /\ r \in survivors

(* Architecture.md: "The supervisor stays in the foreground, owns and reaps    *)
(* its children, and shuts them down on TERM or INT."                        *)
ShutsDownOnSignal == \A r \in signaled : Over(r) => Left(r) = {}

=============================================================================
