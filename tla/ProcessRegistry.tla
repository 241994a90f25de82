--------------------------- MODULE ProcessRegistry ---------------------------
(***************************************************************************)
(* The managed processes of a session: the store of at most MAX_PROCESSES  *)
(* entries, the requests that start, inspect and kill processes, and the   *)
(* shutdown that kills what is left.                                       *)
(*                                                                         *)
(* Every request takes the lock of the store and then runs to its end      *)
(* without an await, so it is one step; but kill, and the drop of the      *)
(* store, wait for the child in the middle, with the lock held (killer).   *)
(* Beside them run the processes themselves, the operating system that     *)
(* hands out pids, and the threads that drain the output.                  *)
(***************************************************************************)
EXTENDS Naturals, FiniteSets

CONSTANTS Processes,      \* the processes that requests may start
          NoOne,          \* no process
          Pids,           \* process ids of the operating system
          MaxProcesses,   \* MAX_PROCESSES
          MaxOutput,      \* MAX_PROCESS_OUTPUT_BYTES, in units of output
          Writers,        \* bound: the processes that write
          MaxWritten,     \* bound: units of output a process writes
          Faults          \* what may fail: "spawn", "kill"

ASSUME ProcessesAssumption == NoOne \notin Processes \cup Pids
ASSUME BoundsAssumption ==
  MaxProcesses \in Nat \ {0} /\ MaxOutput \in Nat /\ MaxWritten \in Nat

VARIABLES
  (* the operating system *)
  leader,       \* state of the process itself
  ending,       \* how it ended
  helpers,      \* processes whose group has a living descendant
  pid,          \* their pids
  (* the service *)
  entries,      \* the ProcessStore
  finished,     \* entries with finished set
  exitCode,     \* exit_code of the entries
  killer,       \* the process a kill, or the drop of the store, waits for
  service,      \* whether the service is up
  (* output *)
  pending,      \* units in the pipes
  kept,         \* units in BoundedOutput.bytes
  truncated,    \* processes with truncated set
  (* history *)
  written,      \* units written so far
  told          \* what the last status of each process said

system  == <<leader, ending, helpers, pid>>
store   == <<entries, finished, exitCode>>
output  == <<pending, kept, truncated, written>>
vars    == <<system, store, killer, service, output, told>>

Endings == {"none", "own", "killed"}

TypeOK ==
  /\ leader \in [Processes -> {"unborn", "running", "zombie", "reaped"}]
  /\ ending \in [Processes -> Endings]
  /\ helpers \subseteq Processes
  /\ pid \in [Processes -> Pids \cup {NoOne}]
  /\ entries \subseteq Processes
  /\ finished \subseteq Processes
  /\ exitCode \in [Processes -> Endings]
  /\ killer \in Processes \cup {NoOne}
  /\ service \in {"open", "closing", "closed"}
  /\ pending \in [Processes -> 0..MaxWritten]
  /\ kept \in [Processes -> 0..MaxOutput]
  /\ truncated \subseteq Processes
  /\ written \in [Processes -> 0..MaxWritten]
  /\ told \in [Processes -> {"nothing", "running", "own", "killed"}]

Init ==
  /\ leader = [p \in Processes |-> "unborn"]
  /\ ending = [p \in Processes |-> "none"]
  /\ helpers = {}
  /\ pid = [p \in Processes |-> NoOne]
  /\ entries = {}
  /\ finished = {}
  /\ exitCode = [p \in Processes |-> "none"]
  /\ killer = NoOne
  /\ service = "open"
  /\ pending = [p \in Processes |-> 0]
  /\ kept = [p \in Processes |-> 0]
  /\ truncated = {}
  /\ written = [p \in Processes |-> 0]
  /\ told = [p \in Processes |-> "nothing"]

-----------------------------------------------------------------------------
(* A pid names a process until it is reaped, and its group for as long as    *)
(* anyone lives in it.                                                       *)
Lives(p) == leader[p] \in {"running", "zombie"} \/ p \in helpers
Group(p) == {q \in Processes : Lives(q) /\ pid[q] = pid[p]}
Ended(p) == leader[p] \in {"zombie", "reaped"}

(* The lock of the store is free and the router still answers.              *)
Free == killer = NoOne /\ service = "open"

AnyEntry == entries          \* variant: whether it runs is not asked
Removable == {p \in entries : Ended(p)}

RoomTooLate ==               \* variant: one entry too many
  IF Cardinality(entries) <= MaxProcesses THEN {{}}
  ELSE {{p} : p \in Removable}
Room == IF Cardinality(entries) < MaxProcesses THEN {{}}
        ELSE {{p} : p \in Removable}

Evicted(out) ==
  [q \in Processes |-> IF q \in out /\ Ended(q) THEN "reaped" ELSE leader[q]]

(* spawn_process.  At the limit it reaps and drops one entry whose process   *)
(* has ended, whichever it finds first, or refuses and changes nothing.      *)
Start(p) ==
  /\ Free /\ leader[p] = "unborn"
  /\ \E out \in Room :
       /\ entries' = (entries \ out) \cup {p}
       /\ finished' = finished \ out
       /\ leader' = [Evicted(out) EXCEPT ![p] = "running"]
       /\ \E n \in Pids :
            /\ \A q \in Processes \ out : Lives(q) => pid[q] # n
            /\ \A q \in out \cap helpers : pid[q] # n
            /\ pid' = [pid EXCEPT ![p] = n]
  /\ told' = [told EXCEPT ![p] = "running"]
  /\ UNCHANGED <<ending, helpers, exitCode, killer, service, output>>

(* The entry that made room is gone even when the program cannot be started. *)
StartFails ==
  /\ "spawn" \in Faults /\ Free
  /\ \E out \in Room :
       /\ entries' = entries \ out
       /\ finished' = finished \ out
       /\ leader' = Evicted(out)
  /\ UNCHANGED <<ending, helpers, pid, exitCode, killer, service, output, told>>

(* ManagedProcess.info: try_wait reaps a process that has ended.             *)
FinishCoded(p) ==            \* variant: a process that was killed has no code
  IF Ended(p)
  THEN /\ leader' = [leader EXCEPT ![p] = "reaped"]
       /\ finished' = IF ending[p] = "own" THEN finished \cup {p} ELSE finished
       /\ exitCode' = [exitCode EXCEPT ![p] = ending[p]]
  ELSE UNCHANGED <<leader, finished, exitCode>>
FinishBlamed(p) ==           \* variant: who was waited for was killed
  IF Ended(p)
  THEN /\ leader' = [leader EXCEPT ![p] = "reaped"]
       /\ finished' = finished \cup {p}
       /\ exitCode' = [exitCode EXCEPT ![p] = IF killer = p THEN "killed" ELSE ending[p]]
  ELSE UNCHANGED <<leader, finished, exitCode>>
Finish(p) ==
  IF Ended(p)
  THEN /\ leader' = [leader EXCEPT ![p] = "reaped"]
       /\ finished' = finished \cup {p}
       /\ exitCode' = [exitCode EXCEPT ![p] = ending[p]]
  ELSE UNCHANGED <<leader, finished, exitCode>>

Info(p) == /\ IF p \in finished THEN UNCHANGED <<leader, finished, exitCode>>
                                ELSE Finish(p)
           /\ told' = [told EXCEPT ![p] = IF p \in finished' THEN exitCode'[p]
                                                             ELSE "running"]

(* process_status, and kill_process of a process known to have ended.       *)
Status(p) ==
  /\ Free /\ p \in entries
  /\ Info(p)
  /\ UNCHANGED <<ending, helpers, pid, entries, killer, service, output>>

(* kill_process_group sends a signal to whoever is in the group now, or      *)
(* cannot even run kill, which nobody notices.                               *)
KillGroup(p) ==
  \/ /\ leader' = [q \in Processes |-> IF q \in Group(p) /\ leader[q] = "running"
                                       THEN "zombie" ELSE leader[q]]
     /\ ending' = [q \in Processes |-> IF q \in Group(p) /\ leader[q] = "running"
                                       THEN "killed" ELSE ending[q]]
     /\ helpers' = helpers \ Group(p)
  \/ "kill" \in Faults /\ UNCHANGED <<leader, ending, helpers>>

Signal(p) ==
  /\ p \in entries \ finished
  /\ KillGroup(p)
  /\ killer' = p
  /\ UNCHANGED <<pid, store, service, output, told>>

Kill(p) == Free /\ Signal(p)

(* child.wait() has returned.                                               *)
WaitKilled(p) == ending[p] = "killed"   \* variant: only the signal's work counts
WaitEnded(p) == Ended(p)

Reap(p) ==
  /\ killer = p /\ WaitEnded(p)
  /\ Finish(p)
  /\ killer' = NoOne
  /\ told' = IF service = "open" THEN [told EXCEPT ![p] = exitCode'[p]] ELSE told
  /\ UNCHANGED <<ending, helpers, pid, entries, service, output>>

(* Shutdown waits for the requests, and then the store is dropped: entries   *)
(* that are not finished are killed one by one.                              *)
Shutdown ==
  /\ Free
  /\ service' = "closing"
  /\ UNCHANGED <<system, store, killer, output, told>>

DropSignal(p) == service = "closing" /\ killer = NoOne /\ Signal(p)

Close ==
  /\ service = "closing" /\ killer = NoOne /\ entries \subseteq finished
  /\ service' = "closed"
  /\ entries' = {}
  /\ finished' = {}
  /\ UNCHANGED <<system, exitCode, killer, output, told>>

-----------------------------------------------------------------------------
(* What the processes do.                                                   *)
Exit(p) ==
  /\ leader[p] = "running"
  /\ leader' = [leader EXCEPT ![p] = "zombie"]
  /\ ending' = [ending EXCEPT ![p] = "own"]
  /\ UNCHANGED <<helpers, pid, store, killer, service, output, told>>

Fork(p) ==
  /\ leader[p] = "running" /\ p \notin helpers
  /\ helpers' = helpers \cup {p}
  /\ UNCHANGED <<leader, ending, pid, store, killer, service, output, told>>

HelperExits(p) ==
  /\ p \in helpers
  /\ helpers' = helpers \ {p}
  /\ UNCHANGED <<leader, ending, pid, store, killer, service, output, told>>

Write(p) ==
  /\ p \in Writers
  /\ leader[p] = "running" \/ p \in helpers
  /\ written[p] < MaxWritten
  /\ written' = [written EXCEPT ![p] = @ + 1]
  /\ pending' = [pending EXCEPT ![p] = @ + 1]
  /\ UNCHANGED <<system, store, killer, service, kept, truncated, told>>

(* A drain thread hands on what it read.                                    *)
AppendWhole(p, size) ==      \* variant: what does not fit is dropped as a whole
  /\ kept' = [kept EXCEPT ![p] = IF @ + size <= MaxOutput THEN @ + size ELSE @]
  /\ truncated' = IF kept[p] + size > MaxOutput THEN truncated \cup {p} ELSE truncated
AppendAll(p, size) ==        \* variant: the limit only sets the flag
  /\ kept' = [kept EXCEPT ![p] = @ + size]
  /\ truncated' = IF kept[p] + size > MaxOutput THEN truncated \cup {p} ELSE truncated
AppendBounded(p, size) ==
  LET remaining == MaxOutput - kept[p] IN
  /\ kept' = [kept EXCEPT ![p] = @ + (IF size <= remaining THEN size ELSE remaining)]
  /\ truncated' = IF size > remaining THEN truncated \cup {p} ELSE truncated

Drain(p) ==
  /\ \E size \in 1..pending[p] :
       /\ pending' = [pending EXCEPT ![p] = @ - size]
       /\ AppendBounded(p, size)
  /\ UNCHANGED <<system, store, killer, service, written, told>>

Next ==
  \/ \E p \in Processes :
       \/ Start(p) \/ Status(p) \/ Kill(p) \/ Reap(p) \/ DropSignal(p)
       \/ Exit(p) \/ Fork(p) \/ HelperExits(p) \/ Write(p) \/ Drain(p)
  \/ StartFails \/ Shutdown \/ Close

(* The handler whose wait returns goes on; the drop of the store goes on; a  *)
(* drain thread reads what there is.  Processes need not end.                *)
Fairness == /\ \A p \in Processes : WF_vars(Reap(p)) /\ WF_vars(DropSignal(p))
                                    /\ WF_vars(Drain(p))
            /\ WF_vars(Close)

Spec == Init /\ [][Next]_vars
FairSpec == Spec /\ Fairness

-----------------------------------------------------------------------------
(* A process that runs is never forgotten: its entry is there, not marked as *)
(* finished, so that a kill and the shutdown reach it.  Evictions at the      *)
(* limit take only what has ended, and nothing runs once the service closed. *)
RunningIsManaged ==
  \A p \in Processes : leader[p] = "running" => p \in entries \ finished

(* The registry never exceeds its limit, at which each new process needs one *)
(* that has ended.                                                           *)
RegistryBounded == Cardinality(entries) <= MaxProcesses

(* A kill signals the process it names and no other, though pids are reused. *)
KillsOnlyItsOwn ==
  [][\A q \in Processes : ending[q] = "none" /\ ending'[q] = "killed" => killer' = q]_vars

(* What a client was told of an end is how the process ended, and stays so.  *)
EndIsFinal ==
  /\ \A p \in Processes : told[p] \in {"own", "killed"} => told[p] = ending[p]
  /\ \A p \in finished : exitCode[p] = ending[p]

(* The output kept is all that was read, up to the limit, and the flag says   *)
(* whether anything was lost.                                                *)
TruncationExact ==
  \A p \in Processes :
    LET read == written[p] - pending[p] IN
    /\ kept[p] = IF read <= MaxOutput THEN read ELSE MaxOutput
    /\ p \in truncated <=> read > MaxOutput

(* A kill, or a shutdown, whose process has ended does not wait for ever,     *)
(* be it that the process ended by itself just before the signal.            *)
KillReturns == \A p \in Processes : killer = p /\ Ended(p) ~> killer # p

=============================================================================
