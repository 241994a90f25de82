----------------------- MODULE SessionLifecycleProofs -----------------------
(***************************************************************************)
(* Proofs about SessionLifecycle, for every number of processes, every mix   *)
(* of commands and any faults: its types, and what the session commands      *)
(* guarantee as long as one of them runs at a time, wherever they are killed *)
(* or fail.                                                                  *)
(***************************************************************************)
EXTENDS SessionLifecycle, TLAPS

Replies == {"none", "ready", "stopped", "deleted", "ran", "failed", "up", "down", "empty"}

(* A process at work has loaded the descriptor of its session, and the steps  *)
(* of a command are that command's.                                          *)
DescInv == \A p \in Procs : pc[p] \in Steps \ {"listed"} => desc[p] \in Descriptor

TypeInv == TypeOK /\ DescInv

LEMMA TypeInit == Init => TypeInv
  <1> SUFFICES ASSUME Init PROVE TypeInv
    OBVIOUS
  <1>1. trouble \in 0..MaxFaults
    BY FaultsAssumption DEF Init
  <1>2. TypeOK
    BY <1>1 DEF Init, TypeOK, Ends
  <1>3. DescInv
    BY DEF Init, DescInv, Steps, Launching, Undoing, Effective
  <1> QED
    BY <1>2, <1>3 DEF TypeInv

-----------------------------------------------------------------------------
(* A process that goes on, ends or breaks moves itself alone.               *)
Moves(p, steps) ==
  /\ pc' \in [Procs -> Steps \cup Ends]
  /\ pc'[p] \in steps \cup {"dead"}
  /\ \A q \in Procs \ {p} : pc'[q] = pc[q]
  /\ reply' \in [Procs -> Replies]

LEMMA GoMoves ==
  ASSUME TypeOK, NEW p \in Procs, NEW step \in Steps, Go(p, step)
  PROVE  Moves(p, {step})
  BY DEF TypeOK, Go, Moves, Replies, Ends

LEMMA EndMoves ==
  ASSUME TypeOK, NEW p \in Procs, NEW answer \in Replies, End(p, answer)
  PROVE  Moves(p, {"done"})
  BY DEF TypeOK, End, Moves, Replies, Ends

LEMMA BreaksMoves ==
  ASSUME TypeOK, NEW p \in Procs, Breaks(p)
  PROVE  /\ Moves(p, {"undo", "done"})
         /\ pc'[p] = "undo" => pc[p] \in Launching /\ doing[p] # "open"
  <1>1. CASE pc[p] \in Launching /\ doing[p] # "open"
    <2>1. Moves(p, {"undo"})
      BY <1>1, GoMoves DEF Breaks, Steps, Undoing
    <2> QED
      BY <1>1, <2>1 DEF Moves
  <1>2. CASE ~(pc[p] \in Launching /\ doing[p] # "open")
    <2>1. Moves(p, {"done"})
      BY <1>2, EndMoves DEF Breaks, Replies
    <2> QED
      BY <1>2, <2>1 DEF Moves
  <1> QED
    BY <1>1, <1>2

(* Where each step of a process leads, and that it touches no other process.  *)
LEMMA StepMoves ==
  ASSUME TypeOK, NEW p \in Procs, Step(p)
  PROVE  /\ pc[p] \in Steps \ {"agent"}
         /\ Moves(p, (Steps \ {"listed"}) \cup {"done"})
         /\ UNCHANGED <<detached, agents, trouble, mixed, undisturbed>> \/ pc[p] = "attach"
  <1> USE DEF Steps, Launching, Undoing, Effective
  <1>1. CASE LoadListed(p)
    BY <1>1, GoMoves, EndMoves DEF LoadListed, Moves, Replies, engine, history
  <1>2. CASE \/ SaveNew(p) \/ SavePending(p) \/ Publish(p)
    BY <1>2, GoMoves DEF SaveNew, SavePending, Publish, Save, Moves, engine, history
  <1>3. CASE InspectReuse(p)
    BY <1>3, GoMoves DEF InspectReuse, Moves, engine, history
  <1>4. CASE DropClient(p) \/ EnsureNetwork(p)
    BY <1>4, GoMoves DEF DropClient, EnsureNetwork, Moves, engine, history
  <1>5. CASE StartContainer(p) \/ CreateContainer(p) \/ AwaitEndpoint(p) \/ CreateNetwork(p)
    BY <1>5, GoMoves, BreaksMoves
    DEF StartContainer, CreateContainer, AwaitEndpoint, CreateNetwork, Moves, engine, history
  <1>6. CASE ServiceReady(p)
    BY <1>6, EndMoves DEF ServiceReady, Moves, Replies, engine, history
  <1>7. CASE ServiceGone(p) \/ ServiceDeadline(p)
    BY <1>7, BreaksMoves DEF ServiceGone, ServiceDeadline, GivesUp, Moves, engine, history
  <1>8. CASE Undo(p) \/ UndoNetwork(p) \/ UndoFile(p)
    BY <1>8, GoMoves, EndMoves DEF Undo, UndoNetwork, UndoFile, Moves, Replies, engine, history
  <1>9. CASE Stop(p) \/ UnlinkFile(p)
    BY <1>9, EndMoves DEF Stop, UnlinkFile, Moves, Replies, engine, history
  <1>10. CASE Discard(p) \/ ForgetClient(p) \/ HandDescriptor(p)
    BY <1>10, GoMoves DEF Discard, ForgetClient, HandDescriptor, Moves, engine, history
  <1>11. CASE DeleteNetwork(p) \/ CheckRunning(p) \/ CopyClient(p)
    BY <1>11, GoMoves, EndMoves
    DEF DeleteNetwork, CheckRunning, CopyClient, Moves, Replies, engine, history
  <1>12. CASE RunAgent(p)
    BY <1>12, GoMoves, EndMoves DEF RunAgent, Moves, Replies
  <1>13. CASE Inspect(p)
    BY <1>13, GoMoves, EndMoves DEF Inspect, Moves, Replies, engine, history
  <1>14. CASE Probe(p)
    <2>1. \E answer \in Replies : End(p, answer)
      BY <1>14 DEF Probe, Replies
    <2> QED
      BY <1>14, <2>1, EndMoves DEF Probe, Moves, engine, history
  <1> QED
    BY <1>1, <1>2, <1>3, <1>4, <1>5, <1>6, <1>7, <1>8, <1>9, <1>10, <1>11, <1>12,
       <1>13, <1>14 DEF Step

-----------------------------------------------------------------------------
(* What a process knows of its session while it works on it.                *)
LEMMA SessionType ==
  ASSUME TypeInv, NEW p \in Procs, pc[p] \in Steps \ {"listed"}
  PROVE  desc[p] \in Descriptor /\ Session(p) \in Procs
  BY DEF TypeInv, DescInv, Session, Descriptor

(* The containers there may be, with one of them changed.                   *)
LEMMA ContainerType ==
  ASSUME TypeInv, NEW p \in Procs, pc[p] \in Steps \ {"listed"},
         NEW c \in Container \cup {None},
         containers' = containers \/ containers' = [containers EXCEPT ![Session(p)] = c]
  PROVE  containers' \in [Procs -> Container \cup {None}]
  BY SessionType DEF TypeInv, TypeOK

(* A container that is stopped, started, made ready or made is one.         *)
LEMMA ChangedContainer ==
  ASSUME TypeInv, NEW s \in Procs, Exists(s), NEW p \in Procs, NEW up \in BOOLEAN
  PROVE  /\ Stopped(s) \in Container
         /\ Started(s, p) \in Container
         /\ [containers[s] EXCEPT !.up = TRUE] \in Container
  <1>1. containers[s] \in Container
    BY DEF TypeInv, TypeOK, Exists
  <1> QED
    BY <1>1 DEF Container, Started, Stopped

LEMMA CreatedType ==
  ASSUME TypeInv, NEW p \in Procs, pc[p] \in Steps \ {"listed"}
  PROVE  Created(p) \in Container /\ [Created(p) EXCEPT !.running = FALSE] \in Container
  BY SessionType DEF Created, Container, Descriptor

(* Rotating gives the descriptor of the next generation.                    *)
LEMMA RotatedType ==
  ASSUME NEW p \in Procs, NEW d \in Descriptor
  PROVE  /\ Rotated(p, d) \in Descriptor
         /\ Rotated(p, d).session = d.session
         /\ Rotated(p, d).generation = d.generation + 1
         /\ Rotated(p, d).token = p
  <1>1. /\ Rotated(p, d).session = d.session
        /\ Rotated(p, d).generation = d.generation + 1
        /\ Rotated(p, d).token = p
    BY DEF Rotated, Descriptor
  <1>2. d.generation + 1 \in Nat
    BY DEF Descriptor
  <1>3. Rotated(p, d) \in Descriptor
    BY <1>2 DEF Rotated, Descriptor
  <1> QED
    BY <1>1, <1>3

(* What a process has in hand stays a descriptor, whichever step it takes.   *)
LEMMA StepDesc ==
  ASSUME TypeInv, NEW p \in Procs, Step(p)
  PROVE  /\ desc' \in [Procs -> Descriptor \cup {None}]
         /\ \A q \in Procs \ {p} : desc'[q] = desc[q]
         /\ pc'[p] \in Steps => desc'[p] \in Descriptor
         /\ doing' \in [Procs -> Commands \cup {"none", "new", "recreate"}]
  <1>0. /\ desc \in [Procs -> Descriptor \cup {None}]
        /\ doing \in [Procs -> Commands \cup {"none", "new", "recreate"}]
    BY DEF TypeInv, TypeOK
  <1>1. CASE LoadListed(p)
    <2>1. desc' = [desc EXCEPT ![p] = file] /\ UNCHANGED doing
      BY <1>1 DEF LoadListed
    <2>2. file = None => pc'[p] \in {"done", "dead"}
      BY <1>1, EndMoves DEF LoadListed, Moves, Replies, TypeInv
    <2>3. file # None => file \in Descriptor
      BY DEF TypeInv, TypeOK
    <2> QED
      BY <1>0, <2>1, <2>2, <2>3 DEF Steps, Launching, Undoing, Effective, TypeInv, TypeOK
  <1>2. CASE InspectReuse(p) \/ Discard(p)
    <2>1. desc[p] \in Descriptor
      BY <1>2, SessionType DEF InspectReuse, Discard, Steps, Effective
    <2>2. \/ desc' = desc
          \/ desc' = [desc EXCEPT ![p] = Rotated(p, desc[p])]
      BY <1>2 DEF InspectReuse, Discard
    <2>3. doing' = doing \/ doing' = [doing EXCEPT ![p] = "recreate"]
      BY <1>2 DEF InspectReuse, Discard
    <2> QED
      BY <1>0, <2>1, <2>2, <2>3, RotatedType
  <1>3. CASE AwaitEndpoint(p)
    <2>1. desc[p] \in Descriptor /\ Session(p) \in Procs
      BY <1>3, SessionType DEF AwaitEndpoint, Steps, Launching
    <2>2. Running(Session(p)) => containers[Session(p)].endpoint \in Procs
      BY <2>1 DEF Running, Exists, TypeInv, TypeOK, Container
    <2>3. desc'[p] \in Descriptor /\ UNCHANGED doing
      BY <1>0, <1>3, <2>1, <2>2 DEF AwaitEndpoint, Descriptor
    <2>4. \/ desc' = desc
          \/ desc' = [desc EXCEPT ![p].endpoint = containers[Session(p)].endpoint]
      BY <1>3 DEF AwaitEndpoint
    <2> QED
      BY <1>0, <2>3, <2>4
  <1>4. CASE UNCHANGED <<desc, doing>>
    <2>1. pc[p] \in Steps
      BY StepMoves DEF TypeInv
    <2>2. pc[p] = "listed" => LoadListed(p)
      BY DEF Step, SaveNew, SavePending, Publish, InspectReuse, DropClient, StartContainer,
         EnsureNetwork, CreateNetwork, CreateContainer, AwaitEndpoint, ServiceReady,
         ServiceGone, ServiceDeadline, GivesUp, Undo, UndoNetwork, UndoFile, Stop, Discard,
         DeleteNetwork, ForgetClient, UnlinkFile, CheckRunning, HandDescriptor,
         CopyClient, RunAgent, Inspect, Probe
    <2> QED
      BY <1>0, <1>1, <1>4, <2>1, <2>2, SessionType
  <1> QED
    BY <1>1, <1>2, <1>3, <1>4
    DEF Step, SaveNew, SavePending, Publish, Save, DropClient, StartContainer,
        EnsureNetwork, CreateNetwork, CreateContainer, ServiceReady, ServiceGone,
        ServiceDeadline, Undo, UndoNetwork, UndoFile, Stop, DeleteNetwork, ForgetClient,
        UnlinkFile, CheckRunning, HandDescriptor, CopyClient, RunAgent, Inspect, Probe

(* What a step leaves on disk and in the engine.                            *)
LEMMA StepEffects ==
  ASSUME TypeInv, NEW p \in Procs, Step(p)
  PROVE  /\ file' \in Descriptor \cup {None} /\ client' \in Descriptor \cup {None}
         /\ containers' \in [Procs -> Container \cup {None}]
         /\ networks' \subseteq Procs /\ agents' \subseteq Procs
         /\ neglected' \in BOOLEAN
         /\ UNCHANGED <<detached, trouble, mixed, undisturbed>>
  <1> USE DEF disk, engine, history
  <1>0. /\ file \in Descriptor \cup {None} /\ client \in Descriptor \cup {None}
        /\ containers \in [Procs -> Container \cup {None}]
        /\ networks \subseteq Procs /\ agents \subseteq Procs /\ neglected \in BOOLEAN
        /\ desc \in [Procs -> Descriptor \cup {None}]
    BY DEF TypeInv, TypeOK
  <1>1. CASE \/ LoadListed(p) \/ InspectReuse(p) \/ EnsureNetwork(p) \/ AwaitEndpoint(p)
             \/ ServiceReady(p) \/ ServiceGone(p) \/ ServiceDeadline(p) \/ CheckRunning(p)
             \/ CopyClient(p) \/ Inspect(p) \/ Probe(p)
    BY <1>0, <1>1 DEF LoadListed, InspectReuse, EnsureNetwork, AwaitEndpoint, ServiceReady,
       ServiceGone, ServiceDeadline, CheckRunning, CopyClient, Inspect, Probe
  <1>2. CASE \/ SaveNew(p) \/ SavePending(p) \/ Publish(p) \/ DropClient(p) \/ UndoFile(p)
             \/ ForgetClient(p) \/ UnlinkFile(p) \/ HandDescriptor(p)
    BY <1>0, <1>2 DEF SaveNew, SavePending, Publish, Save, DropClient, UndoFile,
       ForgetClient, UnlinkFile, HandDescriptor
  <1>3. CASE CreateNetwork(p) \/ DeleteNetwork(p) \/ UndoNetwork(p)
    <2>1. Session(p) \in Procs
      BY <1>3, SessionType DEF CreateNetwork, DeleteNetwork, UndoNetwork, Steps, Launching,
         Undoing, Effective
    <2> QED
      BY <1>0, <1>3, <2>1 DEF CreateNetwork, DeleteNetwork, UndoNetwork, RemoveNetwork
  <1>4. CASE RunAgent(p)
    BY <1>0, <1>4 DEF RunAgent
  <1>5. CASE StartContainer(p)
    <2>1. pc[p] \in Steps \ {"listed"}
      BY <1>5 DEF StartContainer, Steps, Effective
    <2>2. Session(p) \in Procs
      BY <2>1, SessionType
    <2> DEFINE s == Session(p)
               c == Started(s, p)
    <2>3. Exists(s) => c \in Container
      BY <2>2, ChangedContainer
    <2>4. \/ containers' = containers
          \/ Exists(s) /\ containers' = [containers EXCEPT ![s] = c]
      BY <1>5 DEF StartContainer
    <2> HIDE DEF c
    <2>5. containers' \in [Procs -> Container \cup {None}]
      BY <1>0, <2>2, <2>3, <2>4
    <2> QED
      BY <1>0, <1>5, <2>5 DEF StartContainer
  <1>6. CASE Stop(p)
    <2>1. pc[p] \in Steps \ {"listed"}
      BY <1>6 DEF Stop, Steps, Effective
    <2>2. Session(p) \in Procs
      BY <2>1, SessionType
    <2> DEFINE s == Session(p)
               c == Stopped(s)
    <2>3. Exists(s) => c \in Container
      BY <2>2, ChangedContainer
    <2>4. \/ containers' = containers
          \/ Exists(s) /\ containers' = [containers EXCEPT ![s] = c]
      BY <1>6 DEF Stop
    <2> HIDE DEF c
    <2>5. containers' \in [Procs -> Container \cup {None}]
      BY <1>0, <2>2, <2>3, <2>4
    <2> QED
      BY <1>0, <1>6, <2>5 DEF Stop
  <1>7. CASE CreateContainer(p)
    <2>1. pc[p] \in Steps \ {"listed"}
      BY <1>7 DEF CreateContainer, Steps, Launching
    <2>2. containers' \in [Procs -> Container \cup {None}]
      BY <1>7, <2>1, CreatedType, ContainerType DEF CreateContainer
    <2> QED
      BY <1>0, <1>7, <2>2 DEF CreateContainer
  <1>8. CASE Undo(p) \/ Discard(p)
    <2>1. pc[p] \in Steps \ {"listed"}
      BY <1>8 DEF Undo, Discard, Steps, Undoing, Effective
    <2>2. containers' = [containers EXCEPT ![Session(p)] = None]
      BY <1>8 DEF Undo, Discard, RemoveContainer
    <2>3. containers' \in [Procs -> Container \cup {None}]
      BY <2>1, <2>2, ContainerType
    <2> QED
      BY <1>0, <1>8, <2>3 DEF Undo, Discard
  <1> QED
    BY <1>1, <1>2, <1>3, <1>4, <1>5, <1>6, <1>7, <1>8 DEF Step

(* A fault is counted up to its bound.                                      *)
LEMMA FaultType ==
  ASSUME TypeOK, NEW kind, Fault(kind)
  PROVE  trouble' \in 0..MaxFaults /\ undisturbed' \subseteq Procs /\ UNCHANGED mixed
  BY FaultsAssumption DEF TypeOK, Fault

(* Every step keeps the types.                                              *)
LEMMA TypeNext == TypeInv /\ [Next]_vars => TypeInv'
  <1> SUFFICES ASSUME TypeInv, [Next]_vars PROVE TypeInv'
    OBVIOUS
  <1>0. TypeOK /\ DescInv
    BY DEF TypeInv
  <1>1. ASSUME NEW p \in Procs, NEW steps \in SUBSET (Steps \cup Ends), Moves(p, steps),
               UNCHANGED desc, pc[p] \in Steps \ {"listed"}
        PROVE  DescInv'
    BY <1>0, <1>1 DEF Moves, DescInv
  <1>2. ASSUME NEW p \in Procs, NEW command, Starts(p, command)
        PROVE  /\ mixed' \in BOOLEAN /\ undisturbed' \subseteq Procs
               /\ UNCHANGED <<detached, disk, engine, trouble, neglected>>
               /\ command \in Commands
    BY <1>0, <1>2 DEF Starts, TypeOK
  <1>3. ASSUME NEW p \in Procs, NEW command \in Commands, NEW does \in Commands \cup {"new"},
               Starts(p, command), doing' = [doing EXCEPT ![p] = does],
               NEW d \in Descriptor \cup {None}, desc' = [desc EXCEPT ![p] = d],
               Moves(p, Steps \cup Ends),
               pc'[p] \in {"done", "dead", "listed"} \/ d \in Descriptor
        PROVE  TypeInv'
    <2>1. /\ doing' \in [Procs -> Commands \cup {"none", "new", "recreate"}]
          /\ desc' \in [Procs -> Descriptor \cup {None}]
          /\ \A q \in Procs \ {p} : desc'[q] = desc[q]
          /\ desc'[p] = d
      BY <1>0, <1>3 DEF TypeOK
    <2>2. DescInv'
      BY <1>0, <1>3, <2>1 DEF DescInv, Moves, Steps, Launching, Undoing, Effective
    <2>3. TypeOK'
      BY <1>0, <1>2, <1>3, <2>1 DEF TypeOK, Moves, Replies, disk, engine
    <2> QED
      BY <2>2, <2>3 DEF TypeInv
  <1>4. ASSUME NEW p \in Procs, StartOpen(p) PROVE TypeInv'
    <2>1. Starts(p, "open") /\ "open" \in Commands
      BY <1>4 DEF StartOpen, Starts
    <2>2. CASE file = None
      <3>1. Fresh(p) \in Descriptor
        BY DEF Fresh, Descriptor
      <3>2. Moves(p, Steps \cup Ends)
        BY <1>0, <1>4, <2>2, GoMoves DEF StartOpen, Moves, Steps
      <3> QED
        BY <1>3, <1>4, <2>1, <2>2, <3>1, <3>2 DEF StartOpen
    <2>3. CASE file # None
      <3>1. file \in Descriptor
        BY <1>0, <2>3 DEF TypeOK
      <3>2. Moves(p, Steps \cup Ends)
        BY <1>0, <1>4, <2>3, GoMoves, EndMoves DEF StartOpen, Moves, Steps, Ends, Replies
      <3> QED
        BY <1>3, <1>4, <2>1, <2>3, <3>1, <3>2 DEF StartOpen
    <2> QED
      BY <2>2, <2>3
  <1>5. ASSUME NEW p \in Procs, StartOther(p) PROVE TypeInv'
    <2>1. PICK command \in {"stop", "reset", "delete", "run", "status"} :
            /\ Starts(p, command)
            /\ doing' = [doing EXCEPT ![p] = command]
            /\ desc' = [desc EXCEPT ![p] = file]
            /\ IF file = None THEN End(p, "failed") ELSE Go(p, First[command])
      BY <1>5 DEF StartOther, First
    <2>2. command \in Commands
      BY <2>1 DEF Starts
    <2>3. First[command] \in Steps
      BY <2>1 DEF First, Steps, Effective
    <2>4. file \in Descriptor \cup {None}
      BY <1>0 DEF TypeOK
    <2>5. /\ Moves(p, Steps \cup Ends)
          /\ pc'[p] \in {"done", "dead", "listed"} \/ file \in Descriptor
      BY <1>0, <2>1, <2>3, <2>4, GoMoves, EndMoves DEF Moves, Ends, Replies
    <2> QED
      BY <1>3, <2>1, <2>2, <2>4, <2>5
  <1>6. ASSUME NEW p \in Procs, StartSessions(p) PROVE TypeInv'
    <2>1. Starts(p, "sessions") /\ "sessions" \in Commands
      BY <1>6 DEF StartSessions, Starts
    <2>2. Moves(p, Steps \cup Ends) /\ pc'[p] \in {"done", "dead", "listed"}
      BY <1>0, <1>6, GoMoves, EndMoves DEF StartSessions, Moves, Steps, Ends, Replies
    <2>3. desc' = [desc EXCEPT ![p] = desc[p]] /\ desc[p] \in Descriptor \cup {None}
      BY <1>0, <1>6 DEF StartSessions, TypeOK
    <2>4. doing' = [doing EXCEPT ![p] = "sessions"]
      BY <1>6 DEF StartSessions
    <2> QED
      BY <1>3, <2>1, <2>2, <2>3, <2>4
  <1>7. ASSUME NEW p \in Procs, Step(p) PROVE TypeInv'
    <2>1. DescInv'
      BY <1>0, <1>7, StepMoves, StepDesc DEF DescInv, Moves
    <2>2. TypeOK'
      BY <1>0, <1>7, StepMoves, StepDesc, StepEffects DEF TypeOK, Moves, Replies
    <2> QED
      BY <2>1, <2>2 DEF TypeInv
  <1>8. ASSUME NEW p \in Procs, AgentEnds(p) PROVE TypeInv'
    <2>1. /\ pc' \in [Procs -> Steps \cup Ends] /\ reply' \in [Procs -> Replies]
          /\ \A q \in Procs : pc'[q] = pc[q] \/ pc'[q] \in {"done", "dead"}
      <3>1. CASE pc[p] = "agent"
        BY <1>0, <1>8, <3>1, EndMoves DEF AgentEnds, Moves, Replies
      <3>2. CASE pc[p] # "agent"
        BY <1>0, <1>8, <3>2 DEF AgentEnds, TypeOK, Replies
      <3> QED
        BY <3>1, <3>2
    <2>2. DescInv'
      BY <1>0, <1>8, <2>1 DEF DescInv, AgentEnds, Steps, Launching, Undoing, Effective
    <2>3. TypeOK'
      BY <1>0, <1>8, <2>1 DEF AgentEnds, TypeOK, Replies, disk, history
    <2> QED
      BY <2>2, <2>3 DEF TypeInv
  <1>9. ASSUME NEW p \in Procs, CommandFails(p) PROVE TypeInv'
    <2>1. Moves(p, {"undo", "done"}) /\ pc[p] \in Steps /\ UNCHANGED desc
      BY <1>0, <1>9, BreaksMoves DEF CommandFails
    <2>2. pc[p] = "listed" => pc'[p] \in {"done", "dead"}
      BY <1>0, <1>9, BreaksMoves DEF CommandFails, Moves, Launching
    <2>3. DescInv'
      BY <1>0, <2>1, <2>2 DEF DescInv, Moves, Steps, Launching, Undoing, Effective
    <2>4. containers' \in [Procs -> Container \cup {None}]
      <3>1. CASE UNCHANGED containers
        BY <1>0, <3>1 DEF TypeOK
      <3>2. CASE /\ pc[p] = "create"
                 /\ containers' = [containers EXCEPT ![Session(p)] =
                                     [Created(p) EXCEPT !.running = FALSE]]
        <4>1. pc[p] \in Steps \ {"listed"}
          BY <3>2 DEF Steps, Launching
        <4> QED
          BY <3>2, <4>1, CreatedType, ContainerType
      <3> QED
        BY <1>9, <3>1, <3>2 DEF CommandFails
    <2>5. TypeOK'
      BY <1>0, <1>9, <2>1, <2>4, FaultType DEF CommandFails, TypeOK, Moves, Replies, disk
    <2> QED
      BY <2>3, <2>5 DEF TypeInv
  <1>10. ASSUME NEW p \in Procs, UndoFails(p) \/ TooSlow(p) PROVE TypeInv'
    <2>1. /\ Moves(p, {"undo", "undonetwork", "undofile", "done"})
          /\ pc[p] \in Steps \ {"listed"} /\ UNCHANGED desc
      BY <1>0, <1>10, BreaksMoves, GoMoves, EndMoves
      DEF UndoFails, TooSlow, Moves, Replies, Steps, Launching, Undoing
    <2>2. DescInv'
      BY <1>0, <2>1 DEF DescInv, Moves
    <2>3. TypeOK'
      BY <1>0, <1>10, <2>1, FaultType
      DEF UndoFails, TooSlow, TypeOK, Moves, Replies, disk, engine
    <2> QED
      BY <2>2, <2>3 DEF TypeInv
  <1>11. ASSUME NEW p \in Procs, Kill(p) PROVE TypeInv'
    <2>1. /\ pc' = pc \/ pc' = [pc EXCEPT ![p] = "dead"]
          /\ detached' \subseteq Procs
      BY <1>0, <1>11 DEF Kill, TypeOK
    <2>2. /\ pc' \in [Procs -> Steps \cup Ends]
          /\ \A q \in Procs : pc'[q] = pc[q] \/ pc'[q] = "dead"
      BY <1>0, <2>1 DEF TypeOK, Ends
    <2>3. DescInv'
      BY <1>0, <1>11, <2>2 DEF DescInv, Kill, Steps, Launching, Undoing, Effective
    <2>4. TypeOK'
      BY <1>0, <1>11, <2>1, <2>2, FaultType DEF Kill, TypeOK, disk, engine
    <2> QED
      BY <2>3, <2>4 DEF TypeInv
  <1>12. ASSUME NEW s \in Procs, ServiceUp(s) \/ ContainerExits(s) \/ ExternalRemoval(s)
         PROVE  TypeInv'
    <2> DEFINE up == [containers[s] EXCEPT !.up = TRUE]
               off == Stopped(s)
    <2>1. Exists(s)
      BY <1>12 DEF ServiceUp, ContainerExits, ExternalRemoval, Running
    <2>2. up \in Container /\ off \in Container
      BY <2>1, ChangedContainer
    <2>3. \/ containers' = [containers EXCEPT ![s] = up]
          \/ containers' = [containers EXCEPT ![s] = off]
          \/ containers' = [containers EXCEPT ![s] = None]
      BY <1>0, <1>12 DEF ServiceUp, ContainerExits, ExternalRemoval, TypeOK
    <2> HIDE DEF up, off
    <2>4. containers' \in [Procs -> Container \cup {None}]
      BY <1>0, <2>2, <2>3 DEF TypeOK
    <2>5. /\ trouble' \in 0..MaxFaults /\ undisturbed' \subseteq Procs
          /\ UNCHANGED <<cli, detached, disk, networks, agents, mixed, neglected>>
      BY <1>0, <1>12, FaultType DEF ServiceUp, ContainerExits, ExternalRemoval, history, TypeOK
    <2>6. TypeOK'
      BY <1>0, <2>4, <2>5 DEF TypeOK, cli, disk
    <2>7. DescInv'
      BY <1>0, <2>5 DEF DescInv, cli
    <2> QED
      BY <2>6, <2>7 DEF TypeInv
  <1>13. CASE UNCHANGED vars
    BY <1>0, <1>13 DEF TypeInv, TypeOK, DescInv, vars, cli, disk, engine, history
  <1> QED
    BY <1>4, <1>5, <1>6, <1>7, <1>8, <1>9, <1>10, <1>11, <1>12, <1>13 DEF Next, Finished

(* The types, and that a process at work has a descriptor, hold in every      *)
(* reachable state.                                                          *)
THEOREM TypeCorrect == Spec => []TypeInv
  BY TypeInit, TypeNext, PTL DEF Spec

(* Every variable keeps its type.                                           *)
THEOREM LifecycleTyped == Spec => []TypeOK
  <1>1. TypeInv => TypeOK
    BY DEF TypeInv
  <1> QED
    BY TypeCorrect, <1>1, PTL

-----------------------------------------------------------------------------
(***************************************************************************)
(* One command at a time.                                                    *)
(***************************************************************************)

(* Two descriptors of one runtime.                                          *)
Agree(d, e) == d.session = e.session /\ d.token = e.token /\ d.generation = e.generation

(* What a command that is alone knows: the descriptor in its hand is the one  *)
(* on disk, or the next one, which it has not saved yet.                      *)
HandInv(p) ==
  /\ pc[p] = "new" => file = None
  /\ pc[p] \in {"rotate", "pending"} =>
       /\ file # None
       /\ desc[p].session = file.session
       /\ desc[p].generation = file.generation + 1
  /\ pc[p] \notin {"new", "listed", "rotate", "pending"} =>
       file # None /\ Agree(desc[p], file)
  /\ pc[p] \in {"pending", "unlink"} => client = None
  /\ doing[p] = "new" => client = None
  /\ pc[p] \in {"undonetwork", "undofile"} => doing[p] = "new"
  /\ pc[p] \in {"check", "hand"} => doing[p] = "run"

ClientInv == client # None => file # None /\ Agree(client, file)

AloneInv == \A p, q \in Live : p = q

SequenceInv == ~mixed => AloneInv /\ ClientInv /\ \A p \in Live : HandInv(p)

(* A command knows what it has taken away to be gone.                        *)
GoneInv(p) ==
  /\ pc[p] \in {"rotate", "pending", "undonetwork", "undofile", "rmnetwork", "forget",
                "unlink"} => ~Exists(Session(p))
  /\ pc[p] \in {"undofile", "forget", "unlink"} => Session(p) \notin networks

EngineInv == /\ \A s \in networks : Indexed(s)
             /\ \A s \in Procs : Exists(s) => Indexed(s) /\ Credentials(s)

IndexInv == ~mixed /\ ~neglected => EngineInv /\ \A p \in Live : GoneInv(p)

LEMMA SequenceInit == Init => SequenceInv /\ IndexInv
  <1> SUFFICES ASSUME Init PROVE SequenceInv /\ IndexInv
    OBVIOUS
  <1>1. Live = {} /\ client = None
    BY DEF Init, Live, Ends
  <1>2. EngineInv
    BY DEF Init, EngineInv, Exists
  <1> QED
    BY <1>1, <1>2 DEF SequenceInv, IndexInv, AloneInv, ClientInv

-----------------------------------------------------------------------------
(* Steps from which a command goes on with the descriptor that is on disk.   *)
Settled == Steps \ {"new", "listed", "rotate", "pending", "unlink"}

(* A process that is alone and moves stays alone.                           *)
LEMMA StaysAlone ==
  ASSUME AloneInv, NEW p \in Live, NEW steps, Moves(p, steps)
  PROVE  AloneInv' /\ \A q \in Live' : q = p
  BY DEF AloneInv, Live, Moves

LEMMA Carry ==
  ASSUME SequenceInv, ~mixed, NEW p \in Live, NEW steps, Moves(p, steps),
         ClientInv', pc'[p] \in Steps => HandInv(p)'
  PROVE  SequenceInv'
  <1>1. AloneInv' /\ \A q \in Live' : q = p
    BY StaysAlone DEF SequenceInv
  <1>2. p \in Live' => pc'[p] \in Steps
    BY DEF Live, Moves
  <1> QED
    BY <1>1, <1>2 DEF SequenceInv

(* A command that leaves the disk alone and keeps its descriptor, but for     *)
(* the endpoint, goes on as before.                                          *)
LEMMA GoesOn ==
  ASSUME SequenceInv, ~mixed, NEW p \in Live, pc[p] \in Settled,
         Moves(p, Settled \cup {"done"}), UNCHANGED <<doing, file, client>>,
         Agree(desc'[p], desc[p]),
         pc'[p] \in {"undonetwork", "undofile"} => doing[p] = "new",
         pc'[p] \in {"check", "hand"} => doing[p] = "run"
  PROVE  SequenceInv'
  <1>1. HandInv(p) /\ ClientInv
    BY DEF SequenceInv
  <1>2. file # None /\ Agree(desc'[p], file)
    BY <1>1 DEF HandInv, Settled, Agree
  <1>3. ClientInv'
    BY <1>1 DEF ClientInv, Agree
  <1>4. pc'[p] \in Steps => pc'[p] \in Settled
    BY DEF Moves, Steps, Launching, Undoing, Effective
  <1>5. pc'[p] \in Steps => HandInv(p)'
    BY <1>1, <1>2, <1>4 DEF HandInv, Settled, Agree
  <1> QED
    BY <1>3, <1>5, Carry

(* A process at work is alive.                                              *)
LEMMA AtWork ==
  ASSUME NEW p \in Procs, pc[p] \in Steps
  PROVE  p \in Live
  BY DEF Live, Ends, Steps, Launching, Undoing, Effective

-----------------------------------------------------------------------------
(* A step of the command that is alone.                                     *)
LEMMA SequenceStep ==
  ASSUME TypeInv, SequenceInv, ~mixed, NEW p \in Procs, Step(p)
  PROVE  SequenceInv'
  <1> USE DEF disk
  <1>1. TypeOK /\ p \in Live
    BY StepMoves, AtWork DEF TypeInv
  <1>2. HandInv(p) /\ ClientInv
    BY <1>1 DEF SequenceInv
  <1>3. pc[p] # "listed" => desc[p] \in Descriptor
    BY <1>1, StepMoves, SessionType
  <1>4. CASE \/ StartContainer(p) \/ CreateContainer(p) \/ CreateNetwork(p) \/ ServiceGone(p)
             \/ ServiceDeadline(p)
    <2>1. Moves(p, {"endpoint", "create", "undo", "done"}) /\ UNCHANGED <<doing, desc, file, client>>
      BY <1>1, <1>4, GoMoves, BreaksMoves
      DEF StartContainer, CreateContainer, CreateNetwork, ServiceGone, ServiceDeadline, GivesUp,
          Moves, Steps, Launching
    <2>2. pc[p] \in Settled
      BY <1>4 DEF StartContainer, CreateContainer, CreateNetwork, ServiceGone, ServiceDeadline,
                  GivesUp, Settled, Steps, Launching, Effective
    <2>3. Moves(p, Settled \cup {"done"}) /\ pc'[p] \in {"endpoint", "create", "undo", "done", "dead"}
      BY <2>1 DEF Moves, Settled, Steps, Launching, Undoing
    <2> QED
      BY <1>1, <2>1, <2>2, <2>3, GoesOn DEF Agree
  <1>5. CASE \/ EnsureNetwork(p) \/ ServiceReady(p) \/ Undo(p) \/ UndoNetwork(p) \/ Stop(p)
             \/ DeleteNetwork(p)
    <2>1. /\ Moves(p, {"create", "addnetwork", "undonetwork", "undofile", "forget", "done"})
          /\ pc'[p] \in {"undonetwork", "undofile"} => doing[p] = "new"
          /\ UNCHANGED <<doing, desc, file, client>>
      BY <1>1, <1>2, <1>5, GoMoves, EndMoves
      DEF EnsureNetwork, ServiceReady, Undo, UndoNetwork, Stop, DeleteNetwork, HandInv, Moves,
          Steps, Launching, Undoing, Effective, Replies
    <2>2. pc[p] \in Settled
      BY <1>5 DEF EnsureNetwork, ServiceReady, Undo, UndoNetwork, Stop, DeleteNetwork, Settled,
                  Steps, Launching, Undoing, Effective
    <2>3. /\ Moves(p, Settled \cup {"done"})
          /\ pc'[p] \notin {"check", "hand"}
      BY <2>1 DEF Moves, Settled, Steps, Launching, Undoing, Effective
    <2> QED
      BY <1>1, <2>1, <2>2, <2>3, GoesOn DEF Agree
  <1>6. CASE CheckRunning(p) \/ CopyClient(p) \/ RunAgent(p) \/ Inspect(p) \/ Probe(p)
    <2>1. \E answer \in Replies : Probe(p) => End(p, answer)
      BY DEF Probe, Replies
    <2>2. /\ Moves(p, {"hand", "attach", "agent", "probe", "done"})
          /\ pc'[p] = "hand" => doing[p] = "run"
          /\ UNCHANGED <<doing, desc, file, client>>
      BY <1>1, <1>2, <1>6, <2>1, GoMoves, EndMoves
      DEF CheckRunning, CopyClient, RunAgent, Inspect, Probe, HandInv, Moves, Steps, Effective,
          Replies
    <2>3. pc[p] \in Settled
      BY <1>6 DEF CheckRunning, CopyClient, RunAgent, Inspect, Probe, Settled, Steps, Effective
    <2>4. /\ Moves(p, Settled \cup {"done"})
          /\ pc'[p] \notin {"undonetwork", "undofile", "check"}
      BY <2>2 DEF Moves, Settled, Steps, Effective
    <2> QED
      BY <1>1, <2>2, <2>3, <2>4, GoesOn DEF Agree
  <1>7. CASE AwaitEndpoint(p)
    <2>1. Moves(p, {"publish", "undo", "done"}) /\ UNCHANGED <<doing, file, client>>
      BY <1>1, <1>7, GoMoves, BreaksMoves DEF AwaitEndpoint, Moves, Steps, Launching
    <2>2. pc[p] \in Settled
      BY <1>7 DEF AwaitEndpoint, Settled, Steps, Launching
    <2>3. Moves(p, Settled \cup {"done"}) /\ pc'[p] \in {"publish", "undo", "done", "dead"}
      BY <2>1 DEF Moves, Settled, Steps, Launching, Undoing
    <2>4. Agree(desc'[p], desc[p])
      <3>1. desc[p] \in Descriptor /\ desc \in [Procs -> Descriptor \cup {None}]
        BY <1>3, <1>1, <2>2 DEF Settled, TypeOK
      <3>2. \/ desc' = desc
            \/ desc'[p] = [desc[p] EXCEPT !.endpoint = containers[Session(p)].endpoint]
        BY <1>7, <3>1 DEF AwaitEndpoint
      <3> QED
        BY <3>1, <3>2 DEF Agree, Descriptor
    <2> QED
      BY <1>1, <2>1, <2>2, <2>3, <2>4, GoesOn
  <1>8. CASE SaveNew(p) \/ SavePending(p) \/ Publish(p)
    <2>1. /\ Moves(p, {"network", "service"}) /\ UNCHANGED <<doing, desc, client>>
          /\ file' = desc[p] /\ pc[p] \in {"new", "pending", "publish"}
      BY <1>1, <1>8, GoMoves DEF SaveNew, SavePending, Publish, Save, Moves, Steps, Launching
    <2>2. file' # None
      BY <1>3, <2>1, NoneAssumption
    <2>3. pc[p] # "publish" => client = None
      BY <1>2, <2>1 DEF HandInv, ClientInv
    <2>4. ClientInv'
      BY <1>2, <2>1, <2>2, <2>3 DEF ClientInv, HandInv, Agree
    <2>5. pc'[p] \in {"network", "service", "dead"}
      BY <2>1 DEF Moves
    <2>6. pc'[p] \in Steps => HandInv(p)'
      BY <1>2, <2>1, <2>2, <2>5
      DEF HandInv, Agree, Steps, Launching, Undoing, Effective
    <2> QED
      BY <1>1, <2>1, <2>4, <2>6, Carry
  <1>9. CASE LoadListed(p)
    <2>1. /\ Moves(p, {"inspect", "done"}) /\ UNCHANGED <<doing, file, client>>
          /\ pc'[p] = "inspect" => file # None
      BY <1>1, <1>9, GoMoves, EndMoves DEF LoadListed, Moves, Steps, Replies
    <2>2. desc'[p] = file
      BY <1>1, <1>9 DEF LoadListed, TypeOK
    <2>3. pc'[p] \in {"inspect", "done", "dead"}
      BY <2>1 DEF Moves
    <2>4. pc'[p] \in Steps => HandInv(p)'
      BY <1>2, <2>1, <2>2, <2>3 DEF HandInv, Agree, Steps, Launching, Undoing, Effective
    <2>5. ClientInv'
      BY <1>2, <2>1 DEF ClientInv
    <2> QED
      BY <1>1, <2>1, <2>4, <2>5, Carry
  <1>10. CASE InspectReuse(p) \/ Discard(p)
    <2>1. /\ Moves(p, {"endpoint", "start", "rotate", "rmnetwork"}) /\ UNCHANGED <<file, client>>
          /\ pc[p] \in {"reuse", "discard"}
          /\ pc'[p] \notin {"rotate", "dead"} => UNCHANGED desc
      BY <1>1, <1>10, GoMoves DEF InspectReuse, Discard, Moves, Steps, Launching, Effective
    <2>2. doing'[p] = "new" => doing[p] = "new"
      BY <1>1, <1>10 DEF InspectReuse, Discard, TypeOK
    <2>3. desc[p] \in Descriptor /\ desc \in [Procs -> Descriptor \cup {None}]
      BY <1>1, <1>3, <2>1 DEF TypeOK
    <2>4. pc'[p] = "rotate" => desc'[p] = Rotated(p, desc[p])
      BY <1>1, <1>10, <2>3, GoMoves
      DEF InspectReuse, Discard, Moves, Steps, Launching, Effective
    <2>5. file # None /\ Agree(desc[p], file)
      BY <1>2, <2>1 DEF HandInv
    <2>6. pc'[p] = "rotate" => /\ desc'[p].session = file.session
                               /\ desc'[p].generation = file.generation + 1
      BY <2>3, <2>4, <2>5, RotatedType DEF Agree
    <2>7. pc'[p] \in {"endpoint", "start", "rotate", "rmnetwork", "dead"}
      BY <2>1 DEF Moves
    <2>8. pc'[p] \in Steps => HandInv(p)'
      BY <1>2, <2>1, <2>2, <2>5, <2>6, <2>7
      DEF HandInv, Agree, Steps, Launching, Undoing, Effective
    <2>9. ClientInv'
      BY <1>2, <2>1 DEF ClientInv
    <2> QED
      BY <1>1, <2>1, <2>8, <2>9, Carry
  <1>11. CASE DropClient(p) \/ ForgetClient(p)
    <2>1. /\ Moves(p, {"pending", "unlink"}) /\ UNCHANGED <<doing, desc, file>>
          /\ \/ pc[p] = "rotate" /\ pc'[p] \in {"pending", "dead"}
             \/ pc[p] = "forget" /\ pc'[p] \in {"unlink", "dead"}
          /\ client' = None
      BY <1>1, <1>11, GoMoves DEF DropClient, ForgetClient, Moves, Steps
    <2>2. pc'[p] \in Steps => HandInv(p)'
      BY <1>2, <2>1 DEF HandInv, Agree, Steps, Launching, Undoing, Effective
    <2>3. ClientInv'
      BY <2>1 DEF ClientInv
    <2> QED
      BY <1>1, <2>1, <2>2, <2>3, Carry
  <1>12. CASE UndoFile(p) \/ UnlinkFile(p)
    <2>1. Moves(p, {"done"}) /\ pc[p] \in {"undofile", "unlink"} /\ UNCHANGED client
      BY <1>1, <1>12, EndMoves DEF UndoFile, UnlinkFile, Moves, Replies
    <2>2. pc'[p] \notin Steps
      BY <2>1 DEF Moves, Steps, Launching, Undoing, Effective
    <2>3. ClientInv'
      BY <1>2, <2>1 DEF ClientInv, HandInv
    <2> QED
      BY <1>1, <2>1, <2>2, <2>3, Carry
  <1>13. CASE HandDescriptor(p)
    <2>1. /\ Moves(p, {"copy"}) /\ UNCHANGED <<doing, desc, file>>
          /\ pc[p] = "hand" /\ client' = desc[p]
      BY <1>1, <1>13, GoMoves DEF HandDescriptor, Moves, Steps
    <2>2. pc'[p] \in Steps => HandInv(p)'
      BY <1>2, <2>1 DEF HandInv, Agree, Moves, Steps, Launching, Undoing, Effective
    <2>3. ClientInv'
      BY <1>2, <2>1 DEF ClientInv, HandInv
    <2> QED
      BY <1>1, <2>1, <2>2, <2>3, Carry
  <1> QED
    BY <1>4, <1>5, <1>6, <1>7, <1>8, <1>9, <1>10, <1>11, <1>12, <1>13 DEF Step

-----------------------------------------------------------------------------
(* A command that starts while no other is at work.                         *)
LEMMA SequenceStart ==
  ASSUME TypeInv, SequenceInv, ~mixed', NEW p \in Procs,
         StartOpen(p) \/ StartOther(p) \/ StartSessions(p)
  PROVE  SequenceInv' /\ (p \in Live' => pc'[p] \notin {"rotate", "pending", "undonetwork",
                                             "undofile", "rmnetwork", "forget", "unlink"})
                      /\ \A q \in Live' : q = p
  <1>1. PICK command : Starts(p, command)
    BY DEF StartOpen, StartOther, StartSessions
  <1>2. ~mixed /\ Live = {} /\ UNCHANGED <<file, client>>
    BY <1>1 DEF Starts, disk
  <1>3. TypeOK /\ ClientInv
    BY <1>2 DEF TypeInv, SequenceInv
  <1>4. ClientInv'
    BY <1>2, <1>3 DEF ClientInv
  <1>5. /\ Moves(p, Steps \cup {"done"})
        /\ p \in Live' => pc'[p] \notin {"rotate", "pending", "undonetwork", "undofile",
                                         "rmnetwork", "forget", "unlink"}
        /\ p \in Live' => HandInv(p)'
    <2>1. CASE StartOpen(p) /\ file = None
      <3>1. Moves(p, {"new"}) /\ doing'[p] = "new" /\ client = None
        BY <1>3, <2>1, GoMoves DEF StartOpen, Steps, ClientInv, TypeOK
      <3> QED
        BY <1>2, <2>1, <3>1 DEF HandInv, Live, Ends, Moves, Steps
    <2>2. CASE StartOpen(p) /\ file # None
      <3>1. Moves(p, {"reuse", "done"}) /\ doing'[p] = "open" /\ desc'[p] = file
        BY <1>3, <2>2, GoMoves, EndMoves DEF StartOpen, Moves, Steps, Replies, TypeOK
      <3> QED
        BY <1>2, <2>2, <3>1 DEF HandInv, Agree, Live, Ends, Moves, Steps
    <2>3. CASE StartOther(p)
      <3>1. PICK c \in {"stop", "reset", "delete", "run", "status"} :
              /\ doing' = [doing EXCEPT ![p] = c]
              /\ desc' = [desc EXCEPT ![p] = file]
              /\ IF file = None THEN End(p, "failed") ELSE Go(p, First[c])
        BY <2>3 DEF StartOther, First
      <3>2. First[c] \in {"stop", "discard", "check", "inspect"} /\ (First[c] = "check" => c = "run")
        BY DEF First
      <3>3. First[c] \in Steps
        BY <3>2 DEF Steps, Effective
      <3>4. doing'[p] = c /\ desc'[p] = file
        BY <1>3, <3>1 DEF TypeOK
      <3>5. Moves(p, {First[c], "done"}) /\ (pc'[p] = First[c] => file # None)
        <4>1. CASE file = None
          BY <1>3, <3>1, <3>2, <4>1, EndMoves DEF Moves, Replies
        <4>2. CASE file # None
          BY <1>3, <3>1, <3>3, <4>2, GoMoves DEF Moves
        <4> QED
          BY <4>1, <4>2
      <3>6. pc'[p] \in {First[c], "done", "dead"}
        BY <3>5 DEF Moves
      <3>7. p \in Live' => HandInv(p)'
        BY <1>2, <3>2, <3>4, <3>5, <3>6 DEF HandInv, Agree, Live, Ends
      <3> QED
        BY <3>2, <3>3, <3>5, <3>6, <3>7 DEF Moves, Live, Ends
    <2>4. CASE StartSessions(p)
      <3>1. Moves(p, {"listed", "done"}) /\ doing'[p] = "sessions"
        BY <1>3, <2>4, GoMoves, EndMoves DEF StartSessions, Moves, Steps, Replies, TypeOK
      <3> QED
        BY <3>1 DEF HandInv, Live, Ends, Moves, Steps
    <2> QED
      BY <2>1, <2>2, <2>3, <2>4
  <1>6. \A q \in Live' : q = p
    BY <1>2, <1>5 DEF Live, Moves
  <1> QED
    BY <1>4, <1>5, <1>6 DEF SequenceInv, AloneInv

(* What happens to a command keeps it where it is, ends it or sends it to     *)
(* the clean-up.                                                             *)
LEMMA SequenceFault ==
  ASSUME TypeInv, SequenceInv, ~mixed, NEW p \in Procs,
         AgentEnds(p) \/ CommandFails(p) \/ UndoFails(p) \/ TooSlow(p) \/ Kill(p)
  PROVE  SequenceInv'
  <1> USE DEF disk
  <1>1. TypeOK /\ AloneInv /\ ClientInv /\ UNCHANGED <<doing, desc, file, client, mixed>>
    BY DEF TypeInv, SequenceInv, AgentEnds, CommandFails, UndoFails, TooSlow, Kill, Fault, history
  <1>2. ClientInv'
    BY <1>1 DEF ClientInv
  <1>3. CASE \A q \in Procs : pc'[q] = pc[q] \/ pc'[q] \in {"done", "dead"}
    <2>1. Live' \subseteq Live /\ \A q \in Live' : pc'[q] = pc[q]
      BY <1>3 DEF Live, Ends
    <2>2. \A q \in Live' : HandInv(q)'
      BY <1>1, <2>1 DEF HandInv, Agree, SequenceInv
    <2> QED
      BY <1>1, <1>2, <2>1, <2>2 DEF SequenceInv, AloneInv
  <1>4. CASE AgentEnds(p) \/ Kill(p)
    BY <1>1, <1>3, <1>4, EndMoves DEF AgentEnds, Kill, Moves, Replies, TypeOK
  <1>5. CASE CommandFails(p) \/ TooSlow(p)
    <2>1. Moves(p, {"undo", "done"}) /\ pc[p] \in Steps
      BY <1>1, <1>5, BreaksMoves
      DEF CommandFails, TooSlow, Steps, Launching
    <2>2. pc'[p] = "undo" => pc[p] \in Launching
      BY <1>1, <1>5, BreaksMoves DEF CommandFails, TooSlow
    <2>3. CASE pc[p] \in Launching
      <3>1. pc[p] \in Settled /\ Moves(p, Settled \cup {"done"})
            /\ pc'[p] \in {"undo", "done", "dead"}
        BY <2>1, <2>3 DEF Settled, Steps, Launching, Undoing, Moves
      <3> QED
        BY <1>1, <2>1, <3>1, GoesOn, AtWork DEF Agree
    <2>4. CASE pc[p] \notin Launching
      BY <1>3, <2>1, <2>2, <2>4 DEF Moves
    <2> QED
      BY <2>3, <2>4
  <1>6. CASE UndoFails(p)
    <2>1. /\ Moves(p, {"undonetwork", "undofile", "done"}) /\ pc[p] \in Undoing
          /\ pc'[p] \in {"undonetwork", "undofile"} => doing[p] = "new"
      BY <1>1, <1>6, GoMoves, EndMoves DEF UndoFails, Moves, Steps, Undoing, Replies
    <2>2. /\ pc[p] \in Settled /\ pc[p] \in Steps /\ Moves(p, Settled \cup {"done"})
          /\ pc'[p] \notin {"check", "hand"}
      BY <2>1 DEF Settled, Steps, Launching, Undoing, Effective, Moves
    <2> QED
      BY <1>1, <2>1, <2>2, GoesOn, AtWork DEF Agree
  <1> QED
    BY <1>4, <1>5, <1>6

LEMMA SequenceNext == TypeInv /\ SequenceInv /\ [Next]_vars => SequenceInv'
  <1> SUFFICES ASSUME TypeInv, SequenceInv, [Next]_vars, ~mixed' PROVE SequenceInv'
    BY DEF SequenceInv
  <1>1. ASSUME NEW p \in Procs, StartOpen(p) \/ StartOther(p) \/ StartSessions(p)
        PROVE  SequenceInv'
    BY <1>1, SequenceStart
  <1>2. ASSUME NEW p \in Procs, Step(p) PROVE SequenceInv'
    BY <1>2, StepEffects, SequenceStep
  <1>3. ASSUME NEW p \in Procs,
               AgentEnds(p) \/ CommandFails(p) \/ UndoFails(p) \/ TooSlow(p) \/ Kill(p)
        PROVE  SequenceInv'
    <2>1. ~mixed
      BY <1>3 DEF AgentEnds, CommandFails, UndoFails, TooSlow, Kill, Fault, history
    <2> QED
      BY <1>3, <2>1, SequenceFault
  <1>4. CASE UNCHANGED <<pc, doing, desc, file, client, mixed>>
    BY <1>4 DEF SequenceInv, AloneInv, ClientInv, HandInv, Live, Agree
  <1>5. ASSUME NEW s \in Procs, ServiceUp(s) \/ ContainerExits(s) \/ ExternalRemoval(s)
        PROVE  SequenceInv'
    BY <1>4, <1>5 DEF ServiceUp, ContainerExits, ExternalRemoval, Fault, cli, disk, history
  <1>6. CASE UNCHANGED vars
    BY <1>4, <1>6 DEF vars, cli, disk, history
  <1> QED
    BY <1>1, <1>2, <1>3, <1>5, <1>6 DEF Next, Finished

-----------------------------------------------------------------------------
(* The index of the engine does not depend on how a container is doing.      *)
LEMMA EngineQuiet ==
  ASSUME EngineInv, UNCHANGED <<file, containers, networks>>
  PROVE  EngineInv'
  BY DEF EngineInv, Indexed, Credentials, Exists

LEMMA EngineChanged ==
  ASSUME TypeInv, EngineInv, NEW s \in Procs, Exists(s), NEW c,
         \/ c = None
         \/ c.token = containers[s].token /\ c.generation = containers[s].generation,
         containers' = [containers EXCEPT ![s] = c], UNCHANGED <<file, networks>>
  PROVE  EngineInv'
  <1>1. /\ containers'[s] = c
        /\ \A q \in Procs \ {s} : containers'[q] = containers[q]
    BY DEF TypeInv, TypeOK
  <1> QED
    BY <1>1 DEF EngineInv, Indexed, Credentials, Exists

(* Starting, stopping and getting ready leave the credentials of a container. *)
LEMMA SameCredentials ==
  ASSUME TypeInv, NEW s \in Procs, Exists(s), NEW p \in Procs
  PROVE  \A c \in {Started(s, p), Stopped(s), [containers[s] EXCEPT !.up = TRUE]} :
           c.token = containers[s].token /\ c.generation = containers[s].generation
  <1>1. containers[s] \in Container
    BY DEF TypeInv, TypeOK, Exists
  <1> QED
    BY <1>1 DEF Container, Started, Stopped

(* A new container is made for the descriptor on disk.                      *)
LEMMA EngineCreated ==
  ASSUME TypeInv, EngineInv, NEW s \in Procs, NEW c, Indexed(s), c # None,
         c.token = file.token, c.generation = file.generation,
         containers' = [containers EXCEPT ![s] = c], UNCHANGED <<file, networks>>
  PROVE  EngineInv'
  <1>1. /\ containers'[s] = c
        /\ \A q \in Procs \ {s} : containers'[q] = containers[q]
    BY DEF TypeInv, TypeOK
  <1> QED
    BY <1>1 DEF EngineInv, Indexed, Credentials, Exists

(* A container that is removed is gone.                                     *)
LEMMA EngineRemoved ==
  ASSUME TypeInv, EngineInv, NEW s \in Procs,
         containers' = [containers EXCEPT ![s] = None], UNCHANGED <<file, networks>>
  PROVE  EngineInv' /\ containers'[s] = None
  <1>1. /\ containers'[s] = None
        /\ \A q \in Procs \ {s} : containers'[q] = containers[q]
    BY DEF TypeInv, TypeOK
  <1> QED
    BY <1>1 DEF EngineInv, Indexed, Credentials, Exists

LEMMA IndexCarry ==
  ASSUME SequenceInv, ~mixed, NEW p \in Live, NEW steps, Moves(p, steps),
         EngineInv', pc'[p] \in Steps => GoneInv(p)'
  PROVE  IndexInv'
  <1>1. \A q \in Live' : q = p
    BY StaysAlone DEF SequenceInv
  <1>2. p \in Live' => pc'[p] \in Steps
    BY DEF Live, Moves
  <1> QED
    BY <1>1, <1>2 DEF IndexInv

Going == {"rotate", "pending", "undonetwork", "undofile", "rmnetwork", "forget", "unlink"}

LEMMA IndexStep ==
  ASSUME TypeInv, SequenceInv, IndexInv, ~mixed, ~neglected, ~neglected',
         NEW p \in Procs, Step(p)
  PROVE  IndexInv'
  <1> USE DEF disk, engine, history
  <1>1. TypeOK /\ p \in Live
    BY StepMoves, AtWork DEF TypeInv
  <1>2. HandInv(p) /\ ClientInv /\ EngineInv /\ GoneInv(p)
    BY <1>1 DEF SequenceInv, IndexInv
  <1>3. pc[p] # "listed" => desc[p] \in Descriptor /\ Session(p) \in Procs
    BY <1>1, StepMoves, SessionType
  <1>4. pc[p] \notin {"new", "listed", "rotate", "pending"} =>
          /\ Indexed(Session(p))
          /\ desc[p].token = file.token /\ desc[p].generation = file.generation
    BY <1>2 DEF HandInv, Agree, Indexed, Session
  <1>5. Moves(p, (Steps \ {"listed"}) \cup {"done"})
    BY <1>1, StepMoves
  <1>6. ASSUME EngineInv', pc'[p] \notin Going PROVE IndexInv'
    BY <1>1, <1>5, <1>6, IndexCarry DEF GoneInv, Going
  <1>7. CASE \/ LoadListed(p) \/ EnsureNetwork(p) \/ AwaitEndpoint(p) \/ ServiceReady(p)
             \/ ServiceGone(p) \/ ServiceDeadline(p)
    <2>1. Moves(p, {"inspect", "addnetwork", "create", "publish", "undo", "done"})
      BY <1>1, <1>7, GoMoves, EndMoves, BreaksMoves
      DEF LoadListed, EnsureNetwork, AwaitEndpoint, ServiceReady, ServiceGone, ServiceDeadline,
          GivesUp, Moves, Steps, Launching, Effective, Replies
    <2>2. UNCHANGED <<file, containers, networks>>
      BY <1>7 DEF LoadListed, EnsureNetwork, AwaitEndpoint, ServiceReady, ServiceGone,
                  ServiceDeadline
    <2> QED
      BY <1>2, <1>6, <2>1, <2>2, EngineQuiet DEF Moves, Going
  <1>8. CASE \/ CheckRunning(p) \/ CopyClient(p) \/ HandDescriptor(p) \/ RunAgent(p)
             \/ Inspect(p) \/ Probe(p)
    <2>1. \E answer \in Replies : Probe(p) => End(p, answer)
      BY DEF Probe, Replies
    <2>2. Moves(p, {"hand", "copy", "attach", "agent", "probe", "done"})
      BY <1>1, <1>8, <2>1, GoMoves, EndMoves
      DEF CheckRunning, CopyClient, HandDescriptor, RunAgent, Inspect, Probe, Moves, Steps,
          Effective, Replies
    <2>3. UNCHANGED <<file, containers, networks>>
      BY <1>8 DEF CheckRunning, CopyClient, HandDescriptor, RunAgent, Inspect, Probe
    <2> QED
      BY <1>2, <1>6, <2>2, <2>3, EngineQuiet DEF Moves, Going
  <1>9. CASE SaveNew(p)
    <2>1. Moves(p, {"network"}) /\ UNCHANGED <<containers, networks>> /\ pc[p] = "new"
      BY <1>1, <1>9, GoMoves DEF SaveNew, Save, Moves, Steps, Launching
    <2>2. EngineInv'
      BY <1>2, <2>1 DEF EngineInv, HandInv, Indexed, Exists
    <2> QED
      BY <1>6, <2>1, <2>2 DEF Moves, Going
  <1>10. CASE SavePending(p)
    <2>1. /\ Moves(p, {"network"}) /\ UNCHANGED <<containers, networks>> /\ pc[p] = "pending"
          /\ file' = desc[p]
      BY <1>1, <1>10, GoMoves DEF SavePending, Save, Moves, Steps, Launching
    <2>2. file' # None /\ file'.session = file.session /\ ~Exists(file.session)
      BY <1>2, <1>3, <2>1, NoneAssumption DEF HandInv, GoneInv, Session
    <2>3. EngineInv'
      BY <1>2, <2>1, <2>2 DEF EngineInv, Indexed, Exists
    <2> QED
      BY <1>6, <2>1, <2>3 DEF Moves, Going
  <1>11. CASE Publish(p)
    <2>1. /\ Moves(p, {"service"}) /\ UNCHANGED <<containers, networks>> /\ pc[p] = "publish"
          /\ file' = desc[p]
      BY <1>1, <1>11, GoMoves DEF Publish, Save, Moves, Steps, Launching
    <2>2. file' # None /\ Agree(file', file)
      BY <1>2, <1>3, <2>1, NoneAssumption DEF HandInv, Agree
    <2>3. EngineInv'
      BY <1>2, <2>1, <2>2 DEF EngineInv, Indexed, Exists, Credentials, Agree
    <2> QED
      BY <1>6, <2>1, <2>3 DEF Moves, Going
  <1>12. CASE InspectReuse(p)
    <2>1. /\ Moves(p, {"endpoint", "start", "rotate"}) /\ UNCHANGED <<file, containers, networks>>
          /\ pc[p] = "reuse"
      BY <1>1, <1>12, GoMoves DEF InspectReuse, Moves, Steps, Launching, Effective
    <2>2. EngineInv'
      BY <1>2, <2>1, EngineQuiet
    <2>3. CASE Exists(Session(p))
      BY <1>1, <1>6, <1>12, <2>2, <2>3, GoMoves
      DEF InspectReuse, Moves, Going, Steps, Launching, Effective
    <2>4. CASE ~Exists(Session(p))
      <3>1. desc[p] \in Descriptor /\ desc'[p] = Rotated(p, desc[p])
        BY <1>1, <1>3, <1>12, <2>1, <2>4 DEF InspectReuse, TypeOK
      <3>2. Session(p)' = Session(p)
        BY <3>1, RotatedType DEF Session
      <3>3. pc'[p] \in {"rotate", "endpoint", "start", "dead"}
        BY <2>1 DEF Moves
      <3>4. pc'[p] \in Steps => GoneInv(p)'
        BY <2>1, <2>4, <3>2, <3>3 DEF GoneInv, Exists
      <3> QED
        BY <1>1, <2>1, <2>2, <3>4, IndexCarry
    <2> QED
      BY <2>3, <2>4
  <1>13. CASE DropClient(p) \/ ForgetClient(p)
    <2>1. /\ Moves(p, {"pending", "unlink"})
          /\ UNCHANGED <<desc, file, containers, networks>>
          /\ \/ pc[p] = "rotate" /\ pc'[p] \in {"pending", "dead"}
             \/ pc[p] = "forget" /\ pc'[p] \in {"unlink", "dead"}
      BY <1>1, <1>13, GoMoves DEF DropClient, ForgetClient, Moves, Steps
    <2>2. pc'[p] \in Steps => GoneInv(p)'
      BY <1>2, <2>1 DEF GoneInv, Exists, Session, Steps, Launching, Undoing, Effective
    <2> QED
      BY <1>1, <1>2, <2>1, <2>2, EngineQuiet, IndexCarry
  <1>14. CASE StartContainer(p)
    <2>1. /\ Moves(p, {"endpoint", "undo", "done"}) /\ UNCHANGED <<file, networks>>
          /\ pc[p] = "start"
      BY <1>1, <1>14, GoMoves, BreaksMoves DEF StartContainer, Moves, Steps, Launching
    <2>2. \/ UNCHANGED containers
          \/ /\ Exists(Session(p))
             /\ containers' = [containers EXCEPT ![Session(p)] = Started(Session(p), p)]
      BY <1>14 DEF StartContainer
    <2>3. Session(p) \in Procs
      BY <1>3, <2>1
    <2>4. EngineInv'
      BY <1>2, <2>1, <2>2, <2>3, EngineQuiet, EngineChanged, SameCredentials
    <2> QED
      BY <1>6, <2>1, <2>4 DEF Moves, Going
  <1>15. CASE CreateNetwork(p)
    <2>1. /\ Moves(p, {"create", "undo", "done"}) /\ UNCHANGED <<file, containers>>
          /\ pc[p] = "addnetwork" /\ networks' = networks \cup {Session(p)}
      BY <1>1, <1>15, GoMoves, BreaksMoves DEF CreateNetwork, Moves, Steps, Launching
    <2>2. EngineInv'
      BY <1>2, <1>4, <2>1 DEF EngineInv, Indexed, Exists, Credentials
    <2> QED
      BY <1>6, <2>1, <2>2 DEF Moves, Going
  <1>16. CASE CreateContainer(p)
    <2>1. /\ Moves(p, {"endpoint", "undo", "done"}) /\ UNCHANGED <<file, networks>>
          /\ pc[p] = "create"
      BY <1>1, <1>16, GoMoves, BreaksMoves DEF CreateContainer, Moves, Steps, Launching
    <2>2. \/ UNCHANGED containers
          \/ containers' = [containers EXCEPT ![Session(p)] = Created(p)]
      BY <1>16 DEF CreateContainer
    <2>3. /\ Session(p) \in Procs /\ Created(p) # None
          /\ Created(p).token = desc[p].token /\ Created(p).generation = desc[p].generation
      <3>1. Created(p) \in Container
        BY <2>1, CreatedType DEF Steps, Launching
      <3> QED
        BY <1>3, <2>1, <3>1, NoneAssumption DEF Created
    <2>4. EngineInv'
      BY <1>2, <1>4, <2>1, <2>2, <2>3, EngineQuiet, EngineCreated
    <2> QED
      BY <1>6, <2>1, <2>4 DEF Moves, Going
  <1>17. CASE Undo(p) \/ Discard(p)
    <2>1. /\ Moves(p, {"undonetwork", "rotate", "rmnetwork", "done"})
          /\ UNCHANGED <<file, networks>> /\ pc[p] \in {"undo", "discard"}
          /\ containers' = [containers EXCEPT ![Session(p)] = None]
      BY <1>1, <1>17, GoMoves, EndMoves
      DEF Undo, Discard, RemoveContainer, Moves, Steps, Undoing, Effective, Replies
    <2>2. desc[p] \in Descriptor /\ Session(p) \in Procs
      BY <1>3, <2>1
    <2>3. EngineInv' /\ containers'[Session(p)] = None
      BY <1>2, <2>1, <2>2, EngineRemoved
    <2>4. Session(p)' = Session(p)
      <3>1. desc' = desc \/ desc' = [desc EXCEPT ![p] = Rotated(p, desc[p])]
        BY <1>17 DEF Undo, Discard
      <3>2. desc'[p] = desc[p] \/ desc'[p] = Rotated(p, desc[p])
        BY <1>1, <3>1 DEF TypeOK
      <3> QED
        BY <2>2, <3>2, RotatedType DEF Session
    <2>5. pc'[p] \in {"undonetwork", "rotate", "rmnetwork", "done", "dead"}
      BY <2>1 DEF Moves
    <2>6. GoneInv(p)'
      BY <2>3, <2>4, <2>5 DEF GoneInv, Exists
    <2> QED
      BY <1>1, <2>1, <2>3, <2>6, IndexCarry
  <1>18. CASE UndoNetwork(p) \/ DeleteNetwork(p)
    <2>1. /\ Moves(p, {"undofile", "forget", "done"})
          /\ UNCHANGED <<desc, file, containers>> /\ pc[p] \in {"undonetwork", "rmnetwork"}
          /\ networks' = networks \/ networks' = networks \ {Session(p)}
      BY <1>1, <1>18, GoMoves, EndMoves
      DEF UndoNetwork, DeleteNetwork, RemoveNetwork, Moves, Steps, Undoing, Replies
    <2>2. pc'[p] \in {"undofile", "forget"} => Session(p) \notin networks'
      <3>1. CASE UndoNetwork(p)
        BY <3>1 DEF UndoNetwork, RemoveNetwork
      <3>2. CASE DeleteNetwork(p)
        BY <1>1, <3>2, EndMoves DEF DeleteNetwork, RemoveNetwork, Moves, Replies
      <3> QED
        BY <1>18, <3>1, <3>2
    <2>3. EngineInv'
      BY <1>2, <2>1 DEF EngineInv, Indexed, Exists, Credentials
    <2>4. pc'[p] \in {"undofile", "forget", "done", "dead"}
      BY <2>1 DEF Moves
    <2>5. GoneInv(p)'
      BY <1>2, <2>1, <2>2, <2>4 DEF GoneInv, Exists, Session
    <2> QED
      BY <1>1, <2>1, <2>3, <2>5, IndexCarry
  <1>19. CASE UndoFile(p) \/ UnlinkFile(p)
    <2>1. /\ Moves(p, {"done"}) /\ pc[p] \in {"undofile", "unlink"}
          /\ UNCHANGED <<containers, networks>>
      BY <1>1, <1>19, EndMoves DEF UndoFile, UnlinkFile, Moves, Replies
    <2>2. networks = {} /\ \A s \in Procs : ~Exists(s)
      BY <1>2, <1>4, <2>1 DEF EngineInv, GoneInv, Indexed
    <2>3. EngineInv'
      BY <2>1, <2>2 DEF EngineInv, Exists
    <2> QED
      BY <1>6, <2>1, <2>3 DEF Moves, Going
  <1>20. CASE Stop(p)
    <2>1. Moves(p, {"done"}) /\ UNCHANGED <<file, networks>> /\ pc[p] = "stop"
      BY <1>1, <1>20, EndMoves DEF Stop, Moves, Replies
    <2>2. \/ UNCHANGED containers
          \/ /\ Exists(Session(p))
             /\ containers' = [containers EXCEPT ![Session(p)] = Stopped(Session(p))]
      BY <1>20 DEF Stop
    <2>3. Session(p) \in Procs
      BY <1>3, <2>1
    <2>4. EngineInv'
      BY <1>2, <2>1, <2>2, <2>3, EngineQuiet, EngineChanged, SameCredentials
    <2> QED
      BY <1>6, <2>1, <2>4 DEF Moves, Going
  <1> QED
    BY <1>7, <1>8, <1>9, <1>10, <1>11, <1>12, <1>13, <1>14, <1>15, <1>16, <1>17, <1>18,
       <1>19, <1>20 DEF Step

(* A fault leaves the engine with what the descriptor on disk knows of.      *)
LEMMA IndexFault ==
  ASSUME TypeInv, SequenceInv, IndexInv, ~mixed, ~neglected, ~neglected',
         NEW p \in Procs,
         AgentEnds(p) \/ CommandFails(p) \/ UndoFails(p) \/ TooSlow(p) \/ Kill(p)
  PROVE  IndexInv'
  <1> USE DEF disk, engine, history
  <1>1. /\ TypeOK /\ EngineInv /\ ~UndoFails(p)
        /\ UNCHANGED <<desc, file, networks>>
    BY DEF TypeInv, IndexInv, AgentEnds, CommandFails, UndoFails, TooSlow, Kill
  <1>2. ASSUME UNCHANGED containers,
               \A q \in Procs : pc'[q] = pc[q] \/ pc'[q] \in {"done", "dead", "undo"}
        PROVE  IndexInv'
    <2>1. EngineInv'
      BY <1>1, <1>2, EngineQuiet
    <2>2. \A q \in Live' : \/ pc'[q] = "undo"
                           \/ q \in Live /\ pc'[q] = pc[q]
      BY <1>2 DEF Live, Ends
    <2>3. \A q \in Live' : GoneInv(q)'
      BY <1>1, <1>2, <2>2 DEF IndexInv, GoneInv, Exists, Session
    <2> QED
      BY <2>1, <2>3 DEF IndexInv
  <1>3. CASE AgentEnds(p) \/ Kill(p)
    BY <1>1, <1>2, <1>3, EndMoves DEF AgentEnds, Kill, Moves, Replies, TypeOK
  <1>4. CASE TooSlow(p)
    BY <1>1, <1>2, <1>4, BreaksMoves DEF TooSlow, Moves
  <1>5. CASE CommandFails(p)
    <2>1. Moves(p, {"undo", "done"})
      BY <1>1, <1>5, BreaksMoves DEF CommandFails
    <2>2. CASE UNCHANGED containers
      BY <1>2, <2>1, <2>2 DEF Moves
    <2>3. CASE /\ pc[p] = "create"
               /\ containers' = [containers EXCEPT ![Session(p)] =
                                   [Created(p) EXCEPT !.running = FALSE]]
      <3> DEFINE c == [Created(p) EXCEPT !.running = FALSE]
      <3>1. pc[p] \in Steps \ {"listed"} /\ p \in Live
        BY <2>3, AtWork DEF Steps, Launching
      <3>2. /\ Session(p) \in Procs /\ c # None
            /\ c.token = desc[p].token /\ c.generation = desc[p].generation
        BY <3>1, SessionType, CreatedType, NoneAssumption DEF Created
      <3>3. Agree(desc[p], file) /\ Indexed(Session(p))
        BY <2>3, <3>1 DEF SequenceInv, HandInv, Agree, Indexed, Session
      <3>4. EngineInv'
        <4> HIDE DEF c
        <4>1. containers' = [containers EXCEPT ![Session(p)] = c]
          BY <2>3 DEF c
        <4> QED
          BY <1>1, <3>2, <3>3, <4>1, EngineCreated DEF Agree
      <3>5. pc'[p] \in Steps => GoneInv(p)'
        BY <2>1 DEF Moves, GoneInv, Steps, Launching, Undoing, Effective
      <3> QED
        BY <2>1, <3>1, <3>4, <3>5, IndexCarry
    <2> QED
      BY <1>5, <2>2, <2>3 DEF CommandFails
  <1> QED
    BY <1>1, <1>3, <1>4, <1>5

LEMMA IndexNext == TypeInv /\ SequenceInv /\ IndexInv /\ [Next]_vars => IndexInv'
  <1> SUFFICES ASSUME TypeInv, SequenceInv, IndexInv, [Next]_vars, ~mixed', ~neglected'
               PROVE  IndexInv'
    BY DEF IndexInv
  <1>1. ASSUME NEW p \in Procs, StartOpen(p) \/ StartOther(p) \/ StartSessions(p)
        PROVE  IndexInv'
    <2>1. PICK command : Starts(p, command)
      BY <1>1 DEF StartOpen, StartOther, StartSessions
    <2>2. ~mixed /\ ~neglected /\ UNCHANGED <<file, containers, networks>>
      BY <2>1 DEF Starts, disk, engine
    <2>3. EngineInv'
      BY <2>2, EngineQuiet DEF IndexInv
    <2>4. \A q \in Live' : GoneInv(q)'
      BY <1>1, SequenceStart DEF GoneInv
    <2> QED
      BY <2>3, <2>4 DEF IndexInv
  <1>2. ASSUME NEW p \in Procs, Step(p) PROVE IndexInv'
    <2>1. ~mixed
      BY <1>2, StepEffects
    <2>2. ~neglected
      BY <1>2 DEF Step, LoadListed, SaveNew, SavePending, Publish, Save, InspectReuse,
         DropClient, StartContainer, EnsureNetwork, CreateNetwork, CreateContainer,
         AwaitEndpoint, ServiceReady, ServiceGone, ServiceDeadline, GivesUp, Undo,
         UndoNetwork, UndoFile, Stop, Discard, DeleteNetwork, ForgetClient, UnlinkFile,
         CheckRunning, HandDescriptor, CopyClient, RunAgent, Inspect, Probe, history
    <2> QED
      BY <1>2, <2>1, <2>2, IndexStep
  <1>3. ASSUME NEW p \in Procs,
               AgentEnds(p) \/ CommandFails(p) \/ UndoFails(p) \/ TooSlow(p) \/ Kill(p)
        PROVE  IndexInv'
    <2>1. ~mixed /\ ~neglected
      BY <1>3 DEF AgentEnds, CommandFails, UndoFails, TooSlow, Kill, Fault, history
    <2> QED
      BY <1>3, <2>1, IndexFault
  <1>4. ASSUME UNCHANGED <<pc, desc, file, networks>>, mixed' = mixed, neglected' = neglected,
               NEW s \in Procs, Exists(s), NEW c,
               \/ c = None
               \/ c.token = containers[s].token /\ c.generation = containers[s].generation,
               containers' = [containers EXCEPT ![s] = c]
        PROVE  IndexInv'
    <2>1. EngineInv'
      BY <1>4, EngineChanged DEF IndexInv
    <2>2. \A q \in Procs : Exists(q)' => Exists(q)
      BY <1>4 DEF TypeInv, TypeOK, Exists
    <2>3. \A q \in Live : Session(q)' = Session(q)
      BY <1>4 DEF Session
    <2>4. \A q \in Live : pc[q] \in Going => Session(q) \in Procs
      BY SessionType DEF Live, Going, Steps, Launching, Undoing, Effective
    <2>5. \A q \in Live' : GoneInv(q)'
      BY <1>4, <2>2, <2>3, <2>4 DEF IndexInv, GoneInv, Going, Live
    <2> QED
      BY <2>1, <2>5 DEF IndexInv
  <1>5. ASSUME NEW s \in Procs, ServiceUp(s) \/ ContainerExits(s) \/ ExternalRemoval(s)
        PROVE  IndexInv'
    <2> DEFINE up == [containers[s] EXCEPT !.up = TRUE]
               off == Stopped(s)
    <2>1. /\ Exists(s) /\ UNCHANGED <<pc, desc, file, networks>>
          /\ mixed' = mixed /\ neglected' = neglected
      BY <1>5 DEF ServiceUp, ContainerExits, ExternalRemoval, Running, Fault, cli, disk, history
    <2>2. up \in Container /\ off \in Container
      BY <2>1, ChangedContainer
    <2>3. /\ up.token = containers[s].token /\ up.generation = containers[s].generation
          /\ off.token = containers[s].token /\ off.generation = containers[s].generation
      BY <2>1, SameCredentials
    <2>4. \/ containers' = [containers EXCEPT ![s] = up]
          \/ containers' = [containers EXCEPT ![s] = off]
          \/ containers' = [containers EXCEPT ![s] = None]
      BY <1>5 DEF ServiceUp, ContainerExits, ExternalRemoval, TypeInv, TypeOK
    <2> HIDE DEF up, off
    <2> QED
      BY <1>4, <2>1, <2>2, <2>3, <2>4
  <1>6. CASE UNCHANGED vars
    BY <1>6 DEF IndexInv, EngineInv, Indexed, Credentials, GoneInv, Exists, Session, Live,
       vars, cli, disk, engine, history
  <1> QED
    BY <1>1, <1>2, <1>3, <1>5, <1>6 DEF Next, Finished

-----------------------------------------------------------------------------
(* What holds of one command at a time, in every reachable state.           *)
LEMMA SequenceCorrect == Spec => [](TypeInv /\ SequenceInv /\ IndexInv)
  <1>1. Init => TypeInv /\ SequenceInv /\ IndexInv
    BY TypeInit, SequenceInit
  <1>2. TypeInv /\ SequenceInv /\ IndexInv /\ [Next]_vars
          => (TypeInv /\ SequenceInv /\ IndexInv)'
    BY TypeNext, SequenceNext, IndexNext
  <1> QED
    BY <1>1, <1>2, PTL DEF Spec

(* The container and the network that exist are those of the descriptor on    *)
(* disk, with its credentials, wherever earlier commands were killed.         *)
THEOREM IndexHolds == Spec => []SequentialIndex
  <1>1. IndexInv => SequentialIndex
    BY DEF IndexInv, EngineInv, SequentialIndex
  <1> QED
    BY SequenceCorrect, <1>1, PTL

(* The descriptor that agents are handed has the credentials of the session.  *)
THEOREM ClientHolds == Spec => []SequentialClient
  <1>1. SequenceInv => SequentialClient
    BY DEF SequenceInv, ClientInv, Agree, SequentialClient
  <1> QED
    BY SequenceCorrect, <1>1, PTL

(* The generation on disk grows when the credentials change, whatever crashes  *)
(* lie between.                                                              *)
THEOREM GenerationCorrect == Spec => GenerationGrows
  <1> DEFINE Grows ==
        ~mixed' /\ file # None /\ file' # None /\ file'.session = file.session =>
          \/ file'.generation > file.generation
          \/ file'.generation = file.generation /\ file'.token = file.token
  <1>1. TypeInv /\ SequenceInv /\ [Next]_vars => [Grows]_vars
    <2> SUFFICES ASSUME TypeInv, SequenceInv, Next, ~mixed', file # None, file' # None,
                        file'.session = file.session
                 PROVE  Grows
      OBVIOUS
    <2>1. file \in Descriptor
      BY DEF TypeInv, TypeOK
    <2>2. CASE file' = file
      BY <2>2
    <2>3. ASSUME NEW p \in Procs, SaveNew(p) \/ SavePending(p) \/ Publish(p) PROVE Grows
      <3>1. /\ file' = desc[p] /\ pc[p] \in {"new", "pending", "publish"}
            /\ mixed' = mixed
        BY <2>3 DEF SaveNew, SavePending, Publish, Save, history
      <3>2. p \in Live
        BY <3>1 DEF Live, Ends
      <3>3. HandInv(p)
        BY <3>1, <3>2 DEF SequenceInv
      <3>4. file.generation \in Nat
        BY <2>1 DEF Descriptor
      <3> QED
        BY <3>1, <3>3, <3>4 DEF HandInv, Agree
    <2>4. ASSUME NEW p \in Procs, UndoFile(p) \/ UnlinkFile(p) PROVE FALSE
      BY <2>4 DEF UndoFile, UnlinkFile
    <2>5. \/ file' = file
          \/ \E p \in Procs : \/ SaveNew(p) \/ SavePending(p) \/ Publish(p)
                              \/ UndoFile(p) \/ UnlinkFile(p)
      BY DEF Next, Step, Finished, StartOpen, StartOther, StartSessions, Starts, LoadListed,
         InspectReuse, DropClient, StartContainer, EnsureNetwork, CreateNetwork,
         CreateContainer, AwaitEndpoint, ServiceReady, ServiceGone, ServiceDeadline, Undo,
         UndoNetwork, Stop, Discard, DeleteNetwork, ForgetClient, CheckRunning,
         HandDescriptor, CopyClient, RunAgent, Inspect, Probe, AgentEnds, CommandFails,
         UndoFails, TooSlow, Kill, ServiceUp, ContainerExits, ExternalRemoval, disk, vars
    <2> QED
      BY <2>2, <2>3, <2>4, <2>5
  <1> QED
    BY SequenceCorrect, <1>1, PTL DEF Spec, GenerationGrows

=============================================================================
