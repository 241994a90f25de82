----------------------- MODULE SessionUndisturbedProofs -----------------------
(***************************************************************************)
(* What a session command does that meets no other command and no fault,   *)
(* whatever crashes, failures and races lie behind it.                      *)
(***************************************************************************)
EXTENDS SessionLifecycleProofs

(* Nothing has the name of a session before its open has started.           *)
FreshInv ==
  \A s \in Procs : pc[s] = "idle" =>
    /\ ~Exists(s) /\ s \notin networks
    /\ file # None => file.session # s
    /\ \A p \in Procs : desc[p] # None => Session(p) # s

(* Without races a container has the credentials on disk, also when some     *)
(* clean-up failed, and new credentials are saved only once it is gone.       *)
CredInv ==
  ~mixed => /\ file # None /\ Exists(file.session) => Credentials(file.session)
            /\ \A p \in Live : pc[p] \in {"new", "rotate", "pending"} => ~Exists(Session(p))

(* What a command that was never disturbed has found and made.              *)
FoundInv(p) ==
  LET s == Session(p)
      trusts == doing[p] # "open" \/ ~mixed
  IN
  /\ pc[p] \notin Undoing
  /\ pc[p] = "reuse" => doing[p] = "open"
  /\ pc[p] = "discard" => doing[p] \in {"reset", "delete"}
  /\ pc[p] = "rmnetwork" => doing[p] = "delete"
  /\ pc[p] \in {"check", "hand", "copy", "attach", "agent"} => doing[p] = "run"
  /\ pc[p] = "inspect" => doing[p] \in {"status", "sessions"}
  /\ pc[p] = "listed" => doing[p] = "sessions"
  /\ pc[p] = "probe" => doing[p] = "status"
  /\ pc[p] \in {"new", "rotate", "pending", "network", "addnetwork", "create"} => ~Exists(s)
  /\ pc[p] = "addnetwork" => s \notin networks
  /\ pc[p] = "create" => s \in networks
  /\ pc[p] = "start" => Exists(s)
  /\ pc[p] \in {"endpoint", "publish", "service"} => Running(s)
  /\ pc[p] \in {"start", "endpoint", "publish", "service"} /\ trusts =>
       /\ containers[s].token = desc[p].token
       /\ containers[s].generation = desc[p].generation
  /\ pc[p] \in {"publish", "service"} => containers[s].endpoint = desc[p].endpoint
  /\ pc[p] = "service" => file = desc[p]

UndisturbedInv ==
  \A p \in undisturbed :
    /\ pc[p] # "idle"
    /\ p \in Live => FoundInv(p) /\ \A q \in Live : q = p

LEMMA UndisturbedInit == Init => FreshInv /\ CredInv /\ UndisturbedInv
  BY DEF Init, FreshInv, CredInv, UndisturbedInv, Exists, Live, Ends

-----------------------------------------------------------------------------
(* What a step does to the files: it saves the descriptor in hand, removes it *)
(* or leaves it.                                                             *)
LEMMA StepFiles ==
  ASSUME TypeInv, NEW p \in Procs, Step(p)
  PROVE  \/ file' = file
         \/ file' = None
         \/ /\ pc[p] \in {"new", "pending", "publish"} /\ desc[p] \in Descriptor
            /\ file' = desc[p] /\ UNCHANGED containers
  <1> USE DEF disk, engine
  <1>1. CASE SaveNew(p) \/ SavePending(p) \/ Publish(p)
    <2>1. pc[p] \in {"new", "pending", "publish"} /\ file' = desc[p] /\ UNCHANGED containers
      BY <1>1 DEF SaveNew, SavePending, Publish, Save
    <2>2. desc[p] \in Descriptor
      BY <2>1, SessionType DEF Steps, Launching
    <2> QED
      BY <2>1, <2>2
  <1>2. CASE UndoFile(p) \/ UnlinkFile(p)
    BY <1>2 DEF UndoFile, UnlinkFile
  <1>3. CASE UNCHANGED file
    BY <1>3
  <1> QED
    BY <1>1, <1>2, <1>3
    DEF Step, LoadListed, InspectReuse, DropClient, StartContainer, EnsureNetwork, CreateNetwork,
        CreateContainer, AwaitEndpoint, ServiceReady, ServiceGone, ServiceDeadline, Undo,
        UndoNetwork, Stop, Discard, DeleteNetwork, ForgetClient, CheckRunning, HandDescriptor,
        CopyClient, RunAgent, Inspect, Probe

(* What a step does to the containers: it touches that of its session only,   *)
(* and gives new credentials to a new container only.                        *)
Touches(p, c) ==
  \/ c = None
  \/ /\ Exists(Session(p)) /\ c # None
     /\ c.token = containers[Session(p)].token
     /\ c.generation = containers[Session(p)].generation
  \/ /\ pc[p] = "create" /\ c # None
     /\ c.token = desc[p].token /\ c.generation = desc[p].generation

LEMMA StepContainers ==
  ASSUME TypeInv, NEW p \in Procs, Step(p)
  PROVE  \/ UNCHANGED containers
         \/ /\ pc[p] \in Steps \ {"listed"}
            /\ \E c : Touches(p, c) /\ containers' = [containers EXCEPT ![Session(p)] = c]
  <1> USE DEF disk, engine
  <1>1. CASE StartContainer(p)
    <2>1. pc[p] \in Steps \ {"listed"}
      BY <1>1 DEF StartContainer, Steps, Effective
    <2>2. Session(p) \in Procs
      BY <2>1, SessionType
    <2>3. Exists(Session(p)) => Touches(p, Started(Session(p), p))
      BY <2>2, ChangedContainer, SameCredentials, NoneAssumption DEF Touches
    <2> QED
      BY <1>1, <2>1, <2>3 DEF StartContainer
  <1>2. CASE Stop(p)
    <2>1. pc[p] \in Steps \ {"listed"}
      BY <1>2 DEF Stop, Steps, Effective
    <2>2. Session(p) \in Procs
      BY <2>1, SessionType
    <2>3. Exists(Session(p)) => Touches(p, Stopped(Session(p)))
      BY <2>2, ChangedContainer, SameCredentials, NoneAssumption DEF Touches
    <2> QED
      BY <1>2, <2>1, <2>3 DEF Stop
  <1>3. CASE CreateContainer(p)
    <2>1. pc[p] \in Steps \ {"listed"} /\ pc[p] = "create"
      BY <1>3 DEF CreateContainer, Steps, Launching
    <2>2. Created(p) \in Container
      BY <2>1, CreatedType
    <2>3. Touches(p, Created(p))
      BY <2>1, <2>2, NoneAssumption DEF Touches, Created
    <2> QED
      BY <1>3, <2>1, <2>3 DEF CreateContainer
  <1>4. CASE Undo(p) \/ Discard(p)
    BY <1>4 DEF Undo, Discard, RemoveContainer, Touches, Steps, Undoing, Effective
  <1>5. CASE UNCHANGED containers
    BY <1>5
  <1> QED
    BY <1>1, <1>2, <1>3, <1>4, <1>5
    DEF Step, LoadListed, SaveNew, SavePending, Publish, Save, InspectReuse, DropClient,
        EnsureNetwork, CreateNetwork, AwaitEndpoint, ServiceReady, ServiceGone, ServiceDeadline,
        UndoNetwork, UndoFile, DeleteNetwork, ForgetClient, UnlinkFile, CheckRunning,
        HandDescriptor, CopyClient, RunAgent, Inspect, Probe

(* What a step makes of the descriptor in hand and of the networks.          *)
LEMMA StepNames ==
  ASSUME TypeInv, NEW p \in Procs, Step(p)
  PROVE  /\ \/ desc[p] \in Descriptor /\ Session(p)' = Session(p)
            \/ desc'[p] = file
         /\ \/ UNCHANGED networks
            \/ desc[p] \in Descriptor /\ networks' \subseteq networks \cup {Session(p)}
  <1> USE DEF disk, engine
  <1>1. pc[p] \in Steps /\ (pc[p] # "listed" => desc[p] \in Descriptor) /\ TypeOK
    BY StepMoves, SessionType DEF TypeInv
  <1>2. CASE LoadListed(p)
    BY <1>1, <1>2 DEF LoadListed, TypeOK
  <1>3. CASE InspectReuse(p) \/ Discard(p)
    <2>1. desc[p] \in Descriptor /\ UNCHANGED networks
      BY <1>1, <1>3 DEF InspectReuse, Discard
    <2>2. desc' = desc \/ desc' = [desc EXCEPT ![p] = Rotated(p, desc[p])]
      BY <1>3 DEF InspectReuse, Discard
    <2>3. desc'[p] = desc[p] \/ desc'[p] = Rotated(p, desc[p])
      BY <1>1, <2>2 DEF TypeOK
    <2> QED
      BY <2>1, <2>3, RotatedType DEF Session
  <1>4. CASE AwaitEndpoint(p)
    <2>1. desc[p] \in Descriptor /\ UNCHANGED networks
      BY <1>1, <1>4 DEF AwaitEndpoint
    <2>2. \/ desc'[p] = desc[p]
          \/ desc'[p] = [desc[p] EXCEPT !.endpoint = containers[Session(p)].endpoint]
      BY <1>1, <1>4 DEF AwaitEndpoint, TypeOK
    <2> QED
      BY <2>1, <2>2 DEF Session, Descriptor
  <1>5. CASE UNCHANGED desc /\ pc[p] # "listed"
    <2>1. networks' = networks \/ networks' \subseteq networks \cup {Session(p)}
      BY DEF Step, LoadListed, SaveNew, SavePending, Publish, Save, InspectReuse, DropClient,
         StartContainer, EnsureNetwork, CreateNetwork, CreateContainer, AwaitEndpoint,
         ServiceReady, ServiceGone, ServiceDeadline, Undo, UndoNetwork, UndoFile, Stop, Discard,
         DeleteNetwork, RemoveNetwork, ForgetClient, UnlinkFile, CheckRunning, HandDescriptor,
         CopyClient, RunAgent, Inspect, Probe
    <2> QED
      BY <1>1, <1>5, <2>1 DEF Session
  <1> QED
    BY <1>2, <1>3, <1>4, <1>5
    DEF Step, SaveNew, SavePending, Publish, Save, DropClient,
        StartContainer, EnsureNetwork, CreateNetwork, CreateContainer, ServiceReady,
        ServiceGone, ServiceDeadline, GivesUp, Undo, UndoNetwork, UndoFile, Stop, DeleteNetwork,
        ForgetClient, UnlinkFile, CheckRunning, HandDescriptor, CopyClient, RunAgent, Inspect,
        Probe

-----------------------------------------------------------------------------
(* Names of sessions come from processes that have started.                  *)
LEMMA FreshNext == TypeInv /\ FreshInv /\ [Next]_vars => FreshInv'
  <1> SUFFICES ASSUME TypeInv, FreshInv, [Next]_vars PROVE FreshInv'
    OBVIOUS
  <1> USE DEF disk, engine, cli
  <1>0. TypeOK
    BY DEF TypeInv
  <1>1. ASSUME NEW p \in Procs, StartOpen(p) \/ StartOther(p) \/ StartSessions(p)
        PROVE  FreshInv'
    <2>1. PICK command : Starts(p, command)
      BY <1>1 DEF StartOpen, StartOther, StartSessions
    <2>2. UNCHANGED <<file, containers, networks>> /\ pc[p] = "idle"
      BY <2>1 DEF Starts
    <2>3. /\ pc'[p] # "idle"
          /\ \A q \in Procs \ {p} : pc'[q] = pc[q]
      <3>1. Moves(p, Steps \cup {"done"})
        BY <1>0, <1>1, GoMoves, EndMoves
        DEF StartOpen, StartOther, StartSessions, First, Moves, Steps, Effective, Replies
      <3> QED
        BY <3>1 DEF Moves, Steps, Launching, Undoing, Effective
    <2>4. /\ \A q \in Procs \ {p} : desc'[q] = desc[q]
          /\ desc'[p] \in {Fresh(p), file, desc[p]}
      BY <1>0, <1>1 DEF StartOpen, StartOther, StartSessions, TypeOK
    <2>5. Fresh(p).session = p
      BY DEF Fresh
    <2> QED
      BY <2>2, <2>3, <2>4, <2>5 DEF FreshInv, Exists, Session
  <1>2. ASSUME NEW p \in Procs, Step(p) PROVE FreshInv'
    <2>1. /\ pc[p] # "idle" /\ pc'[p] # "idle"
          /\ \A q \in Procs \ {p} : pc'[q] = pc[q] /\ desc'[q] = desc[q]
      BY <1>0, <1>2, StepMoves, StepDesc DEF Moves, Steps, Launching, Undoing, Effective
    <2>2. /\ file' = file \/ file' = None \/ (desc[p] \in Descriptor /\ file' = desc[p])
          /\ \/ desc[p] \in Descriptor /\ Session(p)' = Session(p)
             \/ desc'[p] = file
          /\ \/ UNCHANGED networks
             \/ desc[p] \in Descriptor /\ networks' \subseteq networks \cup {Session(p)}
      BY <1>2, StepFiles, StepNames
    <2>3. \/ UNCHANGED containers
          \/ /\ desc[p] \in Descriptor
             /\ \A s \in Procs \ {Session(p)} : containers'[s] = containers[s]
      BY <1>0, <1>2, StepContainers, SessionType DEF TypeOK
    <2>4. SUFFICES ASSUME NEW s \in Procs, pc'[s] = "idle"
                   PROVE  /\ ~Exists(s)' /\ s \notin networks'
                          /\ file' # None => file'.session # s
                          /\ \A q \in Procs : desc'[q] # None => Session(q)' # s
      BY DEF FreshInv
    <2>5. /\ pc[s] = "idle" /\ ~Exists(s) /\ s \notin networks
          /\ file # None => file.session # s
          /\ \A q \in Procs : desc[q] # None => Session(q) # s
      BY <2>1, <2>4 DEF FreshInv
    <2>6. desc[p] \in Descriptor => Session(p) # s
      BY <2>5, NoneAssumption
    <2>7. file' # None => file'.session # s
      BY <2>2, <2>5, <2>6 DEF Session
    <2>8. ASSUME NEW q \in Procs, desc'[q] # None PROVE Session(q)' # s
      BY <2>1, <2>2, <2>5, <2>6, <2>8 DEF Session
    <2>9. ~Exists(s)' /\ s \notin networks'
      BY <2>2, <2>3, <2>5, <2>6 DEF Exists
    <2> QED
      BY <2>7, <2>8, <2>9
  <1>3. ASSUME NEW p \in Procs,
               AgentEnds(p) \/ CommandFails(p) \/ UndoFails(p) \/ TooSlow(p) \/ Kill(p)
        PROVE  FreshInv'
    <2>1. \A q \in Procs : pc'[q] = "idle" => pc[q] = "idle"
      <3>1. CASE AgentEnds(p) \/ Kill(p)
        BY <1>0, <3>1, EndMoves DEF AgentEnds, Kill, Moves, Replies, TypeOK
      <3>2. CASE CommandFails(p) \/ UndoFails(p) \/ TooSlow(p)
        <4>1. Moves(p, {"undo", "undonetwork", "undofile", "done"})
          BY <1>0, <3>2, BreaksMoves, GoMoves, EndMoves
          DEF CommandFails, UndoFails, TooSlow, Moves, Steps, Undoing, Replies
        <4> QED
          BY <4>1 DEF Moves
      <3> QED
        BY <1>3, <3>1, <3>2
    <2>2. UNCHANGED <<desc, file, networks>>
      BY <1>3 DEF AgentEnds, CommandFails, UndoFails, TooSlow, Kill
    <2>3. \/ UNCHANGED containers
          \/ /\ pc[p] = "create"
             /\ \A s \in Procs \ {Session(p)} : containers'[s] = containers[s]
      BY <1>0, <1>3 DEF AgentEnds, CommandFails, UndoFails, TooSlow, Kill, TypeOK
    <2>4. pc[p] = "create" => desc[p] # None
      BY SessionType, NoneAssumption DEF Steps, Launching
    <2> QED
      BY <2>1, <2>2, <2>3, <2>4 DEF FreshInv, Exists, Session
  <1>4. ASSUME NEW s \in Procs, ServiceUp(s) \/ ContainerExits(s) \/ ExternalRemoval(s)
        PROVE  FreshInv'
    <2>1. Exists(s) /\ UNCHANGED <<pc, desc, file, networks>>
      BY <1>4 DEF ServiceUp, ContainerExits, ExternalRemoval, Running
    <2>2. \A q \in Procs \ {s} : containers'[q] = containers[q]
      BY <1>0, <1>4 DEF ServiceUp, ContainerExits, ExternalRemoval, TypeOK
    <2> QED
      BY <2>1, <2>2 DEF FreshInv, Exists, Session
  <1>5. CASE UNCHANGED vars
    BY <1>5 DEF FreshInv, Exists, Session, vars
  <1> QED
    BY <1>1, <1>2, <1>3, <1>4, <1>5 DEF Next, Finished

-----------------------------------------------------------------------------
(* Which steps lead to a descriptor that is not saved yet.                   *)
LEMMA StepLeads ==
  ASSUME TypeInv, NEW p \in Procs, Step(p), pc'[p] \in {"new", "rotate", "pending"}
  PROVE  /\ desc[p] \in Descriptor /\ Session(p)' = Session(p)
         /\ \/ pc[p] = "rotate" /\ UNCHANGED containers
            \/ ~Exists(Session(p)) /\ UNCHANGED containers
            \/ containers'[Session(p)] = None
  <1> USE DEF engine
  <1>1. TypeOK
    BY DEF TypeInv
  <1>2. InspectReuse(p) \/ Discard(p) \/ DropClient(p)
    BY <1>1 DEF Step, LoadListed, SaveNew, SavePending, Publish, Save, StartContainer,
       EnsureNetwork, CreateNetwork, CreateContainer, AwaitEndpoint, ServiceReady,
       ServiceGone, ServiceDeadline, Undo, UndoNetwork, UndoFile, Stop, DeleteNetwork,
       ForgetClient, UnlinkFile, CheckRunning, HandDescriptor, CopyClient, RunAgent, Inspect,
       Probe, Go, End, Breaks, TypeOK
  <1>3. pc[p] \in Steps \ {"listed"}
    BY <1>2 DEF InspectReuse, Discard, DropClient, Steps, Effective
  <1>4. desc[p] \in Descriptor /\ Session(p) \in Procs
    BY <1>3, SessionType
  <1>5. Session(p)' = Session(p)
    <2>1. desc' = desc \/ desc' = [desc EXCEPT ![p] = Rotated(p, desc[p])]
      BY <1>2 DEF InspectReuse, Discard, DropClient
    <2>2. desc'[p] = desc[p] \/ desc'[p] = Rotated(p, desc[p])
      BY <1>1, <2>1 DEF TypeOK
    <2> QED
      BY <1>4, <2>2, RotatedType DEF Session
  <1>6. CASE InspectReuse(p)
    <2>1. ~Exists(Session(p))
      BY <1>1, <1>6 DEF InspectReuse, Go, TypeOK
    <2> QED
      BY <1>4, <1>5, <1>6, <2>1 DEF InspectReuse
  <1>7. CASE Discard(p)
    BY <1>1, <1>4, <1>5, <1>7 DEF Discard, RemoveContainer, TypeOK
  <1>8. CASE DropClient(p)
    BY <1>4, <1>5, <1>8 DEF DropClient
  <1> QED
    BY <1>2, <1>6, <1>7, <1>8

LEMMA CredStep ==
  ASSUME TypeInv, SequenceInv, CredInv, ~mixed, NEW p \in Procs, Step(p)
  PROVE  CredInv'
  <1>0. TypeOK /\ pc[p] \in Steps /\ p \in Live
    BY StepMoves, AtWork DEF TypeInv
  <1>1. HandInv(p) /\ (pc[p] \in {"new", "rotate", "pending"} => ~Exists(Session(p)))
    BY <1>0 DEF SequenceInv, CredInv
  <1>2. file # None /\ Exists(file.session) => Credentials(file.session)
    BY DEF CredInv
  <1>3. ASSUME file' # None, Exists(file.session)' PROVE Credentials(file.session)'
    <2>1. CASE file' # file
      <3>1. /\ pc[p] \in {"new", "pending", "publish"} /\ file' = desc[p]
            /\ UNCHANGED containers
        BY <1>3, <2>1, StepFiles
      <3>2. pc[p] = "publish"
        BY <1>1, <1>3, <3>1 DEF Exists, Session
      <3>3. file # None /\ Agree(desc[p], file)
        BY <1>1, <3>2 DEF HandInv
      <3> QED
        BY <1>2, <1>3, <3>1, <3>3 DEF Agree, Exists, Credentials
    <2>2. CASE file' = file /\ UNCHANGED containers
      BY <1>2, <1>3, <2>2 DEF Exists, Credentials
    <2>3. ASSUME file' = file, pc[p] \in Steps \ {"listed"},
                 NEW c, Touches(p, c), containers' = [containers EXCEPT ![Session(p)] = c]
          PROVE  Credentials(file.session)'
      <3>1. Session(p) \in Procs
        BY <2>3, SessionType
      <3>2. /\ containers'[Session(p)] = c
            /\ \A s \in Procs \ {Session(p)} : containers'[s] = containers[s]
        BY <1>0, <2>3, <3>1 DEF TypeOK
      <3>3. file.session \in Procs
        BY <1>0, <1>3, <2>3 DEF TypeOK, Descriptor
      <3>4. CASE file.session # Session(p)
        BY <1>2, <1>3, <2>3, <3>2, <3>3, <3>4 DEF Exists, Credentials
      <3>5. CASE file.session = Session(p)
        <4>1. c # None
          BY <1>3, <2>3, <3>2, <3>5 DEF Exists
        <4>2. pc[p] = "create" => Agree(desc[p], file)
          BY <1>1 DEF HandInv
        <4> QED
          BY <1>2, <1>3, <2>3, <3>2, <3>5, <4>1, <4>2 DEF Touches, Credentials, Agree
      <3> QED
        BY <3>4, <3>5
    <2> QED
      BY <2>1, <2>2, <2>3, StepContainers
  <1>4. ASSUME pc'[p] \in {"new", "rotate", "pending"} PROVE ~Exists(Session(p))'
    BY <1>1, <1>4, StepLeads DEF Exists
  <1>5. \A q \in Live' : q = p
    <2>1. Moves(p, (Steps \ {"listed"}) \cup {"done"})
      BY <1>0, StepMoves
    <2> QED
      BY <1>0, <2>1, StaysAlone DEF SequenceInv
  <1> QED
    BY <1>3, <1>4, <1>5 DEF CredInv

(* A change from outside leaves credentials as they are.                     *)
LEMMA CredOutside ==
  ASSUME TypeInv, CredInv, UNCHANGED <<file, mixed>>,
         \A q \in Live' : pc'[q] = "undo" \/ (q \in Live /\ pc'[q] = pc[q] /\ desc'[q] = desc[q]),
         \A s \in Procs : Exists(s)' => /\ Exists(s)
                                        /\ containers'[s].token = containers[s].token
                                        /\ containers'[s].generation = containers[s].generation
  PROVE  CredInv'
  <1> SUFFICES ASSUME ~mixed PROVE CredInv'
    BY DEF CredInv
  <1>1. file # None => file.session \in Procs
    BY DEF TypeInv, TypeOK, Descriptor
  <1>2. file' # None /\ Exists(file.session)' => Credentials(file.session)'
    BY <1>1 DEF CredInv, Exists, Credentials
  <1>3. ASSUME NEW q \in Live', pc'[q] \in {"new", "rotate", "pending"}
        PROVE  ~Exists(Session(q))'
    <2>1. q \in Live /\ pc'[q] = pc[q] /\ desc'[q] = desc[q]
      BY <1>3
    <2>2. Session(q) \in Procs /\ ~Exists(Session(q))
      BY <1>3, <2>1, SessionType DEF CredInv, Live, Steps
    <2> QED
      BY <2>1, <2>2 DEF Session, Exists
  <1> QED
    BY <1>2, <1>3 DEF CredInv

LEMMA CredNext ==
  TypeInv /\ SequenceInv /\ FreshInv /\ CredInv /\ [Next]_vars => CredInv'
  <1> SUFFICES ASSUME TypeInv, SequenceInv, FreshInv, CredInv, [Next]_vars, ~mixed'
               PROVE  CredInv'
    BY DEF CredInv
  <1> USE DEF disk, engine, cli, history
  <1>0. TypeOK
    BY DEF TypeInv
  <1>1. ASSUME NEW p \in Procs, StartOpen(p) \/ StartOther(p) \/ StartSessions(p)
        PROVE  CredInv'
    <2>1. PICK command : Starts(p, command)
      BY <1>1 DEF StartOpen, StartOther, StartSessions
    <2>2. ~mixed /\ UNCHANGED <<file, containers>> /\ pc[p] = "idle" /\ ~Exists(p)
      BY <2>1 DEF Starts, FreshInv
    <2>3. \A q \in Live' : q = p
      BY <1>1, SequenceStart
    <2>4. ASSUME pc'[p] \in {"new", "rotate", "pending"}
          PROVE  desc'[p] = Fresh(p)
      BY <1>0, <1>1, <2>4
      DEF StartOpen, StartOther, StartSessions, First, Go, End, TypeOK
    <2>5. Fresh(p).session = p
      BY DEF Fresh
    <2> QED
      BY <2>2, <2>3, <2>4, <2>5 DEF CredInv, Exists, Credentials, Session
  <1>2. ASSUME NEW p \in Procs, Step(p) PROVE CredInv'
    <2>1. ~mixed
      BY <1>2, StepEffects
    <2> QED
      BY <1>2, <2>1, CredStep
  <1>3. ASSUME NEW p \in Procs, AgentEnds(p) \/ Kill(p) PROVE CredInv'
    <2>1. /\ \A q \in Procs : pc'[q] = pc[q] \/ pc'[q] \in {"done", "dead"}
          /\ UNCHANGED <<desc, file, mixed, containers>>
      BY <1>0, <1>3, EndMoves DEF AgentEnds, Kill, Fault, Moves, Replies, TypeOK
    <2>2. \A q \in Live' : q \in Live /\ pc'[q] = pc[q]
      BY <2>1 DEF Live, Ends
    <2> QED
      BY <2>1, <2>2, CredOutside DEF Exists
  <1>4. ASSUME NEW p \in Procs, CommandFails(p) \/ UndoFails(p) \/ TooSlow(p) PROVE CredInv'
    <2>1. /\ Moves(p, {"undo", "undonetwork", "undofile", "done"}) /\ pc[p] \in Steps
          /\ UNCHANGED <<desc, file, mixed>>
      BY <1>0, <1>4, BreaksMoves, GoMoves, EndMoves
      DEF CommandFails, UndoFails, TooSlow, Fault, Moves, Steps, Launching, Undoing, Replies
    <2>2. p \in Live /\ \A q \in Live' : q = p
      BY <2>1, AtWork, StaysAlone DEF SequenceInv
    <2>3. pc'[p] \notin {"new", "rotate", "pending"}
      BY <2>1 DEF Moves
    <2>4. ASSUME file # None, Exists(file.session)' PROVE Credentials(file.session)'
      <3>1. file.session \in Procs
        BY <1>0, <2>4 DEF TypeOK, Descriptor
      <3>2. CASE UNCHANGED containers
        BY <2>1, <2>4, <3>2 DEF CredInv, Exists, Credentials
      <3>3. CASE /\ pc[p] = "create"
                 /\ containers' = [containers EXCEPT ![Session(p)] =
                                     [Created(p) EXCEPT !.running = FALSE]]
        <4>1. Agree(desc[p], file)
          BY <2>1, <2>2, <3>3 DEF SequenceInv, HandInv
        <4>2. containers'[file.session] = [Created(p) EXCEPT !.running = FALSE]
          BY <1>0, <3>1, <3>3, <4>1 DEF Agree, Session, TypeOK
        <4>3. /\ containers'[file.session].token = desc[p].token
              /\ containers'[file.session].generation = desc[p].generation
          BY <4>2 DEF Created
        <4> QED
          BY <2>1, <4>1, <4>3 DEF Agree, Credentials
      <3> QED
        BY <1>4, <3>2, <3>3 DEF CommandFails, UndoFails, TooSlow
    <2> QED
      BY <2>1, <2>2, <2>3, <2>4 DEF CredInv
  <1>5. ASSUME NEW s \in Procs, ServiceUp(s) \/ ContainerExits(s) \/ ExternalRemoval(s)
        PROVE  CredInv'
    <2>1. Exists(s) /\ UNCHANGED <<pc, desc, file, mixed>>
      BY <1>5 DEF ServiceUp, ContainerExits, ExternalRemoval, Fault, Running
    <2>2. \A q \in Procs \ {s} : containers'[q] = containers[q]
      BY <1>0, <1>5 DEF ServiceUp, ContainerExits, ExternalRemoval, TypeOK
    <2>3. containers'[s] \in {None, Stopped(s), [containers[s] EXCEPT !.up = TRUE]}
      BY <1>0, <1>5 DEF ServiceUp, ContainerExits, ExternalRemoval, TypeOK
    <2>4. \A q \in Live' : q \in Live /\ pc'[q] = pc[q] /\ desc'[q] = desc[q]
      BY <2>1 DEF Live
    <2>5. \A q \in Procs : Exists(q)' => /\ Exists(q)
                                         /\ containers'[q].token = containers[q].token
                                         /\ containers'[q].generation = containers[q].generation
      <3>1. \A c \in {Stopped(s), [containers[s] EXCEPT !.up = TRUE]} :
              c.token = containers[s].token /\ c.generation = containers[s].generation
        BY <2>1, SameCredentials
      <3>2. Exists(s)' => /\ containers'[s].token = containers[s].token
                          /\ containers'[s].generation = containers[s].generation
        BY <2>3, <3>1 DEF Exists
      <3> QED
        BY <2>1, <2>2, <3>2 DEF Exists
    <2> QED
      BY <2>1, <2>4, <2>5, CredOutside
  <1>6. CASE UNCHANGED vars
    BY <1>6 DEF CredInv, Exists, Credentials, Session, Live, vars
  <1> QED
    BY <1>1, <1>2, <1>3, <1>4, <1>5, <1>6 DEF Next, Finished

-----------------------------------------------------------------------------
(* A step of a command that was never disturbed, up to where it leads.       *)
Alone(p) == /\ TypeInv /\ SequenceInv /\ CredInv
            /\ p \in Live /\ FoundInv(p)

(* Going on with nothing changed but the place.                              *)
Unmoved == UNCHANGED <<doing, desc, file, containers, networks, mixed>>

LEMMA FoundCommand ==
  ASSUME NEW p \in Procs, Alone(p),
         \/ LoadListed(p) \/ InspectReuse(p) \/ DropClient(p) \/ Discard(p) \/ DeleteNetwork(p)
         \/ ForgetClient(p) \/ UnlinkFile(p) \/ Stop(p) \/ CheckRunning(p) \/ HandDescriptor(p)
         \/ CopyClient(p) \/ RunAgent(p) \/ Inspect(p) \/ Probe(p)
  PROVE  p \in Live' => FoundInv(p)'
  <1> USE DEF disk, engine, history
  <1>0. TypeOK /\ FoundInv(p)
    BY DEF Alone, TypeInv
  <1>1. CASE LoadListed(p)
    <2>1. pc'[p] \in {"inspect", "done", "dead"} /\ doing'[p] = "sessions"
      BY <1>0, <1>1 DEF LoadListed, Go, End, FoundInv, TypeOK
    <2> QED
      BY <2>1 DEF FoundInv, Live, Ends, Undoing
  <1>2. CASE InspectReuse(p) /\ Exists(Session(p))
    <2>1. /\ pc'[p] \in {"endpoint", "start", "dead"}
          /\ pc'[p] = "endpoint" => Running(Session(p))
          /\ doing[p] = "open" /\ Unmoved /\ pc[p] = "reuse"
      BY <1>0, <1>2 DEF InspectReuse, Go, FoundInv, TypeOK, Unmoved
    <2>2. ~mixed => /\ containers[Session(p)].token = desc[p].token
                    /\ containers[Session(p)].generation = desc[p].generation
      <3> SUFFICES ASSUME ~mixed
                   PROVE  /\ containers[Session(p)].token = desc[p].token
                          /\ containers[Session(p)].generation = desc[p].generation
        OBVIOUS
      <3>1. HandInv(p) /\ CredInv
        BY DEF Alone, SequenceInv
      <3>2. file # None /\ Agree(desc[p], file)
        BY <2>1, <3>1 DEF HandInv
      <3> QED
        BY <1>2, <3>1, <3>2 DEF CredInv, Credentials, Agree, Session
    <2> QED
      BY <1>2, <2>1, <2>2
      DEF FoundInv, Live, Ends, Undoing, Unmoved, Exists, Running, Session
  <1>3. CASE \/ InspectReuse(p) /\ ~Exists(Session(p))
             \/ DropClient(p)
             \/ Discard(p)
    <2>1. pc'[p] \in {"rotate", "pending", "rmnetwork", "dead"}
      BY <1>0, <1>3 DEF InspectReuse, DropClient, Discard, Go, TypeOK
    <2>2. pc'[p] = "rmnetwork" => doing'[p] = "delete" /\ ~Exists(Session(p))'
      <3> SUFFICES ASSUME pc'[p] = "rmnetwork"
                   PROVE  doing'[p] = "delete" /\ ~Exists(Session(p))'
        OBVIOUS
      <3>1. Discard(p) /\ doing[p] # "reset"
        BY <1>0, <1>3 DEF InspectReuse, DropClient, Discard, Go, TypeOK
      <3>2. doing'[p] = "delete" /\ UNCHANGED desc
        BY <1>0, <3>1 DEF Discard, FoundInv
      <3>3. Session(p) \in Procs
        BY <3>1, SessionType DEF Alone, Discard, Steps, Effective
      <3> QED
        BY <1>0, <3>1, <3>2, <3>3 DEF Discard, RemoveContainer, Exists, Session, TypeOK
    <2>3. pc'[p] \in {"rotate", "pending"} => ~Exists(Session(p))'
      <3> SUFFICES ASSUME pc'[p] \in {"rotate", "pending"} PROVE ~Exists(Session(p))'
        OBVIOUS
      <3>1. Step(p)
        BY <1>3 DEF Step
      <3>2. pc[p] = "rotate" => ~Exists(Session(p))
        BY <1>0 DEF FoundInv
      <3> QED
        BY <3>1, <3>2, StepLeads DEF Alone, Exists
    <2> QED
      BY <2>1, <2>2, <2>3 DEF FoundInv, Live, Ends, Undoing
  <1>4. CASE DeleteNetwork(p) \/ ForgetClient(p) \/ UnlinkFile(p) \/ Stop(p)
    <2>1. pc'[p] \in {"forget", "unlink", "done", "dead"}
      BY <1>0, <1>4 DEF DeleteNetwork, ForgetClient, UnlinkFile, Stop, Go, End, TypeOK
    <2> QED
      BY <2>1 DEF FoundInv, Live, Ends, Undoing
  <1>5. CASE CheckRunning(p) \/ HandDescriptor(p) \/ CopyClient(p) \/ RunAgent(p)
    <2>1. pc'[p] \in {"hand", "copy", "attach", "agent", "done", "dead"} /\ doing'[p] = "run"
      BY <1>0, <1>5
      DEF CheckRunning, HandDescriptor, CopyClient, RunAgent, Go, End, FoundInv, TypeOK
    <2> QED
      BY <2>1 DEF FoundInv, Live, Ends, Undoing
  <1>6. CASE Inspect(p) \/ Probe(p)
    <2>1. /\ pc'[p] \in {"probe", "done", "dead"}
          /\ pc'[p] = "probe" => doing'[p] = "status"
      BY <1>0, <1>6 DEF Inspect, Probe, Go, End, FoundInv, TypeOK
    <2> QED
      BY <2>1 DEF FoundInv, Live, Ends, Undoing
  <1> QED
    BY <1>1, <1>2, <1>3, <1>4, <1>5, <1>6

LEMMA FoundLaunch ==
  ASSUME NEW p \in Procs, Alone(p),
         \/ SaveNew(p) \/ SavePending(p) \/ Publish(p) \/ StartContainer(p) \/ EnsureNetwork(p)
         \/ CreateNetwork(p) \/ CreateContainer(p) \/ AwaitEndpoint(p)
  PROVE  p \in Live' => FoundInv(p)'
  <1> USE DEF disk, engine, history
  <1>0. TypeOK /\ FoundInv(p)
    BY DEF Alone, TypeInv
  <1>1. desc[p] \in Descriptor /\ Session(p) \in Procs
    BY SessionType DEF Alone, SaveNew, SavePending, Publish, StartContainer, EnsureNetwork,
       CreateNetwork, CreateContainer, AwaitEndpoint, Steps, Launching, Effective
  <1>2. CASE SaveNew(p) \/ SavePending(p)
    <2>1. /\ pc'[p] \in {"network", "dead"} /\ ~Exists(Session(p))
          /\ UNCHANGED <<desc, containers>>
      BY <1>0, <1>2 DEF SaveNew, SavePending, Save, Go, FoundInv, TypeOK
    <2> QED
      BY <2>1 DEF FoundInv, Live, Ends, Undoing, Exists, Session
  <1>3. CASE Publish(p)
    <2>1. /\ pc'[p] \in {"service", "dead"} /\ pc[p] = "publish"
          /\ UNCHANGED <<doing, desc, containers, mixed>> /\ file' = desc[p]
      BY <1>0, <1>3 DEF Publish, Save, Go, TypeOK
    <2> QED
      BY <1>0, <2>1 DEF FoundInv, Live, Ends, Undoing, Exists, Running, Session
  <1>4. CASE EnsureNetwork(p)
    <2>1. /\ pc'[p] \in {"create", "addnetwork", "dead"} /\ ~Exists(Session(p))
          /\ pc'[p] = "create" => Session(p) \in networks
          /\ pc'[p] = "addnetwork" => Session(p) \notin networks
          /\ Unmoved
      BY <1>0, <1>4 DEF EnsureNetwork, Go, FoundInv, TypeOK, Unmoved
    <2> QED
      BY <2>1 DEF FoundInv, Live, Ends, Undoing, Exists, Session, Unmoved
  <1>5. CASE CreateNetwork(p)
    <2>1. /\ pc'[p] \in {"create", "dead"} /\ ~Exists(Session(p))
          /\ networks' = networks \cup {Session(p)} /\ UNCHANGED <<desc, containers>>
      BY <1>0, <1>5 DEF CreateNetwork, Go, FoundInv, TypeOK
    <2> QED
      BY <2>1 DEF FoundInv, Live, Ends, Undoing, Exists, Session
  <1>6. CASE CreateContainer(p)
    <2>1. /\ pc'[p] \in {"endpoint", "dead"} /\ UNCHANGED <<doing, desc, mixed>>
          /\ containers' = [containers EXCEPT ![Session(p)] = Created(p)]
      BY <1>0, <1>6 DEF CreateContainer, Go, FoundInv, TypeOK
    <2>2. Created(p) # None
      BY <1>6, CreatedType, NoneAssumption DEF Alone, CreateContainer, Steps, Launching
    <2>3. containers'[Session(p)] = Created(p) /\ Session(p)' = Session(p)
      BY <1>0, <1>1, <2>1 DEF TypeOK, Session
    <2>4. /\ Created(p).running /\ Created(p).token = desc[p].token
          /\ Created(p).generation = desc[p].generation
      BY DEF Created
    <2> QED
      BY <2>1, <2>2, <2>3, <2>4 DEF FoundInv, Live, Ends, Undoing, Exists, Running
  <1>7. CASE StartContainer(p)
    <2> DEFINE s == Session(p)
    <2>1. /\ pc'[p] \in {"endpoint", "dead"} /\ UNCHANGED <<doing, desc, mixed>>
          /\ containers' = IF Running(s) THEN containers
                           ELSE [containers EXCEPT ![s] = Started(s, p)]
          /\ Exists(s) /\ pc[p] = "start"
      BY <1>0, <1>7 DEF StartContainer, Go, FoundInv, TypeOK
    <2>2. /\ Started(s, p) \in Container /\ Started(s, p) # None /\ Started(s, p).running
          /\ Started(s, p).token = containers[s].token
          /\ Started(s, p).generation = containers[s].generation
      <3>1. containers[s] \in Container
        BY <1>0, <1>1, <2>1 DEF TypeOK, Exists
      <3>2. Started(s, p) \in Container
        BY <1>1, <2>1, ChangedContainer DEF Alone
      <3> QED
        BY <3>1, <3>2, NoneAssumption DEF Started, Container
    <2>3. /\ containers'[s] # None /\ containers'[s].running
          /\ containers'[s].token = containers[s].token
          /\ containers'[s].generation = containers[s].generation
      <3>1. CASE Running(s)
        BY <2>1, <3>1 DEF Running, Exists
      <3>2. CASE ~Running(s)
        <4>1. containers'[s] = Started(s, p)
          BY <1>0, <1>1, <2>1, <3>2 DEF TypeOK
        <4> QED
          BY <2>2, <4>1
      <3> QED
        BY <3>1, <3>2
    <2>4. Session(p)' = s
      BY <2>1 DEF Session
    <2> QED
      BY <1>0, <2>1, <2>3, <2>4 DEF FoundInv, Live, Ends, Undoing, Exists, Running
  <1>8. CASE AwaitEndpoint(p)
    <2> DEFINE s == Session(p)
    <2>1. /\ pc'[p] \in {"publish", "dead"} /\ UNCHANGED <<doing, containers, mixed>>
          /\ desc'[p] = [desc[p] EXCEPT !.endpoint = containers[s].endpoint]
          /\ pc[p] = "endpoint" /\ Running(s)
      BY <1>0, <1>8 DEF AwaitEndpoint, Go, FoundInv, TypeOK
    <2>2. /\ Session(p)' = s /\ desc'[p].token = desc[p].token
          /\ desc'[p].generation = desc[p].generation
          /\ desc'[p].endpoint = containers[s].endpoint
      BY <1>1, <2>1 DEF Session, Descriptor
    <2> QED
      BY <1>0, <2>1, <2>2 DEF FoundInv, Live, Ends, Undoing, Exists, Running
  <1> QED
    BY <1>2, <1>3, <1>4, <1>5, <1>6, <1>7, <1>8

(* A deadline passes only for an open that took over a container of the past. *)
LEMMA FoundService ==
  ASSUME NEW p \in Procs, Alone(p)
  PROVE  /\ ServiceReady(p) => pc'[p] \in {"done", "dead"}
         /\ ~ServiceGone(p)
         /\ ServiceDeadline(p) => doing[p] = "open" /\ mixed /\ pc'[p] \in {"done", "dead"}
         /\ ~(Undo(p) \/ UndoNetwork(p) \/ UndoFile(p))
  <1>0. TypeOK /\ FoundInv(p)
    BY DEF Alone, TypeInv
  <1>1. ServiceReady(p) => pc'[p] \in {"done", "dead"}
    BY <1>0 DEF ServiceReady, End, TypeOK
  <1>2. ~ServiceGone(p)
    BY <1>0 DEF ServiceGone, FoundInv
  <1>3. ASSUME ServiceDeadline(p)
        PROVE  doing[p] = "open" /\ mixed /\ pc'[p] \in {"done", "dead"}
    <2>1. doing[p] = "open" /\ mixed
      BY <1>0, <1>3 DEF ServiceDeadline, GivesUp, Reaches, FoundInv, Session
    <2>2. End(p, "failed")
      BY <1>3, <2>1 DEF ServiceDeadline, Breaks
    <2> QED
      BY <1>0, <2>1, <2>2 DEF End, TypeOK
  <1>4. ~(Undo(p) \/ UndoNetwork(p) \/ UndoFile(p))
    BY <1>0 DEF Undo, UndoNetwork, UndoFile, FoundInv, Undoing
  <1> QED
    BY <1>1, <1>2, <1>3, <1>4

LEMMA FoundStep ==
  ASSUME NEW p \in Procs, Alone(p), Step(p)
  PROVE  p \in Live' => FoundInv(p)'
  <1>1. CASE pc'[p] \in {"done", "dead"}
    BY <1>1 DEF Live, Ends
  <1> QED
    BY <1>1, FoundCommand, FoundLaunch, FoundService DEF Step

(* What a command that starts has found.                                    *)
LEMMA FoundStart ==
  ASSUME TypeInv, FreshInv, NEW p \in Procs,
         StartOpen(p) \/ StartOther(p) \/ StartSessions(p), p \in Live'
  PROVE  FoundInv(p)'
  <1> USE DEF disk, engine
  <1>0. TypeOK
    BY DEF TypeInv
  <1>1. CASE StartOpen(p)
    <2>1. /\ pc'[p] \in {"new", "reuse"}
          /\ pc'[p] = "new" => desc'[p] = Fresh(p)
          /\ pc'[p] = "reuse" => doing'[p] = "open"
          /\ UNCHANGED containers /\ ~Exists(p)
      BY <1>0, <1>1 DEF StartOpen, Starts, Go, End, Live, Ends, FreshInv, TypeOK
    <2>2. Fresh(p).session = p
      BY DEF Fresh
    <2> QED
      BY <2>1, <2>2 DEF FoundInv, Undoing, Exists, Session
  <1>2. CASE StartOther(p)
    <2>1. \/ pc'[p] = "stop"
          \/ pc'[p] = "discard" /\ doing'[p] \in {"reset", "delete"}
          \/ pc'[p] = "check" /\ doing'[p] = "run"
          \/ pc'[p] = "inspect" /\ doing'[p] = "status"
      BY <1>0, <1>2 DEF StartOther, First, Go, End, Live, Ends, TypeOK
    <2> QED
      BY <2>1 DEF FoundInv, Undoing
  <1>3. CASE StartSessions(p)
    <2>1. pc'[p] = "listed" /\ doing'[p] = "sessions"
      BY <1>0, <1>3 DEF StartSessions, Go, End, Live, Ends, TypeOK
    <2> QED
      BY <2>1 DEF FoundInv, Undoing
  <1> QED
    BY <1>1, <1>2, <1>3

LEMMA UndisturbedNext ==
  TypeInv /\ SequenceInv /\ FreshInv /\ CredInv /\ UndisturbedInv /\ [Next]_vars
    => UndisturbedInv'
  <1> SUFFICES ASSUME TypeInv, SequenceInv, FreshInv, CredInv, UndisturbedInv, [Next]_vars
               PROVE  UndisturbedInv'
    OBVIOUS
  <1> USE DEF disk, engine, cli, history
  <1>0. TypeOK
    BY DEF TypeInv
  <1>1. ASSUME NEW p \in Procs, StartOpen(p) \/ StartOther(p) \/ StartSessions(p)
        PROVE  UndisturbedInv'
    <2>1. PICK command : Starts(p, command)
      BY <1>1 DEF StartOpen, StartOther, StartSessions
    <2>2. Moves(p, Steps \cup {"done"})
      BY <1>0, <1>1, GoMoves, EndMoves
      DEF StartOpen, StartOther, StartSessions, First, Moves, Steps, Effective, Replies
    <2>3. pc'[p] # "idle" /\ \A q \in Procs \ {p} : pc'[q] = pc[q]
      BY <2>2 DEF Moves, Steps, Launching, Undoing, Effective
    <2>4. p \notin undisturbed
      BY <2>1 DEF Starts, UndisturbedInv
    <2>5. ASSUME NEW q \in undisturbed'
          PROVE  \/ q = p /\ Live = {}
                 \/ q \in undisturbed \ Live
      BY <2>1, <2>5 DEF Starts
    <2>6. ASSUME NEW q \in undisturbed', q # p
          PROVE  pc'[q] # "idle" /\ q \notin Live'
      BY <1>0, <2>3, <2>5, <2>6 DEF UndisturbedInv, Live, TypeOK
    <2>7. p \in undisturbed' => Live' \subseteq {p}
      BY <2>3, <2>4, <2>5 DEF Live
    <2> QED
      BY <1>1, <2>3, <2>6, <2>7, FoundStart DEF UndisturbedInv
  <1>2. ASSUME NEW p \in Procs, Step(p) PROVE UndisturbedInv'
    <2>1. /\ pc[p] # "idle" /\ pc'[p] # "idle" /\ p \in Live /\ Live' \subseteq Live
          /\ \A q \in Procs \ {p} : pc'[q] = pc[q]
          /\ UNCHANGED undisturbed
      BY <1>0, <1>2, StepMoves, StepEffects, AtWork
      DEF Moves, Live, Steps, Launching, Undoing, Effective
    <2>2. ASSUME NEW q \in undisturbed, q \in Live'
          PROVE  q = p /\ FoundInv(p) /\ \A r \in Live' : r = q
      BY <2>1, <2>2 DEF UndisturbedInv
    <2>3. ASSUME NEW q \in undisturbed, q \in Live' PROVE FoundInv(q)'
      BY <1>2, <2>1, <2>2, <2>3, FoundStep DEF Alone
    <2>4. ASSUME NEW q \in undisturbed PROVE pc'[q] # "idle"
      BY <1>0, <2>1, <2>4 DEF UndisturbedInv, TypeOK
    <2> QED
      BY <2>1, <2>2, <2>3, <2>4 DEF UndisturbedInv
  <1>3. ASSUME \A q \in Procs : pc'[q] = pc[q] \/ pc'[q] \in {"done", "dead"},
               UNCHANGED <<doing, desc, file, networks, mixed, undisturbed>>,
               \A s \in Procs : /\ Exists(s)' = Exists(s) /\ Running(s)' = Running(s)
                                /\ Exists(s) => \A f \in {"token", "generation", "endpoint"} :
                                                  containers'[s][f] = containers[s][f]
        PROVE  UndisturbedInv'
    <2>1. ASSUME NEW q \in undisturbed
          PROVE  /\ pc'[q] # "idle"
                 /\ q \in Live' => q \in Live /\ pc'[q] = pc[q]
      BY <1>0, <1>3, <2>1 DEF UndisturbedInv, Live, Ends, TypeOK
    <2>2. Live' \subseteq Live
      BY <1>3 DEF Live, Ends
    <2>3. ASSUME NEW q \in undisturbed, q \in Live' PROVE FoundInv(q)'
      <3>1. /\ q \in Procs /\ pc'[q] = pc[q] /\ FoundInv(q) /\ Session(q)' = Session(q)
            /\ doing'[q] = doing[q] /\ desc'[q] = desc[q]
        BY <1>0, <1>3, <2>1, <2>3 DEF UndisturbedInv, Session, TypeOK
      <3>2. pc[q] # "listed" => Session(q) \in Procs
        BY <2>1, <2>3, <3>1, SessionType DEF TypeInv, TypeOK, Live
      <3>3. pc[q] # "listed" =>
              /\ Exists(Session(q))' = Exists(Session(q))
              /\ Running(Session(q))' = Running(Session(q))
              /\ Exists(Session(q)) =>
                   /\ containers'[Session(q)].token = containers[Session(q)].token
                   /\ containers'[Session(q)].generation = containers[Session(q)].generation
                   /\ containers'[Session(q)].endpoint = containers[Session(q)].endpoint
        BY <1>3, <3>1, <3>2 DEF Exists, Running
      <3> QED
        BY <1>3, <3>1, <3>3 DEF FoundInv, Undoing, Running
    <2> QED
      BY <1>3, <2>1, <2>2, <2>3 DEF UndisturbedInv
  <1>4. ASSUME NEW p \in Procs, AgentEnds(p) PROVE UndisturbedInv'
    <2>1. \A q \in Procs : pc'[q] = pc[q] \/ pc'[q] \in {"done", "dead"}
      BY <1>0, <1>4, EndMoves DEF AgentEnds, Moves, Replies
    <2> QED
      BY <1>3, <1>4, <2>1 DEF AgentEnds, Exists, Running
  <1>5. ASSUME NEW s \in Procs, ServiceUp(s) PROVE UndisturbedInv'
    <2>1. containers[s] \in Container /\ Exists(s)
      BY <1>0, <1>5 DEF ServiceUp, Running, Exists, TypeOK
    <2>2. /\ containers'[s] = [containers[s] EXCEPT !.up = TRUE]
          /\ \A q \in Procs \ {s} : containers'[q] = containers[q]
      BY <1>0, <1>5 DEF ServiceUp, TypeOK
    <2>3. containers'[s] # None
      BY <1>5, <2>1, <2>2, ChangedContainer, NoneAssumption
    <2>4. /\ containers'[s].running = containers[s].running
          /\ \A f \in {"token", "generation", "endpoint"} :
               containers'[s][f] = containers[s][f]
      BY <2>1, <2>2 DEF Container
    <2> QED
      BY <1>3, <1>5, <2>1, <2>2, <2>3, <2>4 DEF ServiceUp, Exists, Running
  <1>6. ASSUME undisturbed' = undisturbed \ Live, Live' \subseteq Live,
               \A q \in Procs : pc'[q] = "idle" => pc[q] = "idle"
        PROVE  UndisturbedInv'
    BY <1>0, <1>6 DEF UndisturbedInv, TypeOK
  <1>7. ASSUME NEW p \in Procs, CommandFails(p) \/ UndoFails(p) \/ TooSlow(p) \/ Kill(p)
        PROVE  UndisturbedInv'
    <2>1. undisturbed' = undisturbed \ Live
      BY <1>7 DEF CommandFails, UndoFails, TooSlow, Kill, Fault
    <2>2. CASE Kill(p)
      BY <1>0, <1>6, <2>1, <2>2 DEF Kill, Live, Ends, TypeOK
    <2>3. CASE CommandFails(p) \/ UndoFails(p) \/ TooSlow(p)
      <3>1. Moves(p, {"undo", "undonetwork", "undofile", "done"}) /\ pc[p] \in Steps
        BY <1>0, <2>3, BreaksMoves, GoMoves, EndMoves
        DEF CommandFails, UndoFails, TooSlow, Moves, Steps, Launching, Undoing, Replies
      <3>2. p \in Live
        BY <3>1, AtWork
      <3> QED
        BY <1>6, <2>1, <3>1, <3>2 DEF Moves, Live
    <2> QED
      BY <1>7, <2>2, <2>3
  <1>8. ASSUME NEW s \in Procs, ContainerExits(s) \/ ExternalRemoval(s) PROVE UndisturbedInv'
    BY <1>6, <1>8 DEF ContainerExits, ExternalRemoval, Fault, Live
  <1>9. CASE UNCHANGED vars
    BY <1>9 DEF UndisturbedInv, FoundInv, Exists, Running, Session, Live, vars
  <1> QED
    BY <1>1, <1>2, <1>4, <1>5, <1>7, <1>8, <1>9 DEF Next, Finished

-----------------------------------------------------------------------------
LEMMA UndisturbedCorrect ==
  Spec => [](TypeInv /\ SequenceInv /\ FreshInv /\ CredInv /\ UndisturbedInv)
  <1>1. Init => TypeInv /\ SequenceInv /\ FreshInv /\ CredInv /\ UndisturbedInv
    BY TypeInit, SequenceInit, UndisturbedInit
  <1>2. TypeInv /\ SequenceInv /\ FreshInv /\ CredInv /\ UndisturbedInv /\ [Next]_vars
          => (TypeInv /\ SequenceInv /\ FreshInv /\ CredInv /\ UndisturbedInv)'
    BY TypeNext, SequenceNext, FreshNext, CredNext, UndisturbedNext
  <1> QED
    BY <1>1, <1>2, PTL DEF Spec

(* Who answers its user, and where it stands then.                          *)
LEMMA Answers ==
  ASSUME TypeInv, UndisturbedInv, Next,
         NEW p \in undisturbed', reply[p] = "none", reply'[p] \in {"ready", "failed"}
  PROVE  \/ StartOpen(p) \/ StartOther(p) \/ Step(p) \/ AgentEnds(p)
  <1> USE DEF disk, engine, cli, history
  <1>0. TypeOK /\ p \in Procs
    BY TypeNext DEF TypeInv, TypeOK
  <1>1. CASE UNCHANGED reply
    BY <1>1
  <1>2. ASSUME NEW q \in Procs,
               \/ StartOpen(q) \/ StartOther(q) \/ StartSessions(q) \/ Step(q) \/ AgentEnds(q),
               q # p
        PROVE  FALSE
    <2>1. reply'[p] = reply[p]
      BY <1>0, <1>2
      DEF StartOpen, StartOther, StartSessions, Step, AgentEnds, LoadListed, SaveNew, SavePending,
          Publish, Save, InspectReuse, DropClient, StartContainer, EnsureNetwork,
          CreateNetwork, CreateContainer, AwaitEndpoint, ServiceReady, ServiceGone,
          ServiceDeadline, Undo, UndoNetwork, UndoFile, Stop, Discard, DeleteNetwork,
          ForgetClient, UnlinkFile, CheckRunning, HandDescriptor, CopyClient, RunAgent,
          Inspect, Probe, Go, End, Breaks, TypeOK
    <2> QED
      BY <2>1
  <1>3. ASSUME StartSessions(p) PROVE FALSE
    BY <1>0, <1>3 DEF StartSessions, Go, End, TypeOK
  <1>4. ASSUME NEW q \in Procs, CommandFails(q) \/ UndoFails(q) \/ TooSlow(q) \/ Kill(q)
        PROVE  FALSE
    <2>1. p \notin Live
      BY <1>4 DEF CommandFails, UndoFails, TooSlow, Kill, Fault
    <2>2. \/ UNCHANGED reply
          \/ q \in Live /\ reply' = [reply EXCEPT ![q] = "failed"]
      BY <1>4, AtWork
      DEF CommandFails, UndoFails, TooSlow, Kill, Breaks, Go, End, Steps, Launching, Undoing
    <2> QED
      BY <1>0, <2>1, <2>2 DEF TypeOK
  <1> QED
    BY <1>0, <1>1, <1>2, <1>3, <1>4
    DEF Next, Finished, ServiceUp, ContainerExits, ExternalRemoval, vars

(* When a command that was never disturbed reports ready, the descriptor on    *)
(* disk is the one whose runtime has just answered.                          *)
THEOREM ReadyCorrect == Spec => ReadyIsPublished
  <1> DEFINE Published ==
        \A p \in undisturbed' : reply[p] = "none" /\ reply'[p] = "ready" =>
          file = desc[p] /\ Serves(file)
  <1>1. TypeInv /\ UndisturbedInv /\ Next => Published
    <2> SUFFICES ASSUME TypeInv, UndisturbedInv, Next,
                        NEW p \in undisturbed', reply[p] = "none", reply'[p] = "ready"
                 PROVE  file = desc[p] /\ Serves(file)
      OBVIOUS
    <2>1. StartOpen(p) \/ StartOther(p) \/ Step(p) \/ AgentEnds(p)
      BY Answers
    <2>2. TypeOK /\ p \in Procs
      BY TypeNext DEF TypeInv, TypeOK
    <2>3. ServiceReady(p)
      BY <2>1, <2>2
      DEF StartOpen, StartOther, AgentEnds, Step, LoadListed, SaveNew, SavePending,
          Publish, Save, InspectReuse, DropClient, StartContainer, EnsureNetwork,
          CreateNetwork, CreateContainer, AwaitEndpoint, ServiceGone,
          ServiceDeadline, Undo, UndoNetwork, UndoFile, Stop, Discard, DeleteNetwork,
          ForgetClient, UnlinkFile, CheckRunning, HandDescriptor, CopyClient, RunAgent,
          Inspect, Probe, Go, End, Breaks, TypeOK
    <2>4. p \in undisturbed /\ p \in Live /\ pc[p] = "service"
      BY <2>2, <2>3 DEF ServiceReady, history, Live, Ends
    <2>5. file = desc[p]
      BY <2>4 DEF UndisturbedInv, FoundInv
    <2> QED
      BY <2>3, <2>5 DEF ServiceReady
  <1>2. TypeInv /\ UndisturbedInv /\ [Next]_vars => [Published]_vars
    BY <1>1
  <1> QED
    BY UndisturbedCorrect, <1>2, PTL DEF Spec, ReadyIsPublished

(* A command that was never disturbed fails only for the reasons it names.    *)
THEOREM SucceedsCorrect == Spec => UndisturbedSucceeds
  <1> DEFINE Reason(p) ==
        \/ doing'[p] \in {"run", "status"}
        \/ desc'[p] = None
        \/ doing'[p] = "delete" /\ Session(p) \in networks
        \/ doing'[p] = "open" /\ (mixed \/ p \in Gpu)
  <1>1. TypeInv /\ SequenceInv /\ CredInv /\ UndisturbedInv /\ Next =>
          \A p \in undisturbed' : reply[p] = "none" /\ reply'[p] = "failed" => Reason(p)
    <2> SUFFICES ASSUME TypeInv, SequenceInv, CredInv, UndisturbedInv, Next,
                        NEW p \in undisturbed', reply[p] = "none", reply'[p] = "failed"
                 PROVE  Reason(p)
      OBVIOUS
    <2>1. StartOpen(p) \/ StartOther(p) \/ Step(p) \/ AgentEnds(p)
      BY Answers
    <2>2. TypeOK /\ p \in Procs
      BY TypeNext DEF TypeInv, TypeOK
    <2>3. CASE StartOpen(p)
      BY <2>2, <2>3 DEF StartOpen, Go, End, TypeOK
    <2>4. CASE StartOther(p)
      BY <2>2, <2>4 DEF StartOther, Go, TypeOK
    <2>5. ASSUME p \in Live, p \in undisturbed PROVE Alone(p)
      BY <2>5 DEF Alone, UndisturbedInv
    <2>6. CASE AgentEnds(p)
      <3>1. pc[p] = "agent" /\ p \in Live /\ UNCHANGED <<doing, undisturbed>>
        BY <2>2, <2>6 DEF AgentEnds, history, Live, Ends
      <3> QED
        BY <3>1 DEF UndisturbedInv, FoundInv
    <2>7. CASE Step(p)
      <3>1. p \in Live /\ p \in undisturbed /\ Alone(p) /\ FoundInv(p)
        BY <2>2, <2>5, <2>7, StepMoves, StepEffects, AtWork DEF Alone
      <3>2. \/ LoadListed(p) \/ ServiceDeadline(p) \/ DeleteNetwork(p)
            \/ CheckRunning(p) \/ CopyClient(p) \/ RunAgent(p) \/ Probe(p)
        BY <2>2, <2>7, <3>1, FoundService
        DEF Step, SaveNew, SavePending, Publish, Save, InspectReuse, DropClient, StartContainer,
            EnsureNetwork, CreateNetwork, CreateContainer, AwaitEndpoint, ServiceReady,
            Stop, Discard, ForgetClient, UnlinkFile, HandDescriptor, Inspect, Go, End, FoundInv,
            TypeOK
      <3>3. CASE LoadListed(p)
        BY <2>2, <3>3 DEF LoadListed, Go, TypeOK
      <3>4. CASE ServiceDeadline(p)
        BY <2>2, <3>1, <3>4, FoundService DEF ServiceDeadline
      <3>5. CASE DeleteNetwork(p)
        BY <2>2, <3>1, <3>5 DEF DeleteNetwork, Go, FoundInv, TypeOK
      <3>6. CASE CheckRunning(p) \/ CopyClient(p) \/ RunAgent(p) \/ Probe(p)
        BY <2>2, <3>1, <3>6 DEF CheckRunning, CopyClient, RunAgent, Probe, FoundInv
      <3> QED
        BY <3>2, <3>3, <3>4, <3>5, <3>6
    <2> QED
      BY <2>1, <2>3, <2>4, <2>6, <2>7
  <1>2. TypeInv /\ SequenceInv /\ CredInv /\ UndisturbedInv /\ [Next]_vars =>
          [\A p \in undisturbed' : reply[p] = "none" /\ reply'[p] = "failed" => Reason(p)]_vars
    BY <1>1
  <1> QED
    BY UndisturbedCorrect, <1>2, PTL DEF Spec, UndisturbedSucceeds

=============================================================================
