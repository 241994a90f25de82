--------------------------- MODULE SessionLifecycle ---------------------------
(***************************************************************************)
(* The session commands of the command line: open, stop, reset, delete,    *)
(* run, status and sessions, each a process of its own, on one session     *)
(* name.  Nothing locks the name.  The processes meet in the state         *)
(* directory (sessions/NAME.json and clients/NAME.json, each replaced by   *)
(* one atomic rename) and in the container engine, whose every command is   *)
(* a program they run and wait for.                                        *)
(*                                                                         *)
(* A step is one file operation or one engine command, with what the       *)
(* process computes up to the next one.  A process may be killed between   *)
(* or within its steps; an engine command in flight then still completes.  *)
(***************************************************************************)
EXTENDS Naturals, FiniteSets

CONSTANTS Procs,      \* the CLI processes
          None,       \* no descriptor, no container, no endpoint
          Commands,   \* the commands that are given
          Gpu,        \* the processes started with --gpu
          Faults,     \* what may go wrong: "command", "slow", "kill", "exit", "removal"
          MaxFaults   \* bound: how many times in a run

ASSUME CommandsAssumption ==
  Commands \subseteq {"open", "stop", "reset", "delete", "run", "status", "sessions"}
ASSUME FaultsAssumption == MaxFaults \in Nat

VARIABLES
  pc,           \* what each process does next
  doing,        \* its command; "open" turns into "new" or "recreate"
  desc,         \* its copy of the descriptor
  reply,        \* what it told its user
  detached,     \* killed processes whose last engine command still runs
  file,         \* sessions/NAME.json
  client,       \* clients/NAME.json
  containers,   \* the container of each session, named after it
  networks,     \* the sessions whose network exists
  agents,       \* the processes whose agent container runs
  (* history of the run; only trouble is read by a guard, as a bound *)
  trouble,      \* faults so far
  mixed,        \* two processes were at work at the same time
  undisturbed,  \* processes that met no other process and no fault
  neglected     \* a clean-up failed and its error was ignored

cli     == <<pc, doing, desc, reply>>
disk    == <<file, client>>
engine  == <<containers, networks, agents>>
history == <<trouble, mixed, undisturbed, neglected>>
vars    == <<cli, detached, disk, engine, history>>

(* A process makes at most one session, one pair of tokens and one start of  *)
(* a container, so each is named after the process that made it.             *)
Descriptor == [session : Procs, generation : Nat, token : Procs,
               endpoint : Procs \cup {None}]
Container  == [running : BOOLEAN, up : BOOLEAN, token : Procs, generation : Nat,
               endpoint : Procs]

ASSUME NoneAssumption == None \notin Procs \cup Descriptor \cup Container

Launching == {"network", "addnetwork", "create", "endpoint", "publish", "service"}
Undoing   == {"undo", "undonetwork", "undofile"}
Effective == {"start", "addnetwork", "create", "undo", "undonetwork", "stop",
              "discard", "rmnetwork", "attach"}   \* engine commands with an effect
Steps     == Launching \cup Undoing \cup Effective \cup
             {"new", "reuse", "rotate", "pending", "forget", "unlink", "check",
              "hand", "copy", "agent", "listed", "inspect", "probe"}
Ends      == {"idle", "done", "dead"}
Live      == {p \in Procs : pc[p] \notin Ends}
Exists(s) == containers[s] # None
Running(s) == Exists(s) /\ containers[s].running

TypeOK ==
  /\ pc \in [Procs -> Steps \cup Ends]
  /\ doing \in [Procs -> Commands \cup {"none", "new", "recreate"}]
  /\ desc \in [Procs -> Descriptor \cup {None}]
  /\ reply \in [Procs -> {"none", "ready", "stopped", "deleted", "ran", "failed",
                          "up", "down", "empty"}]
  /\ detached \subseteq Procs
  /\ file \in Descriptor \cup {None}
  /\ client \in Descriptor \cup {None}
  /\ containers \in [Procs -> Container \cup {None}]
  /\ networks \subseteq Procs
  /\ agents \subseteq Procs
  /\ trouble \in 0..MaxFaults
  /\ mixed \in BOOLEAN
  /\ undisturbed \subseteq Procs
  /\ neglected \in BOOLEAN

Init ==
  /\ pc = [p \in Procs |-> "idle"]
  /\ doing = [p \in Procs |-> "none"]
  /\ desc = [p \in Procs |-> None]
  /\ reply = [p \in Procs |-> "none"]
  /\ detached = {}
  /\ file = None
  /\ client = None
  /\ containers = [p \in Procs |-> None]
  /\ networks = {}
  /\ agents = {}
  /\ trouble = 0
  /\ mixed = FALSE
  /\ undisturbed = {}
  /\ neglected = FALSE

-----------------------------------------------------------------------------
(* Where a process goes: on, or, when it was killed, nowhere.               *)
Go(p, step) == /\ pc' = [pc EXCEPT ![p] = IF p \in detached THEN "dead" ELSE step]
               /\ UNCHANGED reply
End(p, answer) ==
  /\ pc' = [pc EXCEPT ![p] = IF p \in detached THEN "dead" ELSE "done"]
  /\ reply' = IF p \in detached THEN reply ELSE [reply EXCEPT ![p] = answer]

(* The error path: only a launch has something to undo.                     *)
Breaks(p) == IF pc[p] \in Launching /\ doing[p] # "open" THEN Go(p, "undo")
                                                        ELSE End(p, "failed")

Fresh(p) == [session |-> p, generation |-> 1, token |-> p, endpoint |-> None]

(* SessionDescriptor::rotate_runtime.                                       *)
RotateTokens(p, d) ==   \* variant: new tokens for the same generation
  [d EXCEPT !.token = p, !.endpoint = None]
Rotated(p, d) == [d EXCEPT !.generation = @ + 1, !.token = p, !.endpoint = None]

Session(p) == desc[p].session

-----------------------------------------------------------------------------
(* A process starts and loads the descriptor.                               *)
Starts(p, command) ==
  /\ pc[p] = "idle"
  /\ command \in Commands
  /\ mixed' = (mixed \/ Live # {})
  /\ undisturbed' = IF Live = {} THEN undisturbed \cup {p} ELSE undisturbed \ Live
  /\ UNCHANGED <<detached, disk, engine, trouble, neglected>>

StartOpen(p) ==
  /\ Starts(p, "open")
  /\ \/ /\ file = None
        /\ doing' = [doing EXCEPT ![p] = "new"]
        /\ desc' = [desc EXCEPT ![p] = Fresh(p)]
        /\ Go(p, "new")
     \/ /\ file # None
        /\ doing' = [doing EXCEPT ![p] = "open"]
        /\ desc' = [desc EXCEPT ![p] = file]
        /\ IF p \in Gpu /\ file.session \notin Gpu THEN End(p, "failed")
                                                    ELSE Go(p, "reuse")

First == [stop |-> "stop", reset |-> "discard", delete |-> "discard",
          run |-> "check", status |-> "inspect"]

StartOther(p) ==
  \E command \in DOMAIN First :
    /\ Starts(p, command)
    /\ doing' = [doing EXCEPT ![p] = command]
    /\ desc' = [desc EXCEPT ![p] = file]
    /\ IF file = None THEN End(p, "failed") ELSE Go(p, First[command])

(* sessions reads the directory first and each descriptor after.            *)
StartSessions(p) ==
  /\ Starts(p, "sessions")
  /\ doing' = [doing EXCEPT ![p] = "sessions"]
  /\ IF file = None THEN End(p, "empty") ELSE Go(p, "listed")
  /\ UNCHANGED desc

LoadListed(p) ==
  /\ pc[p] = "listed"
  /\ desc' = [desc EXCEPT ![p] = file]
  /\ IF file = None THEN End(p, "failed") ELSE Go(p, "inspect")
  /\ UNCHANGED <<doing, detached, disk, engine, history>>

-----------------------------------------------------------------------------
(* StateStore::save, in each of its places.                                 *)
Save(p, next) ==
  /\ file' = desc[p]
  /\ Go(p, next)
  /\ UNCHANGED <<doing, desc, detached, client, engine, history>>

SaveNew(p)     == pc[p] = "new" /\ Save(p, "network")
SavePending(p) == pc[p] = "pending" /\ Save(p, "network")
PublishNothing(p) ==   \* variant: the endpoint is not saved
  /\ pc[p] = "publish"
  /\ Go(p, "service")
  /\ UNCHANGED <<doing, desc, detached, disk, engine, history>>
Publish(p)     == pc[p] = "publish" /\ Save(p, "service")

(* open of a session on record: what the engine says of its container.      *)
InspectReuse(p) ==
  /\ pc[p] = "reuse"
  /\ IF Exists(Session(p))
     THEN /\ Go(p, IF Running(Session(p)) THEN "endpoint" ELSE "start")
          /\ UNCHANGED <<doing, desc>>
     ELSE /\ Go(p, "rotate")
          /\ doing' = [doing EXCEPT ![p] = "recreate"]
          /\ desc' = [desc EXCEPT ![p] = Rotated(p, @)]
  /\ UNCHANGED <<detached, disk, engine, history>>

(* remove_client_descriptor, ahead of the save of a rotated descriptor.      *)
DropNothing(p) ==   \* variant: the old client descriptor stays
  /\ pc[p] = "rotate"
  /\ Go(p, "pending")
  /\ UNCHANGED <<doing, desc, detached, disk, engine, history>>
DropClient(p) ==
  /\ pc[p] = "rotate"
  /\ client' = None
  /\ Go(p, "pending")
  /\ UNCHANGED <<doing, desc, detached, file, engine, history>>

Started(s, p) == [containers[s] EXCEPT !.running = TRUE, !.up = FALSE, !.endpoint = p]
Stopped(s)    == [containers[s] EXCEPT !.running = FALSE, !.up = FALSE]

(* engine.start: a container that is gone is an error.                       *)
StartContainer(p) ==
  LET s == Session(p) IN
  /\ pc[p] = "start"
  /\ IF Exists(s)
     THEN /\ Go(p, "endpoint")
          /\ containers' = IF Running(s) THEN containers
               ELSE [containers EXCEPT ![s] = Started(s, p)]
     ELSE Breaks(p) /\ UNCHANGED containers
  /\ UNCHANGED <<doing, desc, detached, disk, networks, agents, history>>

-----------------------------------------------------------------------------
(* launch_container.  A network is inspected first and created then, so two  *)
(* processes may both find it missing; create and run fail on a name in use. *)
AlwaysCreate(p) ==   \* variant: the network is not looked for
  /\ pc[p] = "network"
  /\ Go(p, "addnetwork")
  /\ UNCHANGED <<doing, desc, detached, disk, engine, history>>
EnsureNetwork(p) ==
  /\ pc[p] = "network"
  /\ Go(p, IF Session(p) \in networks THEN "create" ELSE "addnetwork")
  /\ UNCHANGED <<doing, desc, detached, disk, engine, history>>

CreateNetwork(p) ==
  /\ pc[p] = "addnetwork"
  /\ IF Session(p) \in networks THEN Breaks(p) ELSE Go(p, "create")
  /\ networks' = networks \cup {Session(p)}
  /\ UNCHANGED <<doing, desc, detached, disk, containers, agents, history>>

CreatedAsSaved(p) ==   \* variant: the endpoint on record is taken for the real one
  [running |-> TRUE, up |-> FALSE, token |-> desc[p].token,
   generation |-> desc[p].generation, endpoint |-> desc[p].endpoint]
Created(p) == [running |-> TRUE, up |-> FALSE, token |-> desc[p].token,
               generation |-> desc[p].generation, endpoint |-> p]

CreateContainer(p) ==
  LET s == Session(p) IN
  /\ pc[p] = "create"
  /\ IF ~Exists(s) /\ s \in networks
     THEN containers' = [containers EXCEPT ![s] = Created(p)] /\ Go(p, "endpoint")
     ELSE Breaks(p) /\ UNCHANGED containers
  /\ UNCHANGED <<doing, desc, detached, disk, networks, agents, history>>

(* wait_for_endpoint: the engine has told the endpoint, or the container is  *)
(* gone or has stopped.                                                      *)
AwaitEndpoint(p) ==
  LET s == Session(p) IN
  /\ pc[p] = "endpoint"
  /\ IF Running(s)
     THEN /\ desc' = [desc EXCEPT ![p].endpoint = containers[s].endpoint]
          /\ Go(p, "publish")
     ELSE Breaks(p) /\ UNCHANGED desc
  /\ UNCHANGED <<doing, detached, disk, engine, history>>

(* A health check answers to the endpoint and the credentials it is asked at. *)
Reaches(d) == /\ Running(d.session)
              /\ containers[d.session].endpoint = d.endpoint
              /\ containers[d.session].token = d.token
              /\ containers[d.session].generation = d.generation
Serves(d)  == Reaches(d) /\ containers[d.session].up

ServiceReady(p) ==
  /\ pc[p] = "service"
  /\ Serves(desc[p])
  /\ End(p, "ready")
  /\ UNCHANGED <<doing, desc, detached, disk, engine, history>>

ServiceGone(p) ==
  /\ pc[p] = "service"
  /\ ~Running(Session(p))
  /\ Breaks(p)
  /\ UNCHANGED <<doing, desc, detached, disk, engine, history>>

(* The deadline passes: always when another runtime answers.                *)
GivesUp(p) == pc[p] = "service" /\ Running(Session(p)) /\ ~Reaches(desc[p])

ServiceRetry(p) ==   \* variant: past the deadline the wait begins again
  /\ GivesUp(p)
  /\ Go(p, "endpoint")
  /\ UNCHANGED <<doing, desc, detached, disk, engine, history>>
ServiceDeadline(p) ==
  /\ GivesUp(p)
  /\ Breaks(p)
  /\ UNCHANGED <<doing, desc, detached, disk, engine, history>>

-----------------------------------------------------------------------------
(* remove_container and remove_network: what is gone already counts as       *)
(* removed; a network that a container is attached to stays.                 *)
Attached(s) == Exists(s) \/ \E a \in agents : desc[a].session = s
RemoveNothing(p) == UNCHANGED containers   \* variant: rm without --force
RemoveContainer(p) == containers' = [containers EXCEPT ![Session(p)] = None]
RemoveNetwork(p)   == networks' = networks \ {Session(p)}

(* The clean-up after a launch that failed.                                 *)
Undo(p) ==
  /\ pc[p] = "undo"
  /\ RemoveContainer(p)
  /\ IF doing[p] = "new" THEN Go(p, "undonetwork") ELSE End(p, "failed")
  /\ UNCHANGED <<doing, desc, detached, disk, networks, agents, history>>

UndoNetwork(p) ==
  /\ pc[p] = "undonetwork"
  /\ IF Attached(Session(p))
     THEN neglected' = (neglected \/ Session(p) \in networks) /\ UNCHANGED networks
     ELSE RemoveNetwork(p) /\ UNCHANGED neglected
  /\ Go(p, "undofile")
  /\ UNCHANGED <<doing, desc, detached, disk, containers, agents, trouble, mixed,
                 undisturbed>>

(* store.remove takes the name, whatever descriptor is there by now.        *)
UndoFile(p) ==
  /\ pc[p] = "undofile"
  /\ file' = None
  /\ End(p, "failed")
  /\ UNCHANGED <<doing, desc, detached, client, engine, history>>

-----------------------------------------------------------------------------
Stop(p) ==
  LET s == Session(p) IN
  /\ pc[p] = "stop"
  /\ containers' = IF Exists(s)
                   THEN [containers EXCEPT ![s] = Stopped(s)]
                   ELSE containers
  /\ End(p, "stopped")
  /\ UNCHANGED <<doing, desc, detached, disk, networks, agents, history>>

(* reset and delete begin with the container.                               *)
Discard(p) ==
  /\ pc[p] = "discard"
  /\ RemoveContainer(p)
  /\ IF doing[p] = "reset"
     THEN Go(p, "rotate") /\ desc' = [desc EXCEPT ![p] = Rotated(p, @)]
     ELSE Go(p, "rmnetwork") /\ UNCHANGED desc
  /\ UNCHANGED <<doing, detached, disk, networks, agents, history>>

DeleteNetwork(p) ==
  LET s == Session(p) IN
  /\ pc[p] = "rmnetwork"
  /\ IF s \in networks /\ Attached(s)
     THEN End(p, "failed") /\ UNCHANGED networks
     ELSE RemoveNetwork(p) /\ Go(p, "forget")
  /\ UNCHANGED <<doing, desc, detached, disk, containers, agents, history>>

ForgetClient(p) ==
  /\ pc[p] = "forget"
  /\ client' = None
  /\ Go(p, "unlink")
  /\ UNCHANGED <<doing, desc, detached, file, engine, history>>

UnlinkFile(p) ==
  /\ pc[p] = "unlink"
  /\ file' = None
  /\ End(p, "deleted")
  /\ UNCHANGED <<doing, desc, detached, client, engine, history>>

-----------------------------------------------------------------------------
(* run: an agent container beside the desktop.                              *)
CheckRunning(p) ==
  /\ pc[p] = "check"
  /\ IF Running(Session(p)) THEN Go(p, "hand") ELSE End(p, "failed")
  /\ UNCHANGED <<doing, desc, detached, disk, engine, history>>

HandDescriptor(p) ==
  /\ pc[p] = "hand"
  /\ client' = desc[p]
  /\ Go(p, "copy")
  /\ UNCHANGED <<doing, desc, detached, file, engine, history>>

CopyClient(p) ==
  /\ pc[p] = "copy"
  /\ IF Exists(Session(p)) THEN Go(p, "attach") ELSE End(p, "failed")
  /\ UNCHANGED <<doing, desc, detached, disk, engine, history>>

RunAgent(p) ==
  /\ pc[p] = "attach"
  /\ IF Session(p) \in networks
     THEN agents' = agents \cup {p} /\ Go(p, "agent")
     ELSE End(p, "failed") /\ UNCHANGED agents
  /\ UNCHANGED <<doing, desc, detached, disk, containers, networks, history>>

(* The agent ends by itself, its client process still there or not.         *)
AgentEnds(p) ==
  /\ p \in agents
  /\ agents' = agents \ {p}
  /\ IF pc[p] = "agent" THEN \E answer \in {"ran", "failed"} : End(p, answer)
                        ELSE UNCHANGED <<pc, reply>>
  /\ UNCHANGED <<doing, desc, detached, disk, containers, networks, history>>

-----------------------------------------------------------------------------
(* status and sessions change nothing.                                      *)
Inspect(p) ==
  /\ pc[p] = "inspect"
  /\ IF doing[p] = "sessions" \/ ~Running(Session(p)) THEN End(p, "down")
                                                      ELSE Go(p, "probe")
  /\ UNCHANGED <<doing, desc, detached, disk, engine, history>>

Probe(p) ==
  /\ pc[p] = "probe"
  /\ End(p, CASE desc[p].endpoint = None -> "failed"   \* "pending" is no endpoint
             [] Serves(desc[p])         -> "up"
             [] OTHER                   -> "down")
  /\ UNCHANGED <<doing, desc, detached, disk, engine, history>>

-----------------------------------------------------------------------------
(* The runtime inside a container gets ready.                               *)
ServiceUp(s) ==
  /\ Running(s) /\ ~containers[s].up
  /\ containers' = [containers EXCEPT ![s].up = TRUE]
  /\ UNCHANGED <<cli, detached, disk, networks, agents, history>>

(* What goes wrong.                                                         *)
Fault(kind) == /\ kind \in Faults /\ trouble < MaxFaults
               /\ trouble' = trouble + 1
               /\ undisturbed' = undisturbed \ Live
               /\ UNCHANGED mixed

(* A command or a file operation fails and leaves things as they were, but   *)
(* that run may leave a container that never started.                        *)
CommandFails(p) ==
  /\ Fault("command")
  /\ pc[p] \in Steps \ (Undoing \cup {"agent"})
  /\ Breaks(p)
  /\ \/ UNCHANGED containers
     \/ /\ pc[p] = "create" /\ ~Exists(Session(p)) /\ Session(p) \in networks
        /\ containers' = [containers EXCEPT ![Session(p)] =
                            [Created(p) EXCEPT !.running = FALSE]]
  /\ UNCHANGED <<doing, desc, detached, disk, networks, agents, neglected>>

(* The errors of the clean-up are ignored.                                  *)
UndoFails(p) ==
  /\ Fault("command")
  /\ pc[p] \in Undoing
  /\ IF pc[p] = "undofile" \/ doing[p] # "new" THEN End(p, "failed")
     ELSE Go(p, IF pc[p] = "undo" THEN "undonetwork" ELSE "undofile")
  /\ neglected' = TRUE
  /\ UNCHANGED <<doing, desc, detached, disk, engine>>

(* The service is not ready within the deadline.                            *)
TooSlow(p) ==
  /\ Fault("slow")
  /\ pc[p] \in {"endpoint", "service"} /\ Running(Session(p))
  /\ Breaks(p)
  /\ UNCHANGED <<doing, desc, detached, disk, engine, neglected>>

Kill(p) ==
  /\ Fault("kill")
  /\ p \in Live \ detached
  /\ \/ pc' = [pc EXCEPT ![p] = "dead"] /\ UNCHANGED detached
     \/ pc[p] \in Effective /\ detached' = detached \cup {p} /\ UNCHANGED pc
  /\ UNCHANGED <<doing, desc, reply, disk, engine, neglected>>

ContainerExits(s) ==
  /\ Fault("exit")
  /\ Running(s)
  /\ containers' = [containers EXCEPT ![s] = Stopped(s)]
  /\ UNCHANGED <<cli, detached, disk, networks, agents, neglected>>

(* Somebody else removes the container.                                     *)
ExternalRemoval(s) ==
  /\ Fault("removal")
  /\ Exists(s)
  /\ containers' = [containers EXCEPT ![s] = None]
  /\ UNCHANGED <<cli, detached, disk, networks, agents, neglected>>

-----------------------------------------------------------------------------
Finished == Live = {} /\ agents = {} /\ UNCHANGED vars

Step(p) ==
  \/ LoadListed(p) \/ SaveNew(p) \/ SavePending(p) \/ Publish(p) \/ InspectReuse(p)
  \/ DropClient(p) \/ StartContainer(p)
  \/ EnsureNetwork(p) \/ CreateNetwork(p) \/ CreateContainer(p) \/ AwaitEndpoint(p)
  \/ ServiceReady(p) \/ ServiceGone(p) \/ ServiceDeadline(p)
  \/ Undo(p) \/ UndoNetwork(p) \/ UndoFile(p)
  \/ Stop(p) \/ Discard(p) \/ DeleteNetwork(p) \/ ForgetClient(p) \/ UnlinkFile(p)
  \/ CheckRunning(p) \/ HandDescriptor(p) \/ CopyClient(p) \/ RunAgent(p)
  \/ Inspect(p) \/ Probe(p)

Next ==
  \/ \E p \in Procs : \/ StartOpen(p) \/ StartOther(p) \/ StartSessions(p)
                      \/ Step(p) \/ AgentEnds(p)
                      \/ CommandFails(p) \/ UndoFails(p) \/ TooSlow(p) \/ Kill(p)
  \/ \E s \in Procs : ServiceUp(s) \/ ContainerExits(s) \/ ExternalRemoval(s)
  \/ Finished

Spec == Init /\ [][Next]_vars

(* Engine commands return, processes are scheduled, a running container gets *)
(* ready, agents end.                                                        *)
Fairness == \A p \in Procs : /\ WF_vars(Step(p))
                             /\ WF_vars(AgentEnds(p))
                             /\ WF_vars(ServiceUp(p))
FairSpec == Spec /\ Fairness

-----------------------------------------------------------------------------
(* A container's credentials are those of the descriptor on disk, and no     *)
(* container or network is left without a descriptor, as long as one command *)
(* runs at a time and no clean-up failed: wherever a command is killed or    *)
(* fails, the next one finds what it needs.                                  *)
Indexed(s) == file # None /\ file.session = s
Credentials(s) == /\ containers[s].token = file.token
                  /\ containers[s].generation = file.generation
SequentialIndex ==
  ~mixed /\ ~neglected => /\ \A s \in networks : Indexed(s)
                          /\ \A s \in Procs : Exists(s) => Indexed(s) /\ Credentials(s)

(* The descriptor handed to agents is never left with credentials that the   *)
(* session has given up, as long as one command runs at a time.              *)
SequentialClient ==
  ~mixed /\ client # None => /\ file # None
                             /\ client.session = file.session
                             /\ client.token = file.token
                             /\ client.generation = file.generation

(* A command that runs by itself does what it says, after whatever crashes,   *)
(* failures and races of earlier ones: reset and a first open end ready, stop  *)
(* stops, and delete deletes unless an agent still sits on the network.  Only  *)
(* an open that finds a container needs the past to be free of races too.      *)
UndisturbedSucceeds ==
  [][\A p \in undisturbed' : reply[p] = "none" /\ reply'[p] = "failed" =>
       \/ doing'[p] \in {"run", "status"}
       \/ desc'[p] = None
       \/ doing'[p] = "delete" /\ Session(p) \in networks
       \/ doing'[p] = "open" /\ (mixed \/ p \in Gpu)]_vars

(* The runtime generation on disk only grows, and new credentials come with  *)
(* a new generation, as long as one command runs at a time.                  *)
GenerationGrows ==
  [][~mixed' /\ file # None /\ file' # None /\ file'.session = file.session =>
       \/ file'.generation > file.generation
       \/ file'.generation = file.generation /\ file'.token = file.token]_vars

(* When a command that ran by itself reports a session ready, the descriptor  *)
(* on disk is the one whose runtime has just answered, whatever came before.  *)
ReadyIsPublished ==
  [][\A p \in undisturbed' : reply[p] = "none" /\ reply'[p] = "ready" =>
       file = desc[p] /\ Serves(file)]_vars

(* Every command ends, with or without competitors, by its deadlines.       *)
EveryCommandEnds == \A p \in Procs : p \in Live ~> p \notin Live

(* Architecture.md: "Private local descriptors index known sessions."  When  *)
(* no command is at work, each container belongs to the descriptor on disk.  *)
ContainersIndexed ==
  Live = {} => \A s \in Procs : Exists(s) => Indexed(s)

=============================================================================
