# Verification of vdesk

vdesk gives an agent a Linux desktop: an HTTP service inside a container (or a
guest) drives an X11 display, a supervisor keeps the display's processes
together, and a command line tool opens, stops, resets and deletes sessions.
This directory holds TLA+ modules that model the program as it is written, TLC
configurations that check them on small instances, and TLAPS proofs of the
properties that matter most for every instance.

## Inventory

| Component | State | Operations | What makes it hard | What makes it correct |
|---|---|---|---|---|
| Action batch service (`service.rs`: `actions`, `focus_window`, `write_clipboard`, `observe`) | `action_lock`, `results`, `input_generation`, and each handler's locals | a batch of actions, a focus, a clipboard write, an observation | handlers interleave at every `await`; blocking calls outlive the handler that waits for them; `API_TIMEOUT`, `DRIVER_TIMEOUT` and clients that hang up; retries | one batch at a time; at most once per request id; one result per id; an honest generation; every call answered |
| Input sequences (`validate_input_sequence`, `execute`, `release_held_input`) | buttons and keys held down | down, up, tap, clean-up | actions that fail half way | nothing stays held |
| Image store (`ImageStore`) | up to 8 images, 64 MiB | insert, get | eviction before the client fetches | bounds; an image that is found is the one observed |
| Process registry (`ProcessStore`) | up to 32 processes with bounded output | spawn, status, output, kill, drop | exits race kills and evictions; two drain threads | bound; no running process is forgotten; a kill hits its own process only; reported ends are true; the truncation flag is exact |
| Scoped files | two directory trees | read, write, delete | paths that change between resolution and use; temporary files | a reader sees a whole file |
| Session lifecycle (`cli.rs`, `engine.rs`, `StateStore`) | descriptors on disk, containers, networks | open, stop, reset, delete, run, status, list | several CLI processes without a lock; a crash or a failure between any two steps | no container without a descriptor; credentials that agree; every command ends and the next one recovers |
| Supervisor (`supervisor.rs`, `LocalRuntimeStore`) | children, sockets, the local descriptor | start, signal, child exit, shutdown | signals during start-up; a second runtime in one place; leftovers of a killed one | every child is ended; the descriptor names the runtime that is up |
| Viewer bridge, human-input hints, client, argument parsing | none that outlives a call | copy, count, call | either side ends first; a health check and a connection in two steps; a port of several runtimes | a runtime that is up alone has the port |

The components meet in few places. The CLI and the agent's client call the
service over HTTP; the service calls the driver on tokio's blocking pool; the VNC
server sends a datagram per human event, which the service only counts; the
supervisor starts the service and the display and takes both down; the CLI reads
descriptors the supervisor or an earlier CLI process wrote.

## Modules

| Module | Models |
|---|---|
| `InputSequence` | what an action does to the held buttons and keys, the validation, the clean-up |
| `ActionService` | the service: handlers, lock, cache, generation, driver calls, faults |
| `MCActionService` | workloads for TLC |
| `BatchService` | what the data plane promises its callers, and nothing of how |
| `ActionRefinement` | the mapping under which `ActionService` implements `BatchService` |
| `ActionServiceProofs` | types, the inductive invariant of lock, store and answers, its theorems, and the refinement |
| `ActionInputProofs` | the account of input and of what is held down |
| `ProcessRegistry` | the managed processes: the store, its requests and its drop, the drain threads, and the processes and pids themselves |
| `MCProcessRegistry` | processes for TLC |
| `ProcessRegistryProofs` | its inductive invariants and theorems |
| `Observations`, `MCObservations` | captures, the image store, clients that fetch later, restarts of the service |
| `ObservationsProofs` | sums over a store, its inductive invariant and theorems |
| `SessionLifecycle`, `MCSessionLifecycle` | the session commands as processes over files and the container engine |
| `SessionLifecycleProofs` | types, and what holds as long as one command runs at a time |
| `SessionUndisturbedProofs` | what a command does that runs by itself, whatever lies behind it |
| `Supervisor`, `MCSupervisor` | runtimes of one user: start-up, children, service, signals and shutdown |
| `SupervisorProofs` | its inductive invariants and theorems |
| `Recursion` | induction over an interval, and the functions it defines |

`ActionService`, `ProcessRegistry` and `Observations` are parts of one service that share no
state: each has a lock of its own, and no handler waits for one while it holds
another, except that a batch captures under the action lock, which `ActionService`
models. What they share is that the service ends, which each models as far as its
properties need it, and `Supervisor` models for all of them. A composition would say nothing that
the parts do not. `SessionLifecycle` sees a runtime as a container that gets ready, `Supervisor` is
what happens in a runtime that no container engine keeps.

### How ActionService corresponds to the code

A handler's `pc` is the `await` it is at: `lookup` (arrived, first cache lookup
next), `lock` (queued for `action_lock`), `execute`, `release`, `each`, `final`
(waiting for the driver), `record` (about to store the result), `focus`,
`clipboard`, `observe`. What lies between two awaits is one action of the module.
The first lookup and the wait for the lock are two steps; lock, second lookup, stale
check and start of the first action are one (`Admit`, or `ReturnRecorded`,
`RefuseConflict`, `RefuseStale`), because the awaits in between wait only for the
mutex of the cache, which nobody holds across an await, and because a step of
another handler there could not be told from one just before or after.

`job` is the blocking call a handler waits for. `JobSucceeds` and `JobFails` are the
blocking pool's steps: they change what is held on the desktop (`held`) and how
much input reached it (`inputs`), at once and whole. A move to where the pointer is already, or an
empty text, succeeds without any input; `MayBeVain` says which actions may, and `vain` counts them. A handler that stops waiting
moves its task to `orphans`, where it ends in its own time: `ActionRefused` after
`DRIVER_TIMEOUT`, and `Cancel` when the future is dropped, by `TimeoutLayer` or
because the client hung up. Dropping the future drops the lock guard.

The request is a record; a batch that quotes an observation names the call that
made it (`basis`), and `Expected` is the generation that call was answered with. The
hash of a request is modelled by the fields it covers. An observation carries a
field `seen` the code does not have: the generation at the time the pixels were
read, so that a property can compare the two.

`noted`, `notedBefore`, `inputs`, `vain`, `admitted` and `forgotten` record the history of the
run for the properties. No guard reads them but that of `HumanInput`, whose bound
is `MaxHuman`.

Not modelled here: authorization and the field limits (a request that fails them
changes nothing), the contents of images (a full image store cannot fail an
insertion of an image within the limit), the window list `focus_window` answers with
after it freed the lock, and `--clearmodifiers`, which lifts held modifiers for
the length of one xdotool call.

### How ProcessRegistry corresponds to the code

`entries`, `finished` and `exitCode` are the `ProcessStore`; `leader`, `ending`, `helpers` and
`pid` belong to the operating system: a process runs, ends and is a zombie until
it is reaped, its descendants may outlive it, and a pid is free again when nobody
lives in the group it names.

A request locks the store and then runs to its end without an await, so it is
one step: `Start` and `StartFails` (`spawn_process`, with the eviction at the limit),
`Status` (`process_status`, and `kill_process` of an entry that is finished). A kill
waits in the middle, and the lock stays taken: `Kill` sends the signal and sets
`killer`, `Reap` is what follows when `child.wait()` returns. The drop of the store
does the same for every entry left (`DropSignal`, `Reap`, `Close`). `Exit`, `Fork`, `HelperExits`
and `Write` are the processes' own steps, `Drain` is one turn of a drain thread: both
threads of a process append to one buffer under its mutex, and only the sum is
kept here.

A refused spawn at the limit and a request for an unknown id change nothing and
are no action. `Shutdown` waits for requests, as axum's graceful shutdown does; the 3
seconds after which the supervisor no longer waits do not matter here, since a
handler that waits for a child has no await at which it could be dropped. That a
`serve` which fails calls `exit(1)` and never drops the store, and that the end of a `serve` that does
not fail waits for the drop, is part of `Supervisor`.

### How BatchService and ActionRefinement correspond to the code

`BatchService` is the promise of architecture.md's data plane in five variables: what each
call has posted, what it was answered, who has the desktop, what is on record, and
whose caller gave up. A batch takes the desktop (`Begin`) only if nothing is on record under
its id, and ends (`EndBatch`) by putting its outcome on record and answering with it in one step. The
retry is `Replay`. There are no lookups, actions, timeouts or queue.

The mapping reads the lock as `executor`, the result store, whatever its order, as
`record`, and a batch as posted from the step in which its handler accepts it. `Decline` covers every answer
without an outcome. What the abstraction gives up shows in `EndBatch`: the record may
forget anything when another batch ends, and `GiveUp` leaves nothing on record of a batch that
may have run. Both are what the code does.

### How Observations corresponds to the code

A client is one `vdesk see`: `Load` (`load_client`), `Observe` and `Fetch` are its three requests. Between them its
handler captures (`Capture`, the blocking call), draws the observation's number
(`NameShot`), waits for the image store's mutex and inserts (`Insert`, or `RefuseLarge`). Two handlers may draw in
one order and insert in the other. `Fail` is a capture that fails or outlasts its
deadline, and a handler that is dropped. A picture is a number of its own and a size, a name the pair of
generation and observation number that makes up `img-G-N`.

`Restart` is a service that was started again: `next = generation` when the container was stopped and
started, which keeps generation and token, and one more when it was replaced. A client whose
credentials are of an older generation is refused.

### How SessionLifecycle corresponds to the code

A process is one run of the command line; `pc` is the file operation or engine command
it does next, `doing` its command. `open` turns into `new` or `recreate` when it
knows which of its three ways it takes; `launch_container` (steps `network` to `service`) is shared by
them and `reset`. The descriptor in hand (`desc`) is a copy, which is why a save can undo
another process's save.

One session name is enough: names share nothing but the directory, and container and network names carry a
random suffix of the session, here the process that made it (`session`). For the same reason tokens and
endpoints are named after the process that generated the token or started the container. `containers` has the
credentials each container was created with (`environment_args`).

Each engine command is one step together with the inspection ahead of it in `engine.rs`
(`remove_container`, `remove_network`, `stop`, `start`), as only the command has an effect and each of them
takes "gone already" as done or as an error by itself; `ensure_network` is two steps, because the
creation depends on what the inspection found. Saves and removals are one rename or
unlink each.

`CommandFails` is any command or file operation that fails with no effect, the image that cannot
be pulled and the GPU check of `wait_for_service` included; a `run` that fails may leave a container
that never started. `UndoFails` is a failure in the clean-up, which the code
ignores. `TooSlow` is a deadline that passes while the runtime is still coming up, `ServiceDeadline`
one that must pass because another runtime answers. `Kill` ends a process at once or while its engine command is
under way, which then completes (`detached`).

Not modelled: containers of the right name and a foreign label, a generation that
overflows, and a change of the container's network address that is not a change of its port.

### How Supervisor corresponds to the code

`phase` is where `run` and `run_inner` are: the four waits, named after the child they wait for,
`publish` (driver, port, descriptor, service task), `handlers` (until the signal handlers are installed),
`running`, `drain` (`shutdown_tx`, three seconds), `reap` (`terminate` in reverse order), `compare` and
`unlink` (`LocalRuntimeStore::remove`). `Ready` asks for the resource first and the children after, but the wait for the
desktop the other way round, as in the code.

`child` has a state for a child that was spawned and is not up (`starting`), because a supervisor
that gives up must end that one as well. Who answers a wait is a question of the resource, not of the child:
a D-Bus daemon takes the path over, an X server and x11vnc exit when theirs is taken. `bus`,
`human` and `store` are the owners of what several runtimes of a user share.

`Signal` has the two outcomes of the code: before the handlers are installed the default
disposition ends the process on the spot; while it closes nobody listens and the signal is
lost. A failing `LocalRuntimeStore::remove` (`RemoveFails`) is an I/O error, or the race in which another
runtime unlinked the file between comparison and unlink.

`Returns` is the way out of `run`. With an error `main` exits with status 1 and drops nothing. Without one
it returns, and `#[tokio::main]` drops the async runtime (`dropping`): that waits for worker threads, and one
may be waiting for a managed process, in `kill_process` or in the drop of the `ProcessStore`. `survivors` are the runtimes
with a managed process whose kill failed (`KillFails`); until that process ends by itself (`ProcessExits`) neither
does the service task finish nor the drop (`Dropped`). What else a drop waits for is bounded by the
timeouts of the driver and the request.

Not modelled: the commands that find a runtime (`load_client`, `rfb_stdio`), which change nothing of it; the Xvnc socket, which is handled like the D-Bus path; PID 1 in a container,
for which a signal without a handler is ignored instead.

### Variants

Some definitions are preceded by a second form marked *variant*. A
variant is a plausible mistake in the code at that point (one lookup instead of
two, an insertion that makes room one entry late, a count that misses releases).
Each property is known to fail when the variant named for it in `PROJECT.json` takes
the place of the definition; no module uses one.

## Properties

* `SerializedUnlessDetached`: at most one live handler has a blocking call that drives
  the desktop. What may overlap it is a call that some handler gave up on.
* `RepeatOnlyIfForgotten`: a batch is executed again under its id only if the
  first execution was cut short by a dropped future or its result was evicted.
* `SameResultUnlessForgotten`: all callers of an id get one result, be they
  concurrent or one after the other.
* `ResultsWellFormed`: the store never exceeds its limit and never has two entries for
  an id, which `ResultStore::get` relies on when it stops at the first.
* `OnlyHumanInputInterferes`: while a batch runs, the generation is what it was plus
  the batch's own events plus human input, so `interference_detected` is exact: the
  only other writer, `focus_window`, writes under the lock.
* `InputCounted`: the generation counts no action and no human event twice, and misses none as long as no
  action failed, timed out or was abandoned. It also counts an action that succeeded with nothing to inject
  (`action_injects_input` looks at the kind of the action, not at what the driver did), so it may grow
  without input; it never counts a wait, a clipboard write or a clean-up.
* `NothingHeldUnlessFaulty`: between batches no button or key is down, unless an
  action failed or was abandoned.
* `EveryCallAnswered`: each call that arrives is answered.

Of the process registry:

* `RunningIsManaged`: a process that runs has an entry that is not marked as
  finished, so that a kill and the shutdown reach it; evictions only ever take what
  has ended.
* `KillsOnlyItsOwn`: a kill signals a group by its number, and nothing but the agreement
  between the mark `finished` and the reaping keeps that number from being another
  process's.
* `EndIsFinal`: what a client is told of an end is how the process ended, also
  when it ended by itself while a kill was under way.
* `RegistryBounded`: a spawn at the limit needs an entry that has ended.
* `TruncationExact`: what is kept is what was read up to the limit, and the flag is set
  exactly when something was lost.
* `KillReturns`: a kill, or a drop, whose process has ended goes on. Should the signal
  itself fail, the handler waits as long as the process runs, and every request
  about processes with it.

* `KeepsItsPromise`: `ActionService` implements `BatchService`.

Of observations and images:

* `StoreIsNewestFitting`: whatever the sizes and the order of arrival, the store holds the longest run of the
  newest images that fits both limits, and its count of bytes is right.
* `FetchedIsObserved`: the picture a client is given is the one it was told of. The exception is exact: a
  service started again in its container gives the same names to other pictures, and the
  client does not compare the digest.
* `MissingWasOvertaken`: a client is refused its picture only when newer ones fill the store.

Of the session commands (all but the last are proved, too):

* `SequentialIndex`: as long as one command runs at a time, wherever it is killed or fails, every container
  and network has its descriptor and every container the credentials on disk. The exception is a
  clean-up that failed, whose errors the code ignores.
* `SequentialClient`: in the same circumstances the descriptor handed to agents is never left with revoked
  credentials. It depends on the order of three steps in `reset` and `open`.
* `UndisturbedSucceeds`: after any history of crashes, failures and races, a command that runs by itself does what it
  says, judged when it answers. The exceptions are named in it: an `open` that finds a container after a race (it may have
  credentials nobody has; `reset` recovers), a `delete` while an agent sits on the network.
* `GenerationGrows`: new credentials come with a new generation.
* `ReadyIsPublished`: when a command reports ready, what is on disk is what has answered.
* `EveryCommandEnds`: also against competitors that take its container away or replace it.

Of the supervisor:

* `EndedLeavesNothing`: a runtime that ends, for whatever reason and from whichever point of its
  start, leaves no child and no descriptor of its own, also when other runtimes save and remove theirs in
  between. The exception is a runtime that ends with the error that its descriptor could not be removed.
* `UndisturbedStarts`: leftovers of an earlier runtime never keep the next from starting. Two exceptions are
  in its wording: overlapping runtimes, and a killed predecessor, whose children still have the display.
* `RunningIsPublished`: the runtime that is up alone is the one advertised and hears the human, and its own
  children have the bus, the display and the port, so a viewer that asks for it sees its screen.
* `EveryRuntimeSettles`: every start and every shutdown comes to an end, whatever service, children and other
  runtimes do: the runtime runs with four children of its own, or it is over. In particular one that was
  published over another's children gives way. The exception is a managed process that outlived its kill: the
  supervisor, with everything else taken down, waits for it.

Five statements of the documentation do not hold of the code; each is checked by
a run that expects the violation.

* `EveryInputCounted` ("`input_generation`, which increases when input reaches the desktop",
  doc/protocol.md). Input is counted after the blocking call, and only if it succeeded and its handler is still
  there: what a failed, timed-out or abandoned action has injected is never counted. The run shows an action
  whose caller gave up; while such a call still runs, the next batch starts beside it, which is the overlap that
  `SerializedUnlessDetached` excepts ("A batch is serialized with all other data-plane input", doc/protocol.md).
* `RetryNeverRepeats` ("Reusing a request ID returns the recorded result instead of
  repeating input", doc/architecture.md). The result is recorded only at the
  end: a batch dropped half way, which is when a client retries, is repeated.
* `StaleWorkRejected` ("If human or other input changed the desktop, the service
  rejects stale work before injecting it", doc/architecture.md). `store_capture` reads the
  generation after the pixels, so an event in between is in the stamp and not in
  the picture.
* `ContainersIndexed` ("Private local descriptors index known sessions",
  doc/architecture.md). Two first opens of a name at the same time both succeed, and the container
  of one of them has no descriptor.
* `ShutsDownOnSignal` ("The supervisor ... shuts them down on TERM or INT", doc/architecture.md). Before
  the handlers are installed, a signal ends the supervisor and not its children.
## Runs

| Run | Instance | States |
|---|---|---|
| `retries` | a batch, its retry, a second batch; failures and timeouts; the first caller may give up; room for one result; one human event | 794 thousand |
| `answers` | an observation, a batch based on it, its id reused for another body, a focus, an unbalanced batch, a clipboard write; failures | 25 thousand |
| `repeated`, `stale`, `uncounted` | the smallest instances that show each violation | few |
| `registry` | three processes, two pids, a limit of two entries; one process writes two units and one fits; spawns and kills may fail; a shutdown | 205 thousand |
| `observations` | three clients, two images, four bytes, images of one, four and five bytes, two restarts | 171 thousand |
| `sessions` | three commands out of open, stop, reset, delete and run; two faults of any kind | 4.9 million |
| `sessions_end` | two commands out of all seven, one of them with `--gpu`; two faults | 53 thousand |
| `unindexed` | two opens | few |
| `supervisor` | two runtimes on one display, one fault of any of five kinds | 492 thousand |
| `orphans` | one runtime, one signal | few |

The bounds of the action service. Two calls with one id are what a race between a call and its retry needs, and
a third call with another id makes the store evict at `MaxResults = 1`, the
smallest limit; the queue for the lock then has two waiters. The batch that is retried presses and releases a
key the clean-up knows and goes on after errors, so every combination of two
outcomes occurs. The other batch presses a key the clean-up does not know and
captures at the end. One human event suffices for interference, which is a
difference of counts. What a fourth batch or a second event could add is covered by
the proofs, which have no bounds. Human input and abandoned calls are left out of
`answers`, which is about the shape of every handler.

The bounds of the registry. Three processes at a limit of two make the third one wait for an
end and evict; with two pids it takes a pid that was in use before. Two
units of output against room for one give a read that fits, one that fits in part and
one that does not fit. The run allows deadlock: after the service has closed and
the processes have ended, nothing is left to do.

The bounds of observations. With three clients and two images one image is evicted before it
is fetched, by number or by size (an image of four bytes takes all the room, one of five is
refused); two restarts give the same generation twice and then another. Four clients and three
images were checked once and gave the same.

The bounds of the session commands. Three commands allow a first one that crashes, a second one beside it and a third one
that has to recover; two faults allow one in a command and one in its clean-up. A single name
loses nothing (see above). The safety properties are proved without these bounds. `MaxFaults` bounds the faults; the processes are symmetric, so the
run without liveness uses that.

The bounds of the supervisor. Two runtimes are a predecessor and a successor, or two that overlap. `Mixed = FALSE`
keeps faults out of overlaps, and overlaps out of runs with a fault, as the number of interleavings of both is
beyond a run; the safety properties are proved without that bound.

Fairness. `EveryCallAnswered` assumes that a handler that can go on does (tokio
polls woken tasks), and that a blocking call ends (each xdotool is killed after
5 seconds and every sleep of an action is bounded by the validation, and a
capture's requests are answered by the X server or fail). It assumes nothing about
the order in which the lock is handed over; clients do not have to arrive.
`KillReturns` assumes that a wait whose child has ended returns, that the drop of the store
goes on, and that drain threads read. Processes need not end, and a kill need not
work. `EveryCommandEnds` assumes that engine commands return, that a running
container's service comes up and that agents end; a competitor may still stop or replace the
container. `EveryRuntimeSettles` assumes that a supervisor's timeouts pass and that a
child gets its resource or exits. It does not assume that the service ends, nor that a managed process whose kill
failed does, nor that a child heeds TERM: `terminate` follows with KILL. That the drop of the async runtime ends when
no such process is left is the fairness of `Dropped`: the blocking calls it waits for are bounded, as above.

## Proofs

Every invariant and every action property that a passing run checks is a theorem, so is
the refinement, and nothing but the liveness properties rests on the bounds above. Each component has
its own argument.

### ActionService

Proved with TLAPS for every set of calls, every workload, every limit and every
combination of faults, from three assumptions about the constants: `NoCall` is no
call, requests are well formed, `MaxResults` is positive.

`TypeInv` is type correctness with what it needs to be inductive: a quoted observation
stays the one that was given (`RepliesInv`), and a handler that executes is within its
actions (`ActionsInv`). `Safety` is inductive relative to it:

* `LockInv`: the lock is held exactly by the handler past it. Alone this gives
  `SerializedUnlessDetached`.
* `CacheInv`: ids in the store differ, and a batch in flight is not on record. The
  second part needs the lookup under the lock, and makes the first inductive.
* `RepeatInv`: an id that was not forgotten was never admitted, or once and is
  in flight or on record.
* `ReplayInv`: what a call was answered is what is on record. With unique ids
  this gives `SameResultUnlessForgotten`.
* `CountInv`: `OnlyHumanInputInterferes`, and a handler that is not past the
  lock has counted nothing.

`BatchSteps` reduces the proofs about the cache to three actions, `Admit`, `Record` and
`Cancel`; `InsertKeeps` says what eviction does to the positions of the store.

`Implements` proves the refinement from the same invariants, one lemma per kind of step. `ReplayInv` and
`CacheInv` carry it: what is answered from the store is what was put there, and a batch that
begins is not on record, since it was looked up under the lock.

`InputInv`, in `ActionInputProofs`, is inductive relative to `TypeInv` and `LockInv` and gives
`InputCounted` and `NothingHeldUnlessFaulty`:

* `JobInv` and `LoopInv`: who can have a blocking call, that a batch past its validation is
  valid, and that a batch leaves its loop with a report of every action.
* `Untroubled`: nothing but captures has gone wrong. The properties speak of runs
  that show no failure (`Faultless`); that comes and goes with captures, and this does not
  come back once lost (`TroubleStays`), which an induction needs. A failure that counts always leaves a
  trace in a report, a dropped call or a released one, so `Faultless` implies it.
* `OrphanInv`: without trouble no blocking call is left behind.
* `BooksInv`: the generation, and one if the lock holder has yet to count an action, are at most
  what the driver did (`Driven`, the vain actions included) and human input together, and exactly that without
  trouble. That `Uncounted` has at most one element is the lock's doing.
* `HeldInv`: what is held down is among what the validation saw held after as
  many actions as the driver is through with (`Progress`, `Through`). `DriverFollowsScan`
  compares what the two make of one action, and the scan of a batch that is not refused ends with nothing held.

### ProcessRegistry

`RegistryInv` is inductive together with `OutputInv`:

* `EntriesInv`: an entry is marked as finished exactly when its process was reaped, and a
  kill waits for an entry that is not. It is why a pid that is signalled is still
  the entry's own, which no single handler shows: status, kill, eviction and drop reap
  in four places.
* `PidsInv`: whoever lives has its pid for itself, which is the operating system's
  promise and survives evictions because a group's number is not reused while a
  descendant lives.
* `EndsInv`: a process ends once, and what was recorded is how.
* `OutputInv`: the account of what was written, read, kept and lost.

`SignalHits` draws the conclusion: the group of an unfinished entry is its own
process. `LimitInv` is inductive on its own. The assumptions are that `NoOne` is no
process and no pid, and that the limits are natural numbers, `MAX_PROCESSES` at least one.

### Supervisor

`Inv`: types; past the reaping no child is left and none is spawned (`ReapedInv`); a runtime that is past its
descriptor is named by none, or has failed to remove it (`UnnamedInv`), because it compared before it unlinked and only it
could have named itself. Together
they are inductive and give `EndedLeavesNothing` for any number of runtimes, overlaps and faults. The assumptions are
that `NoRuntime` is no runtime and that `MaxFaults` is a number.

`StartInv` is inductive relative to it. It says what a runtime that lives alone can count on:

* `UnstartedInv` and `LoneInv`: as long as no two runtimes overlap, one is there at most, and one
  that starts over what a killed supervisor left is spoiled. Whoever is there undisturbed has then the
  machine for itself (`OthersAside`, `OthersChildless`): an answer at the fixed places is its own child's
  (`AnswersAreOwn`), and a place it needs is free (`OwnIsFree`).
* `AssembledInv`: the children of the waits that are over serve, the one waited for was started, none
  comes before its turn; the service is spawned when all are there. A supervisor then fails by
  a fault of its own only (`NoReasonToFail`), which gives `UndisturbedStarts` and `RunningIsPublished`.
* `NamedInv`: nobody takes its descriptor away between comparison and unlink, so its removal does not fail.

### Observations

The store's byte count is a sum over a sequence, and `Bytes` a recursive function. `BytesSplit` and
`BytesAppend` are what the proofs need of it; both follow from `Window`, the sums over a stretch of a sequence, by
induction. `EvictionsStop` says that the eviction loop ends, `RoomIsMade` what it leaves.
The assumptions are on the limits, that sizes are numbers, and that finitely many commands look at the desktop:
the ids are bounded by their number, however large, in place of the 64 bits of the code's counter.
`ImageInv` is inductive together with the types:

* `TokensInv`: a handler works under the generation its command's credentials are of.
* `NamesInv`: a name is given to one handler, and then to one entry, whatever the order
  in which the handlers get the store's lock.
* `ToldInv`: what a command was told was stored since the service was started, unless it was started
  again under the command.
* `DrawnInv`: every id was drawn by a command of its own, which bounds the counters.
* `StoreIsNewestFitting`: an insertion drops the oldest entries, and no more than it takes, from a
  store that was the longest run of the newest that fits. Its byte count is therefore never negative.

`FetchedIsObserved` follows from `NamesInv`: the entry found under a name is the one that was told. For `MissingWasOvertaken`
the place of the picture among what was inserted must lie before the store's first entry, and a run
that contains one that does not fit does not fit (`FitsShorter`).

### Session commands

`SessionLifecycleProofs`: types, together with the fact that a process at work has a descriptor in hand
(`DescInv`), without which the next step would have no session; `StepMoves`, `StepDesc` and `StepEffects` say
what the steps have in common. The assumptions are those on `Commands`, `MaxFaults` and `None`; nothing
below needs others.

The same module: while `mixed` is false, at most one process is at work, and `SequenceInv` says what it holds: the
descriptor on disk, or, between rotating and saving, the next generation of it (`HandInv`); the client
descriptor agrees with the file. `IndexInv` adds what the process has taken away so far
(`GoneInv`): a rotated descriptor is saved only when the old container is gone, and a file is unlinked only
when network and container are. A process that is killed leaves a state in which nobody is at work, so the
invariant is what the next command finds. They give `SequentialIndex`, `SequentialClient` and
`GenerationGrows`.

`SessionUndisturbedProofs`: a command that met no other and no fault may still follow races. `FreshInv` (a session name
is new when its `open` starts) and `CredInv` (a container of the file's session has the file's credentials,
without races but with failed clean-ups) describe the past; `FoundInv` says for each step what the command
has seen or made by then, and that nothing has changed it. The clean-up is out of its reach, `ServiceGone`
cannot happen, and `ServiceDeadline` only to an `open` of a container that races have left. They give `ReadyIsPublished`
and `UndisturbedSucceeds`.

### Induction over data, and what is left to TLC

The library's induction theorems are about every predicate, which no installed prover can use. Where
the models define something by recursion over the indices of a sequence, the validation's scan and the bytes of a store,
the hypothesis is put as a set of indices instead: `Recursion` proves, from the well-foundedness of the
numbers, that a set with 0 and the successors of its elements holds an interval (`IntervalInduction`), and
that a step from each index to the next defines a function (`IntervalRecursion`).

Only model-checked: the liveness properties `EveryCallAnswered`, `KillReturns`, `EveryCommandEnds` and
`EveryRuntimeSettles`. They need fairness, whose definition rests on `ENABLED`, out of the provers' reach. The
five properties that the code violates are refuted by TLC's counterexamples.

## Not modelled

* Scoped files. `read_file`, `write_file` and `delete_file` keep no state; what could go wrong is
  the resolution of paths, and a rename is atomic.
* The viewer bridge. The copying keeps no state and ends with the first of two copies, in one `select`.
  `rfb_stdio` checks the named service and then connects to the fixed port: while two runtimes overlap, or when the
  named one was replaced in between, the screen is another's, although architecture.md says of both modes that the
  service "exposes the same display to the agent and person". That is read off the code and shown by no run;
  `EveryRuntimeSettles` says that a runtime which was published over another's x11vnc gives way.
* `paste_text`, which hands the clipboard to another program and restores it: what that program
  does in between is nobody's promise.
* Field limits, drawing, key names, coordinates, JSON and terminal output, which keep no
  state, and the third-party VNC and X servers, which appear only as what the code
  expects of them.
* Image building and GPU discovery, which change nothing of a session.
