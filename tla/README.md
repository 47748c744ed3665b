# durablecompose, specified and verified

durablecompose is a fork of Docker Compose: it reads a Compose file (and a
Procfile), and drives the Docker engine so that networks, volumes and
containers are what the file describes; it also supervises plain processes.
These are TLA+ models of its logic, the TLC configurations that check them on
small instances, and TLAPS proofs of the most important results.

Contents: 1 the system, 2 the modules, 3 what is checked, 4 fairness, 5 what is
proved, 6 where the code departs from what is said of it, 7 reading the results
with care, 8 what is not modelled, 9 plan.

## 1. The system

| Component | Sources | State | What makes it correct |
|---|---|---|---|
| Loading, command line | `cmd/compose`, `pkg/compose/loader.go`, `pkg/config` | flags, environment, project | a command works on the project it was pointed at; what the flags say reaches the backend |
| Remote resources | `pkg/remote` | a cache on disk that processes share | what is loaded is whole and of the version that was resolved |
| Project graph | `pkg/compose/dependencies.go` (`NewGraph`) | vertices and edges | every acyclic project is accepted and no other |
| Dependency-ordered walk | `pkg/compose/dependencies.go` | a status per vertex, the set of those taken, a channel, an errgroup | each service once, after what it waits for; the call returns and leaves nothing running |
| Images | `pkg/compose/build*.go`, `pull.go`, `image_pruner.go` | images by name, local and in a registry | when create goes on every service has the image it asks for; nothing in use is removed |
| Networks and volumes | `pkg/compose/create.go`, `down.go` | engine networks and volumes with labels | two commands at once succeed or say why; no data is lost unasked |
| Container configuration | `pkg/compose/create.go`, `hash.go` | the shared project object, labels | replicas are alike and as declared; data moves on to the next container |
| Convergence | `pkg/compose/convergence.go` | containers of a service: name, number, hash, state | exactly the wanted replicas, up to date; a failed run can be repeated |
| Starting services | `pkg/compose/start.go`, `convergence.go` | containers and health, the wait timeout | a service starts only in the condition its `depends_on` names |
| Up session, logs | `pkg/compose/up.go`, `monitor.go`, `logs.go` | signals, goroutines, watched containers, exit code | first signal stops, second kills; no line is lost or shown twice |
| Stop, rm, kill, pause, restart, wait | files of these names in `pkg/compose` | containers that others change meanwhile | what is reported is what happened |
| One-off runs, hooks | `run.go`, `hook.go` | one container, a goroutine waiting for its start | hooks run in the started container; the call returns |
| Watch | `watch.go`, `pkg/watch`, `internal/sync` | changed files, a timer, four goroutines | every change is acted upon in a later batch; a watch that is over has ended |
| Progress and menu | `cmd/display`, `progress.go`, `cmd/formatter/shortcut.go` | tasks, a ticker, a mutex, watches | nothing is left unshown; `Done` and `Stop` return, but for the deadlock of section 6 |
| Providers and models | `plugins.go`, `model.go` | child processes, variables, a shared error | dependents get all variables of what succeeded |
| Publishing | `publish.go`, `internal/oci` | layers, manifests | what is published is complete |
| Dry run | `pkg/dryrun` | a list of pretended containers | the same steps and the same end as without it |
| Queries | `ps.go`, `images.go`, `top.go`, `port.go`, `volumes.go`, `ls.go`, `generate.go` | a list, then one question per container | what is shown was so |
| Raw processes | `pkg/process`, `pkg/procfile` | process table, state, stop channel | one run per process, stop ends it, definitions are those of the files |

They interact through one shared resource, the engine, which other commands
use at the same time, and through a small number of mechanisms: a walk calls a
function for each service; `up` runs `create` (images, networks, volumes,
convergence), then `start` (walk, waiting, starting) beside a monitor that
listens to the engine's events; watch calls the same convergence and start for
the services it rebuilds.  What a caller holds (a list of containers, a health
state) may be out of date when it is used.  The hard behaviours are these stale
lists, errgroups whose members share variables, channels without room, commands
killed half-way, and objects that several goroutines write to.  They are listed
with their lines in `PROJECT.json`.

## 2. Modules

| Module | Models | State and actions against the code |
|---|---|---|
| `DependencyOrder` | what `InDependencyOrder` and `InReverseDependencyOrder` promise | a phase per service; `Begin`, `Finish`, `Cancel`, `Return`: the abstract specification |
| `GraphTraversal` | `dependencies.go`: `visit`, `run`, `consume`, `updateStatus`, both directions, `WithRootNodesAndDown`, `maxConcurrency` | `status`, `seen`, `ignored`, `nodeCh`, `expect` are fields and locals of the same names; `loop` has the two goroutines that call `run`, `worker` that of each service; the errgroup is `groupErr`, `ctxDone` and the limit in `SlotFree` |
| `DependencyGraph` | `NewGraph`, `AddEdge`, `HasCycles` | the edges that are dropped or refused, then the depth-first search from one vertex after the other with the `discovered` and `finished` tables; maps are taken in any order |
| `ServiceStart` | `start.go`; `startService`, `waitDependencies`, `isServiceHealthy`, `isServiceCompleted` | containers and health; where `startService` is for each service; per waiter and dependency a poller. The walk is `DependencyOrder` |
| `Convergence` | `ensureService`, `mustRecreate`, `recreateContainer`, `createContainer`, `startContainer`, `stopAndRemoveContainer` | the containers of one service, the list the command made, its goroutines each at its next engine call; commands one after the other |
| `SharedEngine` | `ensureNetwork`, `removeDivergedNetwork`, `ensureVolume`, orphans, `start`, `down` | one network, one volume, two services and an orphan; commands at the same time, each at its next engine call, which may be killed |
| `Mounts` | `buildContainerVolumes`, `buildContainerBindMounts`, `fillBindMounts`, anonymous volumes, secrets and configs | a target over the containers that replace each other |
| `Configuration` | `getCreateConfigs`, `ServiceHash`, MAC addresses, endpoint settings, `mustRecreate` | the shared project object with its pointers; replicas made by goroutines; runs in one process or several |
| `Images` | `ensureImagesExists`, `pullRequiredImages`, `pull`, `build` with both builders, labels | registry, local images, the images known to the command; two services which may name the same |
| `ImageRemoval` | `ImagesToPrune`, `removeImage`, `down --rmi` | the three queries, then all removals at once; another command builds meanwhile |
| `ProcessDefinitions` | `pkg/config`, `procfile.Parse`, `LoadProcessesFromConfig` | files found, lines, settings, the manager's table |
| `RawProcess` | `pkg/process/process.go` | per process `State`, `cmd`, `stopCh`, the shell and `waitForProcess`; per caller the call it is in |
| `UpSession` | `up.go`, `monitor.go`, `kill.go`, the stop pass, `AdaptCmd` | handler of signals and keys, monitor, stop passes, kill, start and main as program counters; contexts, errors, exit code |
| `Logs` | `logs.go` with `monitor.go` | the list, a copy per container in the errgroup, the monitor with its listener; containers come, start, end and go |
| `Sweeps` | `pause.go`, `stop.go`, `kill.go`, `remove.go`, `restart.go`, `wait.go` | the command's list, one goroutine per container, the shared `err`; troubles from outside |
| `OneOffRun` | `cmd/compose/run.go`, `run.go`, `hook.go` | options, dependency, container, the goroutine that listens for the start and runs hooks |
| `Watch` | `watch.go`, `watcher_naive.go`, `debounce.go`, `tar.go` | notifier, debouncer, reader and handler joined by channels without room; content and container |
| `Terminal` | `tty.go`, `progress.go`, `shortcut.go`, `Watcher`, the loop of `up.go` | mutex, ticker goroutine and `Done`; starts and stops of watches, `errCh` |
| `Providers` | `plugins.go` | commands with their messages, metadata, options and variables; two providers and a dependent |
| `Models` | `model.go`, the keys of `shellout.go` | goroutines of one group and the `err` they share |
| `Publication` | `publish.go`, `internal/oci/push.go` | checks, layers level by level, manifests in two formats, index |
| `RemoteResources` | `git.go`, `oci.go` | the cache; processes that load, fail and die |
| `DryRun` | `dryrunclient.go` under `up` | the same steps through the pretending client and in earnest |
| `Loading` | `compose.go`, `config.go`, `loader.go` | flags, environment, file, labels; a session of commands |
| `CommandLine` | `up.go`, `create.go`, `options.go`, `compose.go` in `cmd/compose` | a chain of checks and changes from the flags to the call |
| `Queries` | `ps`, `images`, `top`, `port`, `volumes`, `ls`, `generate` | a list, concurrent inspections, the answer; the engine goes on |

Modules `MC...` choose the initial states for TLC.  Components that have nothing
to do with each other share a run, one of them in each behavior: `MCDecisions`
has fourteen parts (graph, volumes, containers, images, processes, publication,
providers, models, removal, remote, dry run, loading, command line, queries),
`MCCommands` a sweep or a one-off run, `MCWatch` a watch, the progress or the
menu, `MCUpSession` a session or logs.  `MCConvergence` adds a history variable
(there is one replica, and a command that failed is run again),
`MCSharedEngine` makes the third command run alone.  Parts that do not take
part keep one value.

`GraphTraversalProofs`, `ServiceStartProofs`, `ConvergenceProofs`,
`SharedEngineProofs`, `UpSessionProofs` (about `UpSession` and `Logs`), `WatchProofs`
(about `Watch`, `Terminal` and `RawProcess`), `CommandsProofs` (about `Sweeps` and
`OneOffRun`) and `DecisionsProofs` (about the parts of `MCDecisions`) hold theorems.

How they fit together: `GraphTraversal` implements `DependencyOrder` (checked
by `traversal`, proved as `WalkImplementsOrder`); `ServiceStart` takes the walk
from `DependencyOrder`, so that its results hold with the walk of the code in
its place.  `DependencyGraph` shows that the graphs `GraphTraversal` starts
from, the acyclic ones, are those `NewGraph` returns.  `Convergence` is one
visitor of the walk of `create`, with the hashes of `Configuration` and the
volumes of `Mounts`; `SharedEngine` takes a replacement as one step, in any
order of services.  `Terminal` takes a watch as one goroutine, `Watch` is what it
does; `DryRun` runs the steps of create, start and wait twice.

Conventions: choices that the code makes once (options, the graph, the
configuration) are variables chosen in `Init` that stay, so that one run covers
all of them.  A step is what happens between two points at which another
goroutine, the engine or another command can be noticed: an engine call, a
channel operation, a lock.  Definitions named `Bug...` stand before a
definition and are a plausible mistake in it: putting them in its place breaks
the property listed with them in `PROJECT.json`; no specification uses them.

## 3. What is checked

| Run | Question | Bounds |
|---|---|---|
| `traversal` | order, exactly once, faithful result, nothing left behind, the limit, refinement, termination | every acyclic graph of 3 services, both directions, every set of services named for down, `--parallel 2` |
| `decisions` | fourteen parts, one in each behavior (below) | below |
| `service_start` | is a container started only after its dependencies were in their condition during this command; what is a nil of `--wait` worth | web and db, every condition, db with 0 or 2 replicas with a health check |
| `service_start_timeout` | does start return when there is a timeout or the caller gives up | as above with 0 or 1 replica |
| `convergence` | never fewer containers, success means converged, commands do not get into their own way, one replica heals when a failed command is run again | 3 commands, scales 0 to 2, 3 configurations, 3 policies, 1 fault |
| `raw_process` | what a nil of `Stop` means, no shell outlives its context, `Stop` returns | 2 processes, 2 callers, 3 calls |
| `up_session` | the monitor, the teardown, the exit code; in other behaviors logs | 1 container and 3 troubles, or 2 and 1 trouble; logs: 2 containers and 2 troubles |
| `interrupted_up` | are containers stopped when up returns after a signal: no | as above |
| `shared_engine` | do two commands at once do what they say, is one retry enough, is data kept | 2 commands at once and a third alone, 1 death or failure |
| `watch` | does every change arrive, does a watch end; in other behaviors is progress shown and no watch unseen | 2 files under 4 combinations of rules, 2 edits, 1 failure; 1 task; 3 presses |
| `commands` | does each sweep report what happened and return; in other behaviors a one-off run | 3 containers of 2 services, 1 trouble |
| `wrong_project` | does a command work on the project that `-p` names: no | 2 commands, 1 disturbance |

The parts of `decisions`, with what is combined with what:

| Part | Property | Bounds |
|---|---|---|
| graph | `GraphIsRight` | all projects of 3 services enabled, disabled or unknown; all graphs of 4 services without edges to itself |
| volumes | `VolumesAreRight` | 1 target, 3 containers after each other |
| containers | `ContainersAreRight` | 2 replicas, 3 creations, 1 edit |
| images, removal | `ImagesAreRight` | 2 services that may share an image; the special options (image volume, dependent build, bake) one at a time. Two images with three names, 1 build beside the removal |
| processes | `DefinitionsAreRight` | 3 lines, 3 names of which two differ in case, limits of 2 |
| publication | `PublicationIsRight` | 3 files that extend each other in any way, cycles included; the refusals one at a time |
| providers, models | `ExtensionsAreRight` | 2 providers with 2 messages and 1, a dependent; 2 models |
| loading, command line, remote | `LoadingIsRight` | 2 commands and one disturbance between them; checks that refuse one at a time; 2 processes with 2 loads each, 1 crash |
| dry run, queries | `ShownIsRight` | 3 services, options one at a time; 2 replicas and a one-off in every state, 1 change |

Several properties are conjunctions of named parts, each of which has a comment
and, where it can be broken alone, a mutant of its own.  A part's type
invariant is one of the conjuncts.  The properties of a part speak of the
behaviors of that part only; its constant idle state in the others is not
looked at.

Why the bounds are enough.  *Graphs*: three services have chains, forks and the
join in which a service is released by two others at once, and a limit of 2
makes a goroutine wait for a slot; what four services add is longer chains, and
the theorems of section 5 do not depend on the number.  *Replicas*: what can go
wrong between replicas goes wrong between two.  *Commands*: one leaves a state
by failing, one meets it, and a third meets what the second left; a second
fault would hide the first.  In `shared_engine` the third command therefore runs
alone.  *Troubles* (a signal, a restart by somebody else, a call that fails):
with one container three are enough for a signal, a second one and a failure
between them; with two containers one is.  In `commands` one container changes
between list, inspection and call; a second change would concern another call.
*Calls* of the process manager: two that are concurrent and one that came
before.  *Watch*: two files are handled in one batch or in two, under the same
or different rules; one of them is saved while the other's batch is handled.
*Presses*: start, stop and start again.  *Options*: those that meet in one piece
of code are combined, the others are taken one at a time.  *Logs*: one container
is plain and one is special (a one-off, picked by `--index`, or mute); a line is
said at the end of each run of a container, so that losing one and showing one
twice can be told apart.  Every step of logs uses up something bounded, so that
its termination is stated by the invariant `WaitsForContainers`: where all
goroutines rest, all are over, or there are containers that logs waits for.

Symmetry is used where no property is temporal in a way symmetry would break
and no `CHOOSE` tells the values apart: configurations of `convergence` and
`shared_engine`, commands and services of the latter, containers of
`up_session`.  `CHECK_DEADLOCK FALSE` stands in the configurations of systems
that may stop: commands, calls or troubles are over.  `traversal`,
`service_start` and `service_start_timeout` are checked for deadlock.

### What the failing runs show

* **Interrupting up** (`interrupted_up`). `start` runs under a context without
  cancellation, beside the stop pass of the signal, and may start a container
  the pass has been at (`up.go:287`); the containers go on running.
* **The wrong project** (`wrong_project`). When `-p` and `-f` are given and the file
  cannot be loaded, `projectOrName` takes `COMPOSE_PROJECT_NAME` for the name
  (`cmd/compose/compose.go:258`): `stop`, `down` or `rm` act on another project.

## 4. Fairness

Safety is checked without fairness.  These specifications have it, always weak,
and always of what the Go scheduler or a timer brings about; no user, engine
event or caller's cancellation is ever taken for granted.

* `GraphTraversal`: the caller, the reader and the goroutine of each service.
  The scheduler runs every goroutine that can run, channel operations and
  slots included; that a *visitor* returns is the assumption under which
  `VisitTerminates` is stated.
* `ServiceStart`: starters, pollers, the return, and the timeout, which
  `context.WithTimeout` lets pass.  That a container becomes healthy or exits
  is not assumed, and `StartTerminates` is checked with a timeout only, since
  without one waiting for ever is what the code does.
* `RawProcess`: callers, the goroutine that waits, and the kill by
  `exec.CommandContext`; neither the shell nor what it started need ever end.
* `Watch`: the initial sync, the notifier, the debouncer and its timer, the
  reader and the handler; not edits, failures or the cancellation.
* `Terminal`: the ticker goroutine, the caller of `Done`, the loop of `up` and the
  goroutine of each watch; not events, presses or the user's detaching.
* `Sweeps`: the caller, the visitors of the walk and the goroutine of each
  container; not troubles.
* `OneOffRun`: the call that starts and attaches, the goroutine of the hooks, the
  return; that the container ends is not assumed.

## 5. What is proved

| Theorem | Module | Says |
|---|---|---|
| `TypeCorrect`, `VisitsInOrder`, `EachVisitedOnce`, `NothingIsLeftBehind` | `GraphTraversalProofs` | the walk visits in order, each service once, and leaves nothing running |
| `WalksAreSafe` | `GraphTraversalProofs` | the result is faithful, no dependent is left running by a partial walk, the limit holds |
| `WalkImplementsOrder` | `GraphTraversalProofs` | every step of the walk is a step of `DependencyOrder` or a stutter |
| `ConditionsBeforeStarts` | `ServiceStartProofs` | no container is started before its service's dependencies were in their condition |
| `WaitsAreKept` | `ServiceStartProofs` | a nil of `--wait` is worth what it says, unless it comes from the timeout |
| `SuccessesMeanStarted` | `ServiceStartProofs` | without a timeout, and with a health check on every service with replicas, a nil of `--wait` is worth that, and no exit from before the wait went unnoticed |
| `NeverFewerHolds` | `ConvergenceProofs` | whatever fails and wherever it is killed, `ensureService` leaves no fewer containers than it found, or than are wanted |
| `UndisturbedHolds` | `ConvergenceProofs` | types; dependents are told of containers that exist; a command does not fail over what it does itself, and leaves no temporary name |
| `ConvergedHolds`, `ReconciledHolds` | `ConvergenceProofs` | a nil means the wanted containers; one replica heals when a failed command is run again |
| `MonitorFollowsHolds` | `UpSessionProofs` | types; the monitor watches what runs, and ends only when nothing it watches runs |
| `ChosenExitCodeHolds` | `UpSessionProofs` | the exit code is that of the first end of the container that was named |
| `StopStopsAllHolds` | `UpSessionProofs` | a stop pass leaves nothing running but what was started behind it |
| `LogsAreRightHolds` | `UpSessionProofs` | types; logs shows no line twice and loses none, but for what the order of list, inspection and start allows; it waits only for containers |
| `UpMeansUpHolds`, `UpSucceedsHolds` | `SharedEngineProofs` | ups that return nil leave every service running, on the wanted network unless its container is adrift (an earlier command ended, or one of several lost the name of the network, after it was disconnected); of two equal ups none loses the race for the network for good |
| `DownMeansDownHolds` | `SharedEngineProofs` | downs that return nil leave nothing but what is still used |
| `DataKeptHolds` | `SharedEngineProofs` | no data of a volume is destroyed unasked |
| `ContainerFollowsHolds` | `WatchProofs` | once all is quiet the container has every file that was saved as the host has it, and has taken it up |
| `NothingHiddenHolds` | `WatchProofs` | the last event of a resource is on the screen; after unhurried presses there is at most one watch, which the menu shows |
| `ShellsReaped` | `WatchProofs` | types, the stages of a process, and a nil of `Stop` means that the shell was waited for |
| `SweepsAreHonestAlways` | `CommandsProofs` | types; a sweep that succeeds has made its call on every container, but for a lost error or a hook that could not run; what runs is spared |
| `RunIsRightAlways` | `CommandsProofs` | types; a one-off run reports what happened, and options win over the service |
| `GraphIsRightHolds` | `DecisionsProofs` | `NewGraph` refuses the projects with a cycle or without a required service, and no others |
| `ContainersAreRightHolds` | `DecisionsProofs` | a creation ends as the file declares; with all replicas if its process is new or told how many; it recreates none needlessly unless a MAC address or an interface name moves with the order of networks |
| `VolumesAreRightHolds` | `DecisionsProofs` | anonymous volumes keep their data, declared ones win, options reach the engine but a SELinux label where only the mount API will do; secrets and configs have their files mounted where no volume is declared, but where the image has a volume and the container before had a mount |
| `ImagesAreRightHolds` | `DecisionsProofs` | where no bake targets clash, `create` goes on with an image for every service, and labels are true but for a pull whose image could not be inspected; `down --rmi` takes images of the project only, and the last name of one in use only where another command's build took web's name from it |
| `DefinitionsAreRightHolds` | `DecisionsProofs` | a load that succeeds has every process as it is defined; one that fails has a reason |
| `PublicationIsRightHolds` | `DecisionsProofs` | what is reported as published is whole, but for env files that cannot be read; the recursion through `extends` is shallow unless files extend each other, when it does not end |
| `ExtensionsAreRightHolds` | `DecisionsProofs` | providers are ready before what uses them; on success every model is configured, and there unless its failed pull was overwritten in the shared `err`; a failure has a cause |
| `LoadingIsRightHolds` | `DecisionsProofs` | what is fetched of a version is whole, or the load fails with a cause, unless a process was killed while it filled that version's directory or two loaded it at once; commands work on one project and stop what they started; `up` and `create` ask for what was said, and for what can be done |

**The walk**, for every finite set of services, every acyclic graph, every limit
and both directions, from the three assumptions of `GraphTraversal` (there are
services, finitely many; `NoService` is none of them; the limit is an integer).
`VisitInOrder` is not inductive: the walk looks at the *status* of neighbours, and
takes a decision in `CheckNode` that `SpawnWorker` carries out later.  `OrderInv`
adds that a status is the target exactly for the services whose visitor
succeeded (`StatusInv`), that what the two goroutines hold between check and
`eg.Go` has all it waits for done (`RunnerInv`), that a service to be spawned is
in `seen`, has no goroutine yet and is held by one of the two only (`SeenInv`),
and that a visitor that failed has returned (`FailedInv`).  `ReturnInv` says that
after the return the reader is done, the caller not in `run`, and no worker
works.  `WalkInv` adds `CountInv`, `ErrInv`, `IgnoreInv` and `LimitInv`: the reader still
expects the services it has not received, and what is in the channel was sent
once; where an error of the group, and its cancellation, come from; which
services a partial walk passes over; and how many work at a time.  The refinement maps a service's phase to where its
worker is; the step simulations are stated action by action.

**Starting services**, from the assumptions of `ServiceStart` (the project is not a
service, there is a bound on replicas, options are Booleans).
`ConditionBeforeStart` relates a start to observations that pollers made one
after the other, of containers that change meanwhile.  `StartInv` is the
conjunction of these: what a container is now it has been in this command
(`EngineInv`); the containers `startService` is done with have run (`RanInv`); the
order of the walk (`OrderInv`); a poller past a container has seen it in its
condition (`PollInv`); a waiter has a poller for each dependency it requires
(`WaitInv`); and a service that is about to start, or a project whose wait has
returned nil, has all it waited for (`GuardInv`, `KeptInv`), unless a timeout or the
cancellation came in between.  The proof shows where the timeout is needed:
`WaitIsKept` holds while the project's waiter is not in `expired`.
`SuccessMeansStarted` looks back to the start of the wait.  `DeathInv` says that a
container that is dead stays so once the walk is over (`DeadInv`: nobody is left who
starts it), that a poller does not get past a dead container it looks at (`NoticeInv`),
and so that a poller which is done, or a nil, has none behind it (`ExitsInv`).  The
hypothesis that replicas come with a health check says for which containers the code
looks; without it the property fails, as section 6 says.

**Convergence**, for any sets of configurations, scales (natural numbers) and
policies, and any number of commands and faults.  The four theorems rest on one
invariant, `Inv`, of five parts.  `Typed` holds the types and what is finite.
`Counted` is the reason for `NeverFewer`: the containers there are, and those
others removed, are at least as many as the tasks that take one (a recreation
before it creates, a start), the part of the scale that the loop has passed, and the
containers it has not come to.  A recreation keeps the sum because it creates
before it removes; a removal is decided only beyond the scale.  `Apart` says that
no two tasks are about one container, `Accounted` that every container is in
`rest`, in `updated` or in a task, as long as nothing was disturbed, and `Smooth`
that without faults the names a task will take are free: the only temporary name
in use is that of a recreation at work.  For `Converged`, `Facts` ties the
containers of the list to what they are now, and `Tally` counts: those that are
up to date and the tasks that build one are together the part of the scale
passed so far.  For the last theorem `Lone` describes the few states that one
replica can be in.  Its proof showed that the property must be about the *same*
command run again: one that wants a third configuration, after a recreation from the
first to the second was killed between create and remove, meets two containers
with one number and fails over the temporary name.  `Reconciled` now says so, and
the run has three configurations, without which the case cannot happen.

**The up session**, for any containers, codes and troubles, from
`CodesAssumption` and `MaxTroublesAssumption`.  What the monitor believes is late
by the events not yet read, so `Follows` relates three things: a container that runs
and is not watched has a start among these events, one that is watched and does not
run has an end among them after which no start comes, or one nobody was told of.
`Passings` says that a container not watched was passed by, and that one which runs
then was revived by a command.  `Choice` follows the first end of the named
container: not yet told, in the events as the first of its kind (`FirstEnd`), or
captured.  `Stops` says of a pass what it has left to do: a container that runs is in
its `todo`, or was started behind it.

**Logs**, for any containers and any number of starts and removals, from
`TroublesOfLogs`.  A line is lost or shown twice between goroutines that know nothing of
each other: the list, a copy for each entry, the monitor and a copy for each start.
`LogCovered` says that every run of a listed container is somebody's: it began before the
subscription (`untold`), there is a copy for it, its start is in the events not yet read,
or it is the first and belongs to the copy for the list, which then has it within what it
reads (`FirstListed`).  `CopyOK` says what a copy has shown: nothing before the run it is
for, and at its end all from `since` to `upto` unless something failed; for this
`LogEngine` has that a run which is over has said its line.  `LogWatch` is the reason why
logs ends: once the monitor was told of the last run of a container that does not run, it
does not watch it, or has that end still to read behind every start.

**The shared engine**, for any services, orphans and configurations, any number of
processes, commands and deaths.  A theorem about many commands at once needs
to say what each may rely on while the others go on.  In `UpInv`, of ups with the same
options since the engine was last left alone: a network or a volume that diverges was
there before, and no command has passed the calls that put it right
(`BadNetworkStays`, `BadVolumeStays`); a service with a wrong container likewise
(`WrongStays`); a service that does not run is owed by some command that has yet to
start it, or there was none that returned nil (`SomebodyStarts`, `SomebodyWorks`).
A service may be off the network only if it is `adrift`: so it was when these ups began,
or one of several lost the network's name after it had disconnected the container.
In `DownInv`, what a down still finds is in its `todo`, or something that it may leave.
`RetryInv` says where the second try of `ensureNetwork` is enough: one of two commands
creates only while the other is not removing.  It is the one theorem with an assumption
on the number of processes, `TwoProcesses`, and not general without it (section 7).
`DataKept` needs that the options of a command that runs alone are those recorded for it
(`FirstAlone`).  In each proof a lemma per action says what it changes in plain facts,
and each layer has a lemma that it is kept by anything with such facts; the proof of
`RetryIsEnough` showed that the property had looked at failures of commands before
the period it is about, and `period.lost` replaces them.

**Watch**, for any files and rules, and any number of edits and of calls that fail.
A file that was saved is on its way (told by the system, held or gathered by the
debouncer), in the batch that is handled, or settled.  A step of a batch may rely on
what the step before saw only up to a later save, so each part of `ContentInv` and
`TakenInv` says of a file: it was saved again, and is on its way, or it is as it was then.
So `ToldApart` has that what is to be deleted is what the host lacks, `Rebuilt` that copies
do not undo what the new image brought, `RestartedTaken` that hooks find the container as
the restart left it.  **The menu**: `Exclusive` is the mutex of the watcher; `InOrder` holds
as long as no key was pressed during a start and the session goes on (`Orderly`): one
start at a time, none while a watch is on, `stopFn` reaches the one that is, and a stop
meets no start.

**Raw processes**, for any processes and callers, from `MaxCallsAssumption`.
`StopMeansReaped` needs that the fields of a process belong together
(`ProcessOK`, `StagesOK`, `StoppedOK`), that a process that was reaped has a shell
that ended (`EndedInv`), which holds for ever because `Start` refuses what was
started before, and that a call of `Stop` or `StopAll` may count on every process
it is done with (`FoundInv`).

**Sweeps**, for any containers of the two services and any number of troubles, from
`SweepsAssumption` (the services share no container).  `SuccessMeansSwept` is about the
end; `Swept` tells what a goroutine has done from where it is: one that reads the
shared `err` has made its call or has been refused, and so has one before its last hook;
only where `err` is shared can a refused one be done.  `AllDone` says that a nil
was returned when all were done, `CommandOK` and `TasksOK` that calls are those of the
command and made only in a sweep.  `Spared` is what makes `rm` safe: what was chosen had
ended, and if it runs, others have started it since.

**One-off runs**, without an assumption.  `Progressed` and `StartTold` say how far the
container is by where the call is, `DependencyWaited` that a dependency that is awaited
was up before the container is created, and `HooksFollow` that the goroutine of the
hooks has its event only from the start, and its nil from a hook that ran or a
container that ended.

**The decisions.** A part of `MCDecisions` moves alone, so what is proved of its actions
holds of `MCSpec`; each theorem states the property of the run with one invariant of its
own.

* *Graph*, for any services and dependencies, from `NamesAssumption` and
  `FewAssumption`.  `FindsCycle` is a recursive function, and what such a function yields
  needs an induction, which the provers lack: `SearchExists` therefore builds it as a least
  fixed point, and `LongestPath` takes the place of the induction: of the paths on which the
  search would be wrong there is a longest one.
  `SearchInv` says of the tables that a vertex in `finished` is `Clear`: no cycle can be
  reached from it.
* *Volumes*, for any names, paths and number of containers, from `MountsAssumption`.
  `Aged` is the strengthening: an anonymous volume is no younger than its container.
* *Containers*, for any `Scale`, `MaxRuns` and `MaxEdits`.  `Objects` is the set of states that the
  shared project object can have of a file, whoever has written to it, and `Labels` the
  hashes that come of these; `Progressing` says of a creation at work that what it is through
  with is as declared, and that what it should add is wanted or under way.
* *Images*, for any file.  `AfterPull` and `AfterBuild` say which images are known between
  the steps, `KnownRight` that what is known is what the engine has, but for the two
  exceptions it names.  The hypothesis `TargetClash = FALSE` is the finding of section 6.
  *Removal*: `PruneRight` gives a reason for each name that is to be removed, `OnlyLess`
  that the images of before only lose names, `Processed` what is left of what was listed, for
  any number of builds beside it.
* *Process definitions*, for any files and limits, from `ManagerAssumption`.  The manager's
  table is described phase by phase: `FromProcfile` while the definitions of the Procfile are
  added, `FromSettings` while those of the toml file replace them.
* *Publication*, for any files and options.  `StepRight` says what has been prepared and
  uploaded at each step, `Depth` how far the recursion can be.
* *Providers*: `VisitRight` relates where a visit is to the child, its pipe and the variables that
  were read, `WebRight` what the dependent waits for.
* *Models*, for any set of models.  All goroutines assign to one `err` and then test
  it.  `ModelsInv` says that what a goroutine has done can be told from where it is
  (`StartInv`, `StageInv`), that one that was not warned by the shared `err` has pulled
  its model or another has pulled another (`SharedInv`), that the first failure had
  a cause (`CauseInv`), and what the end is made of (`EndInv`).
* *Remote resources*, for any number of loads and of processes killed.  That a directory of
  the cache is whole when nobody is at work on it cannot be seen from the directory: it is
  `Unspoilt`, for versions at which no process was killed at work.  One that no two processes
  have loaded at once is described by `AloneWith`, which says how far its one writer has come;
  one of a repository by `OneWrites`: only one gets past `git remote add`, so that one writes.
* *Loading*, for any number of commands.  `AtHand` says what project a command has before it
  runs, `HashPrinted` that the hashes printed are those of services whose `env_file` is not resolved.
  `Unbroken`, which holds until somebody edits the file or removes a container, says that each
  container has those its service depends on beside it; that is why a `start` by name, which
  knows only what containers tell, misses none of them.
* *Command line*, for any flags.  The stages are a chain, and `Displayed`, `Limited`,
  `Validated`, `Checked`, `Agreed`, `Applied`, `Ready` and `Called` are the stages from one
  on: `FlagsRight`, `SessionRight` and `ServicesRight` say what each stage has brought, for
  all that come after it, `CallRight` what the call is made of.

Each proof has one lemma per action and combines them in a lemma for `Next`; the
temporal step is the last.

Only model-checked:

* `WaitNoticesExits` of `ServiceStart`, which is not general: it fails for replicas
  without a health check.
* `ShownIsRight` of `MCDecisions`.  `StepsAgree` of `DryRun` compares two runs of the same
  steps, and the answers of `Queries` are folds over sequences made of sets, about which the
  provers can find nothing without an induction.  Both have few steps from what was
  chosen, and TLC tries every choice within the bounds.
* Liveness under fairness, and induction over data, which are beyond the provers.

## 6. Where the code departs from what is said of it

Two such properties are runs.  These others were found violated in the same way;
their comment in the module quotes the sentence they state.  To see one, check
it with `Spec`, `CHECK_DEADLOCK FALSE` and the constants of `Decisions.cfg`, or
with what the last column says.

| Property | What happens | With |
|---|---|---|
| `WaitIsKept` | a poller whose timeout is over while it waits for its ticker returns nil: `--wait-timeout` may report success | `ServiceStartTimeout.cfg` |
| `WaitNoticesExits` | `isServiceHealthy` returns at the first replica without a health check; the others are not looked at | `ServiceStart.cfg`, `DbHealthcheck = FALSE` |
| `StopReturns` (`RawProcess`) | a child of the shell that holds the output pipe keeps `cmd.Wait` and so `Stop` waiting | `MCRawProcess` with `MCSpec`, one process and one caller, `MaxCalls = 3` |
| `RetryHeals` | two replicas do not heal after a kill: the temporary name of the replacement may be taken | `Convergence.cfg` |
| `RecreatedWithNetwork` | containers put on the successor of a diverged network lose their aliases | `SharedEngineReplace.cfg` |
| `ServicesOnNetwork` | an up that ends between disconnecting the containers from a diverged network and connecting them to the next leaves them on none; the up after it starts them as they are and returns nil | `SharedEngineReplace.cfg`, `Deaths = 1, MaxCommands = 3` |
| `SessionKeepsScale` | `ServiceHash` clears the replicas of the shared object: a rebuild in the same process leaves one | `Scale = 2, MaxRuns = 3, MaxEdits = 1` |
| `OnlyDivergedRecreated` | replicas with an address or interface name get different labels and are recreated | same |
| `BuiltWhatWasAsked` | bake targets whose names differ by a dot and an underscore are one (`build_bake.go:154`) | `ImagesClash.cfg` |
| `AlwaysIsFresh` | `pull_policy: always`, the pull fails: an older local image is used, not a build (`pull.go:336`) | `Images` |
| `LocalKeepsCustomTags` | `--rmi local` removes images with a custom tag if compose built them | `ImageRemoval` |
| `ClonedAndUsed` | after a failed fetch the commit's directory in the cache is empty and stays so | `RemoteResources`, `MaxLoads = 2, MaxCrashes = 0` |
| `NothingPartial` | a killed pull of an artifact leaves a part, which is then used | `RemoteResources`, one crash |
| `ShowsAllSteps` | stopped containers count as running: restarts of dependents are not shown; a diverged network is removed in pretence and found again (`create.go:1371`): that its containers are started again is not shown | `DryRun` |
| `ChangesNothing`, `Ends` | a dry run runs providers and models; `service_completed_successfully` never ends | `DryRun` |
| `OnlyAnonymousInherited` | volumes that are no longer declared are inherited | `Mounts` |
| `OverrideAnyCase` | a toml definition of `Web` does not replace the Procfile's `web` and is refused | `ProcessDefinitions` |
| `WithEnvPublishes` | `publish --with-env` panics with an `env_file` in an extended file | `Publication` |
| `NoKeysLeft` | keys that could not all be written are left in the temporary directory | `Models` |
| `RunAlwaysReturns` | `run` with hooks waits for ever when the start passes while it subscribes | `OneOffRun` |
| `DropsAtFirstExit` | `wait --down-project` waits for all containers | `Sweeps`, `Kinds = {"wait"}` |
| `MountsOnce` | `generate` repeats mounts and ports for each replica | `Queries` |
| `OneMoment` | `ps` shows the listed state with the exit code of a later inspection | `Queries` |
| `DoneAlwaysReturns` | `Done` locks and sends (`tty.go:185`) while the ticker goroutine waits for the same mutex in `print` (`tty.go:171`, `296`): neither goes on | `MCWatch` with its `MCSpec`, `MaxPresses = 0` |
| `DoneReturnsInterrupted` | `Done` hangs when the ticker goroutine has left for the cancellation | `Terminal`, `MaxPresses = 0` |
| `OnlyTheIndex` | `logs -f --index 1` shows the other replicas once they start | `MCUpSession`, `UpSession.cfg` |

Smaller observations, which the models contain where they can matter:

* *Logs*: a container removed before its log is opened ends the command with an
  error; runs between list and subscription are not shown; quick restarts show
  lines twice or lose a run; `-f` waits for ever for containers that have ended.
* *Images*: images of the classic builder have no project label, and its
  `--push` pushes the whole project after each build; an image volume ignores the
  explicit image of the service it names; `compose create web` builds named
  services only.
* *Publication*: it does not end when files extend each other; relative `extends` of
  files in subdirectories are looked up in the project's directory; a file
  reached on two levels is pushed twice.
* *Providers*: after a message that makes no sense the child is not waited for;
  `project.Services` is written under a mutex and read without it.  *Models*: the
  error of `ListModels` is ignored; `Pulled` is shown after a failed pull.
* *Removal*: `unlabeledLocalImages` does not look at labels; of a labelled image only
  the first tag is removed; `down web` acts on all networks, volumes and images.
* *Remote resources*: two processes append to the same files of an artifact.
* *Dry run*: concurrent creations append to one list and may lose containers; a
  first non-empty list is kept; hooks with a listener are refused.
* *Loading*: `durablecompose.toml` is read by `ToModel` only; `config --hash` differs
  from the label of services with an `env_file`; `start` by project name is refused when an
  optional dependency has no container, `start` by file is not.
* *Command line*: `--no-ansi` loses to `COMPOSE_ANSI`; `create` ignores
  `COMPOSE_REMOVE_ORPHANS` and never asks about remote files; only the first `-f` is
  looked at for them; `--wait` with `--no-start` and `--quiet-pull` for builds are ignored; a
  negative `--scale` is accepted.
* *Queries*: `volumes web` looks at running containers only; `images` fails as a
  whole when one image is gone.
* *Sweeps*: the shared `err` may hide a failure in `unpause` and `restart`; a `pre_stop`
  hook makes `stop` pass over a paused container with success; `rm --force`
  may remove a container started since it was inspected.
* *Runs*: when an env file cannot be parsed `getEnvironment` returns no error, and `-e`
  is dropped as well (`cmd/compose/run.go:133`).

## 7. Reading the results with care

* A nil of the walk does not mean that every service was visited when the
  caller gave up: the reader leaves and the group has no error of its own.
  `ResultIsFaithful` says so.  After cancellation the limit may be exceeded
  by one visitor, because the slot of the reader is free (`ParallelLimit` speaks
  of the time before).
* In `ServiceStart` the visitor gets the caller's context, as in the code, so
  the failure of a service does not stop visitors at work.
* In `Convergence` the order in which obsolete containers are taken is arbitrary:
  the comparison function of the code is not an order there.  Dependents that
  are stopped before a recreation are one variable, whose stop is one step.
* In `SharedEngine` the project has one network and one volume; external networks,
  and what a service mounts, are elsewhere.  `RetryIsEnough` is about two processes: with
  three equal ups TLC finds that the second to remove a diverged network takes away the
  one on which the first try of the third failed, and its second try fails as well.
  `UpMeansUp` excepts containers adrift (section 6).  Containers are known by their
  names where the code has IDs; `down` stops and removes one in one step
  (`down.go:348`), and that it tolerates a conflict there (`down.go:363`) is left out.
* In `RawProcess` the checks of names and commands and the limit of 1000
  processes are left out; `Signal` is one of the ways a shell ends.  The look at the context
  (`process.go:241`) and `cmd.Start` are one step.
* In `UpSession` events are read in the order in which the engine sends them; a
  container whose end the monitor was not told (`silent`) is waited for, as in
  the code; the write of `err` by two goroutines is a race and modelled as one;
  stopped containers exit with code 0; `isTerminated` is set in the step that
  begins the teardown.  A handler that is not waiting when the signal comes may
  take the branch of `globalCtx` and return without a teardown: that is in the
  model, and `SignalStops` speaks only of the case in which the teardown began.
  With `--abort-on-container-failure` and `--exit-code-from` together a later
  failure overwrites the chosen code, so `ChosenExitCode` is about
  `--abort-on-container-exit`.  The copies of logs that `up` makes, the printer and
  the watcher are left out; copies and monitor of `logs` are in `Logs`.
* In `Watch` the files are assumed to be in the context of the build.  The goroutine
  of the debouncer may stay blocked on a batch nobody reads once the watch is
  over (`debounce.go:48`): `WatchEnds` is about the watch, not about it.
* In `Terminal` the progress is that of one task.  `Run` passes `err != nil` as success to `Done`
  (`progress.go:31`), which no writer uses.  While a build has the screen the
  ticker is suspended (`tty.go:207`).  `DoneReturns` excepts a cancelled command, and the
  deadlock of `Done` with the ticker goroutine (`DoneIsStuck`, section 6): it says that
  there is no other way to hang.
* In `Sweeps` one container is met by at most one trouble.  A `restart` whose
  dependency never gets healthy has no timeout: `SweepsReturn` excepts it.
* In `OneOffRun` the return excepts a start that went by while the goroutine was
  subscribing (`missed`).
* In `RemoteResources` a version is excepted once a process was killed while it filled
  its directory (`spoilt`) or has been loaded by two at once (`shared`); both can leave a
  part of it that later loads take for the whole.
* In `Models` a success may have lost the failure of a pull to the success of another
  (`model.go:62`): `ReadyOnSuccess` says that nothing else is lost.
* In `Mounts` the refusals of external secrets and configs and of those with a driver,
  those made of an environment variable or of content, and mounts of type image are
  left out.
* In `Providers` the command that tells a provider's metadata, which is run without the
  context (`plugins.go:209`) and may hang, is left out.
* In `CommandLine` a negative `--wait-timeout` (`up.go:191`), the refusal of an empty selection
  (`up.go:140`) and services that opt out of being attached (`up.go:321`) are left out.
* In `DryRun`, `Publication`, `Images` and `Loading` properties name the cases in
  which the code is known to depart (section 6), so that within the model they say
  that there are no others.

## 8. Not modelled

* *Exec, attach and copy* forward one call of the engine each.
* *Ignore patterns and paths* are matching of texts, without steps.
* *The plain, JSON and quiet writers* print or drop each event as it comes.
* *Lock files*: `Lock` is one call of a library.
* *Tracing, desktop*: wrappers around calls that decide nothing.
* Of the components that `PROJECT.json` calls partly modelled: fields that are
  copied as they are, flags that are handed on, the layout of tables and lines,
  how a build file is written, what the compose library makes of a file, the
  protocol of a registry, the commands of `bridge`, `events` and `viz`.

## 9. Plan

The plan of the beginning (walk, start, convergence, processes, up, engine
resources, watch, progress, one-off runs and sweeps, images, definitions) is
done.  What would add most now:

1. Theorems: `DryRun`, by a relation between the two runs at each step, as a part of
   `ShownIsRight`.
2. An abstract specification of `up`, which `SharedEngine` and `Convergence` both
   implement: the state after a success.
3. `events` and `viz` in `Queries`; the copies of logs in `UpSession`, with the printer.
4. Matching of ignore patterns as operators, against the definition in their
   documentation.
