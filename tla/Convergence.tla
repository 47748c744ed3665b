---------------------------- MODULE Convergence ----------------------------
(***************************************************************************)
(* convergence.ensureService (pkg/compose/convergence.go) for one service: *)
(* create, up or scale lists the containers of the project and brings      *)
(* those of the service to the wanted number and configuration.  The loop  *)
(* over the list launches one goroutine for every container to remove, to  *)
(* recreate or to start, then one for every container to add, and waits    *)
(* for all of them in an errgroup, whose first error cancels the others.   *)
(*                                                                         *)
(* The engine outlives the command.  A command may fail or be killed       *)
(* between any two calls to it, other commands remove or pause containers, *)
(* and the next command starts from whatever is there.                     *)
(***************************************************************************)
EXTENDS Integers, FiniteSets, FiniteSetsExt

CONSTANTS Configs,      \* Configurations of the service: its hash, image, networks and volumes
          Scales,       \* Numbers of replicas a command may want
          Policies,     \* Subset of {"diverged", "force", "never"}
          MaxCommands,  \* Bound: commands run one after the other
          Faults        \* Bound: engine calls that fail, kills, containers removed or paused by others

ASSUME ScalesAssumption == Scales \subseteq Nat
ASSUME PoliciesAssumption == Policies \subseteq {"diverged", "force", "never"}
ASSUME BoundsAssumption == MaxCommands \in Nat /\ Faults \in Nat

VARIABLES
  containers,  \* The engine: containers of the service by ID
  nextID,      \* IDs below this one have been given out; later containers are younger
  dependents,  \* Containers of services with restart: true on this one are "running" or "stopped"
  faults,      \* Faults so far, in this and in earlier commands
  faultsBefore,\* Faults when the command began
  commands,    \* Commands so far
  phase,       \* "idle", "loop", "wait", "ok" or "failed"
  want,        \* The command's configuration, scale and policy
  observed,    \* getObservedState: the containers as they were listed, by ID
  rest,        \* IDs the loop has not come to yet
  tasks,       \* Goroutines of the errgroup that have not returned
  cancelled,   \* The errgroup's context is cancelled: a goroutine has failed
  updated,     \* IDs of the containers ensureService sets as observed for its dependents
  lost         \* Containers others removed since the command listed

engine  == <<containers, nextID, dependents>>
command == <<commands, faultsBefore, phase, want, observed, rest, cancelled, updated>>
vars    == <<engine, faults, command, tasks, lost>>

IDs == DOMAIN containers

(* The container name is that of a number, or a temporary one with the ID  *)
(* of the container that is being replaced.                                *)
Name(n)        == [replaces |-> 0, number |-> n]
TmpName(id, n) == [replaces |-> id, number |-> n]

NameTaken(name) == \E id \in IDs : containers[id].name = name

(* A goroutine, at the engine call it does next: "remove" and "recreate"   *)
(* go over the call named by at, on the container id; "create" adds number.*)
Removal(id)      == [kind |-> "remove", id |-> id, number |-> 0, at |-> "stop"]
Recreation(id)   == [kind |-> "recreate", id |-> id, number |-> observed[id].number, at |-> "create"]
Start(id)        == [kind |-> "start", id |-> id, number |-> 0, at |-> "start"]
Creation(number) == [kind |-> "create", id |-> 0, number |-> number, at |-> "create"]

----------------------------------------------------------------------------
Init ==
  /\ containers = << >>
  /\ nextID = 1
  /\ dependents = "running"
  /\ faults = 0
  /\ faultsBefore = 0
  /\ commands = 0
  /\ phase = "idle"
  /\ want \in [config : Configs, scale : Scales, policy : Policies]
  /\ observed = << >>
  /\ rest = {}
  /\ tasks = {}
  /\ cancelled = FALSE
  /\ updated = {}
  /\ lost = {}

(* The command lists the containers.  Goroutines of an earlier command     *)
(* died with its process.  Dependents may have been started meanwhile.     *)
Begin ==
  /\ phase \in {"idle", "ok", "failed"}
  /\ commands < MaxCommands
  /\ commands' = commands + 1
  /\ phase' = "loop"
  /\ want' \in [config : Configs, scale : Scales, policy : Policies]
  /\ observed' = containers
  /\ rest' = IDs
  /\ tasks' = {}
  /\ cancelled' = FALSE
  /\ updated' = {}
  /\ lost' = {}
  /\ dependents' = "running"
  /\ faultsBefore' = faults
  /\ UNCHANGED <<containers, nextID, faults>>

BugMustRecreate(id) ==
  \/ want.policy = "force"
  \/ want.policy = "never" /\ observed[id].config # want.config

(* The container's labels, networks and volumes differ from the wanted     *)
(* ones, or the policy decides without looking.                            *)
MustRecreate(id) ==
  \/ want.policy = "force"
  \/ want.policy = "diverged" /\ observed[id].config # want.config

(* The containers the sorted and reversed list may have next: up-to-date   *)
(* ones by number, then the obsolete ones, which the comparison puts before*)
(* each other both ways, so that sort.Slice may leave them in any order.   *)
NextInLoop ==
  LET fresh == {id \in rest : ~MustRecreate(id)}
  IN  IF fresh = {} THEN rest
      ELSE {id \in fresh : \A other \in fresh : observed[id].number <= observed[other].number}

Index  == Cardinality(DOMAIN observed) - Cardinality(rest)
ScaleDown(id) == Index >= want.scale

LoopStep(id) ==
  /\ phase = "loop"
  /\ id \in NextInLoop
  /\ rest' = rest \ {id}
  /\ UNCHANGED <<containers, nextID, faults, commands, faultsBefore, want, observed, cancelled, lost>>

LoopRemoves(id) ==
  /\ LoopStep(id)
  /\ ScaleDown(id)
  /\ tasks' = tasks \cup {Removal(id)}
  /\ UNCHANGED <<phase, updated, dependents>>

BugLoopRecreates(id) ==
  /\ LoopStep(id)
  /\ ~ScaleDown(id)
  /\ MustRecreate(id)
  /\ dependents' = "stopped"
  /\ tasks' = tasks \cup {Removal(id), Creation(observed[id].number)}
  /\ UNCHANGED <<phase, updated>>

(* stopDependentContainers, then the goroutine of recreateContainer.       *)
LoopRecreates(id) ==
  /\ LoopStep(id)
  /\ ~ScaleDown(id)
  /\ MustRecreate(id)
  /\ dependents' = "stopped"
  /\ tasks' = tasks \cup {Recreation(id)}
  /\ UNCHANGED <<phase, updated>>

LoopKeeps(id) ==
  /\ LoopStep(id)
  /\ ~ScaleDown(id)
  /\ ~MustRecreate(id)
  /\ updated' = updated \cup {id}
  /\ tasks' = IF observed[id].state = "paused" THEN tasks \cup {Start(id)} ELSE tasks
  /\ UNCHANGED <<phase, dependents>>

(* An error of the engine in the loop, from stopDependentContainers,       *)
(* returns without waiting for the goroutines launched before.             *)
LoopReturnsEarly(id) ==
  /\ faults < Faults
  /\ phase = "loop"
  /\ id \in NextInLoop
  /\ ~ScaleDown(id)
  /\ MustRecreate(id)
  /\ phase' = "failed"
  /\ faults' = faults + 1
  /\ UNCHANGED <<engine, commands, faultsBefore, want, observed, rest, tasks, cancelled, updated, lost>>

BugNextContainerNumber == Cardinality(DOMAIN observed) + 1

NextContainerNumber == Max({0} \cup {observed[id].number : id \in DOMAIN observed}) + 1

(* The loop is done: launch what is missing and wait.                      *)
ScaleUp ==
  LET missing == want.scale - Cardinality(DOMAIN observed)
  IN  /\ phase = "loop"
      /\ rest = {}
      /\ phase' = "wait"
      /\ tasks' = tasks \cup {Creation(NextContainerNumber + i) : i \in 0..(missing - 1)}
      /\ UNCHANGED <<engine, faults, commands, faultsBefore, want, observed, rest, cancelled, updated, lost>>

----------------------------------------------------------------------------
(* The goroutines.                                                         *)

Goes(t, at) == tasks' = (tasks \ {t}) \cup {[t EXCEPT !.at = at]}
Ends(t)     == tasks' = tasks \ {t}

Created(name, number) ==
  /\ containers' = [id \in IDs \cup {nextID} |->
       IF id \in IDs THEN containers[id]
       ELSE [name |-> name, number |-> number, config |-> want.config, state |-> "created"]]
  /\ nextID' = nextID + 1

Becomes(id, field) == containers' = [containers EXCEPT ![id] = field]
Gone(id) == containers' = [i \in IDs \ {id} |-> containers[i]]

(* A goroutine returns an error: of the engine, or of the context that a   *)
(* failure or the caller has cancelled.                                    *)
Fails(t) ==
  /\ Ends(t)
  /\ cancelled' = TRUE
  /\ UNCHANGED <<engine, faults, commands, faultsBefore, phase, want, observed, rest, updated, lost>>

Progress == UNCHANGED <<dependents, faults, commands, faultsBefore, phase, want, observed, rest, cancelled, lost>>

(* stopAndRemoveContainer: a container that is not there any more is a     *)
(* container removed.                                                      *)
StopToRemove(t) ==
  /\ t.kind = "remove" /\ t.at = "stop"
  /\ IF t.id \in IDs
     THEN Becomes(t.id, [containers[t.id] EXCEPT !.state = "exited"]) /\ Goes(t, "remove")
     ELSE Ends(t) /\ UNCHANGED containers
  /\ UNCHANGED <<nextID, updated>>
  /\ Progress

ForceRemove(t) ==
  /\ t.kind = "remove" /\ t.at = "remove"
  /\ Gone(t.id)
  /\ Ends(t)
  /\ UNCHANGED <<nextID, updated>>
  /\ Progress

(* recreateContainer: create the replacement under a temporary name, stop  *)
(* and remove the container, give its name to the replacement.             *)
TmpNameOf(t) == TmpName(t.id, t.number)

CreateReplacement(t) ==
  /\ t.kind = "recreate" /\ t.at = "create"
  /\ ~NameTaken(TmpNameOf(t))
  /\ Created(TmpNameOf(t), t.number)
  /\ Goes(t, "stop")
  /\ UNCHANGED updated
  /\ Progress

StopReplaced(t) ==
  /\ t.kind = "recreate" /\ t.at = "stop"
  /\ t.id \in IDs
  /\ Becomes(t.id, [containers[t.id] EXCEPT !.state = "exited"])
  /\ Goes(t, "remove")
  /\ UNCHANGED <<nextID, updated>>
  /\ Progress

RemoveReplaced(t) ==
  /\ t.kind = "recreate" /\ t.at = "remove"
  /\ t.id \in IDs
  /\ Gone(t.id)
  /\ Goes(t, "rename")
  /\ UNCHANGED <<nextID, updated>>
  /\ Progress

Replacements(t) == {id \in IDs : containers[id].name = TmpNameOf(t)}

BugRenameReplacement(t) ==
  /\ t.kind = "recreate" /\ t.at = "rename"
  /\ ~NameTaken(Name(t.number))
  /\ \E id \in Replacements(t) : updated' = updated \cup {id}
  /\ Ends(t)
  /\ UNCHANGED <<containers, nextID>>
  /\ Progress

RenameReplacement(t) ==
  /\ t.kind = "recreate" /\ t.at = "rename"
  /\ ~NameTaken(Name(t.number))
  /\ \E id \in Replacements(t) :
       /\ Becomes(id, [containers[id] EXCEPT !.name = Name(t.number)])
       /\ updated' = updated \cup {id}
  /\ Ends(t)
  /\ UNCHANGED nextID
  /\ Progress

(* createContainer for one more replica.                                   *)
CreateReplica(t) ==
  /\ t.kind = "create"
  /\ ~NameTaken(Name(t.number))
  /\ Created(Name(t.number), t.number)
  /\ updated' = updated \cup {nextID}
  /\ Ends(t)
  /\ Progress

(* What the engine refuses: a name that is taken, a container that is not  *)
(* there, starting a paused container.                                     *)
Refused(t) ==
  CASE t.kind = "create"   -> NameTaken(Name(t.number))
    [] t.kind = "recreate" /\ t.at = "create" -> NameTaken(TmpNameOf(t))
    [] t.kind = "recreate" /\ t.at = "rename" -> NameTaken(Name(t.number)) \/ Replacements(t) = {}
    [] t.kind = "recreate" /\ t.at \in {"stop", "remove"} -> t.id \notin IDs
    [] t.kind = "remove"   -> FALSE
    [] t.kind = "start"    -> TRUE

EngineRefuses(t) == Refused(t) /\ Fails(t)

ContextCancelled(t) == cancelled /\ Fails(t)

(* Any other error, one at a time; creating may fail after the container   *)
(* is there, in the inspection of it.                                      *)
EngineFails(t) ==
  /\ faults < Faults
  /\ faults' = faults + 1
  /\ Ends(t)
  /\ cancelled' = TRUE
  /\ \/ UNCHANGED <<containers, nextID>>
     \/ /\ t.at = "create"
        /\ ~Refused(t)
        /\ Created(IF t.kind = "create" THEN Name(t.number) ELSE TmpNameOf(t), t.number)
  /\ UNCHANGED <<dependents, commands, faultsBefore, phase, want, observed, rest, updated, lost>>

Goroutine(t) ==
  \/ StopToRemove(t) \/ ForceRemove(t)
  \/ CreateReplacement(t) \/ StopReplaced(t) \/ RemoveReplaced(t) \/ RenameReplacement(t)
  \/ CreateReplica(t)
  \/ EngineRefuses(t) \/ ContextCancelled(t) \/ EngineFails(t)

(* eg.Wait and setObservedState.                                           *)
WaitReturns ==
  /\ phase = "wait"
  /\ tasks = {}
  /\ phase' = IF cancelled THEN "failed" ELSE "ok"
  /\ UNCHANGED <<engine, faults, commands, faultsBefore, want, observed, rest, tasks, cancelled, updated, lost>>

----------------------------------------------------------------------------
(* Around the command.                                                     *)

(* The process of the command is killed.                                   *)
Killed ==
  /\ phase \in {"loop", "wait"}
  /\ faults < Faults
  /\ faults' = faults + 1
  /\ phase' = "failed"
  /\ tasks' = {}
  /\ UNCHANGED <<engine, commands, faultsBefore, want, observed, rest, cancelled, updated, lost>>

RemovedByOthers(id) ==
  /\ faults < Faults
  /\ faults' = faults + 1
  /\ Gone(id)
  /\ lost' = lost \cup {id}
  /\ UNCHANGED <<nextID, dependents, command, tasks>>

PausedByOthers(id) ==
  /\ faults < Faults
  /\ phase \notin {"loop", "wait"}
  /\ containers[id].state # "paused"
  /\ faults' = faults + 1
  /\ Becomes(id, [containers[id] EXCEPT !.state = "paused"])
  /\ UNCHANGED <<nextID, dependents, command, tasks, lost>>

Next ==
  \/ Begin \/ ScaleUp \/ WaitReturns \/ Killed
  \/ \E id \in rest : LoopRemoves(id) \/ LoopRecreates(id) \/ LoopKeeps(id) \/ LoopReturnsEarly(id)
  \/ \E t \in tasks : Goroutine(t)
  \/ \E id \in IDs : RemovedByOthers(id) \/ PausedByOthers(id)

Spec == Init /\ [][Next]_vars

----------------------------------------------------------------------------
(* Type invariant: names carry the number of the container, goroutines     *)
(* work on containers that were listed.                                    *)
TypeOK ==
  /\ \A id \in IDs :
       /\ id \in 1..(nextID - 1)
       /\ containers[id].name \in {Name(containers[id].number)}
                                    \cup {TmpName(old, containers[id].number) : old \in 1..(nextID - 1)}
       /\ containers[id].config \in Configs
       /\ containers[id].state \in {"created", "exited", "paused"}
  /\ \A id, other \in IDs : containers[id].name = containers[other].name => id = other
  /\ dependents \in {"running", "stopped"}
  /\ faultsBefore \in 0..faults /\ faults \in 0..Faults /\ commands \in 0..MaxCommands
  /\ phase \in {"idle", "loop", "wait", "ok", "failed"}
  /\ want \in [config : Configs, scale : Scales, policy : Policies]
  /\ rest \subseteq DOMAIN observed
  /\ \A t \in tasks : IF t.kind = "create" THEN t.number \notin {observed[id].number : id \in DOMAIN observed}
                                           ELSE t.id \in DOMAIN observed
  /\ updated \subseteq 1..(nextID - 1)
  /\ lost \subseteq 1..(nextID - 1)

(* ensureService never leaves the service with fewer containers than it    *)
(* had, or than are wanted if these are less: recreateContainer removes a  *)
(* container after its replacement is there, whatever fails, and wherever  *)
(* the command is killed.  Only what others remove may be missing.         *)
NeverFewer ==
  commands > 0 =>
    Cardinality(IDs) + Cardinality(lost) >= Min({Cardinality(DOMAIN observed), want.scale})

(* When ensureService succeeds and nobody removed a container meanwhile,   *)
(* the service has the wanted number of containers, with the wanted        *)
(* configuration unless they were not to be recreated, and no container is *)
(* the old one if all were: whatever an earlier failed command left.       *)
Converged ==
  phase = "ok" /\ lost = {} =>
    /\ Cardinality(IDs) = want.scale
    /\ want.policy # "never" => \A id \in IDs : containers[id].config = want.config
    /\ want.policy = "force" => IDs \cap DOMAIN observed = {}

(* What ensureService sets as the observed state, from which services that *)
(* share namespaces or volumes with this one take the container to refer   *)
(* to, is what is there.                                                   *)
ObservedIsActual == phase = "ok" /\ lost = {} => updated = IDs

(* As long as nothing fails and nobody interferes, no command fails: the   *)
(* goroutines never compete for a container name, whatever the changes of  *)
(* scale, configuration and policy from command to command.                *)
NoSpuriousFailure == faults = 0 => phase # "failed"

(* Nor does a command leave a trace of how it went: replaced containers    *)
(* have their predecessor's name and number.                               *)
NoTemporaryNames ==
  phase = "ok" /\ faults = 0 => \A id \in IDs : containers[id].name = Name(containers[id].number)

(* Variables keep their types; what ensureService passes on to dependents  *)
(* are the containers there are; commands that meet no fault neither fail  *)
(* over names or removals of their own nor leave temporary names.          *)
Undisturbed == TypeOK /\ ObservedIsActual /\ NoSpuriousFailure /\ NoTemporaryNames

(* A command that is run after one that failed or was killed, and that     *)
(* meets no fault itself, succeeds: it reconciles from any observed state. *)
(* Only a container somebody paused, which the engine refuses to start, is *)
(* left to them.                                                           *)
RetryHeals ==
  faults = faultsBefore /\ (\A id \in DOMAIN observed : observed[id].state # "paused")
    => phase # "failed"
=============================================================================
