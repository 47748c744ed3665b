-------------------------- MODULE GraphTraversal --------------------------
(***************************************************************************)
(* The concurrent walk over the dependency graph that up, start, stop,     *)
(* restart, down and the classic build are all built on                    *)
(* (pkg/compose/dependencies.go).  Two goroutines look for services to     *)
(* visit: the caller, with the extremities of the graph, and a reader,     *)
(* with the neighbours of the services that come out of nodeCh.  Each      *)
(* service is visited by a goroutine of its own, in an errgroup whose      *)
(* first error cancels the context they share.                             *)
(*                                                                         *)
(* The graph, the direction and the services named on the command line are *)
(* chosen in Init and stay: one run of TLC covers every graph.             *)
(*                                                                         *)
(* Definitions named Bug... are plausible mistakes in the definition that  *)
(* follows them; no specification uses them, they show that the properties *)
(* at the end would notice.                                                *)
(***************************************************************************)
EXTENDS Integers, Sequences, FiniteSets

CONSTANTS Services,        \* Vertices of the graph, one per service
          MaxConcurrency,  \* t.maxConcurrency: no limit unless positive
          NoService        \* No vertex

ASSUME ServicesAssumption == Services # {} /\ IsFiniteSet(Services)
ASSUME NoServiceAssumption == NoService \notin Services
ASSUME MaxConcurrencyAssumption == MaxConcurrency \in Int

VARIABLES
  children,      \* children[s]: the services s depends on (Vertex.Children)
  direction,     \* "up" (upDirectionTraversal) or "down" (downDirectionTraversal)
  downNodes,     \* The services given to WithRootNodesAndDown
  status,        \* Vertex.Status
  seen,          \* graphTraversal.seen
  ignored,       \* graphTraversal.ignored
  nodeCh,        \* The buffered channel of finished vertices
  expect,        \* The reader's count of vertices still to come
  loop,          \* The two goroutines that call run: where they are, what is left
  worker,        \* worker[s]: where the goroutine of s is
  failed,        \* Services whose visitor returned an error
  parentDone,    \* The caller's context is done
  ctxDone,       \* The errgroup's context is done
  groupErr,      \* errgroup.err is set
  result         \* What visit returned: "none", "nil" or "err"

graph  == <<children, direction, downNodes>>
wvars  == <<worker, failed, status, nodeCh>>
rvars  == <<loop, seen, ignored, expect>>
evars  == <<parentDone, ctxDone, groupErr, result>>
vars   == <<graph, wvars, rvars, evars>>

----------------------------------------------------------------------------
(* The graph.                                                              *)

Parents(s) == {p \in Services : s \in children[p]}

(* HasCycles rejected every other graph before the walk starts.            *)
Acyclic(ch) ==
  \A S \in SUBSET Services : S # {} => \E s \in S : ch[s] \cap S = {}

(* Everything that depends on s, directly or not.                          *)
Ancestors(s) ==
  {a \in Services :
     \A S \in SUBSET Services :
        (Parents(s) \subseteq S /\ \A x \in S : Parents(x) \subseteq S) => a \in S}

(* What the direction fixes: where to start, whom a finished service may   *)
(* release, whom a service waits for, and the status it ends in.           *)
Awaited(s)  == IF direction = "up" THEN children[s] ELSE Parents(s)
Released(s) == IF direction = "up" THEN Parents(s) ELSE children[s]
Extremities == {s \in Services : Awaited(s) = {}}

Initial(d) == IF d = "up" THEN "stopped" ELSE "started"
Target(d)  == IF d = "up" THEN "started" ELSE "stopped"

BugUnseen(s) == Awaited(s) \ seen

(* filterAdjacentByStatusFn: the neighbours s still has to wait for.       *)
Unready(s) == {t \in Awaited(s) : status[t] = Initial(direction)}

BugOnlyNamed == IF downNodes = {} THEN {} ELSE Services \ downNodes

(* WithRootNodesAndDown keeps the named services and their ancestors.      *)
Unwanted ==
  IF downNodes = {} THEN {}
  ELSE Services \ (downNodes \cup UNION {Ancestors(s) : s \in downNodes})

----------------------------------------------------------------------------
Runners == {"main", "reader"}

At(pc) == [pc |-> pc, todo |-> {}, node |-> NoService]

Working == {s \in Services : worker[s] \notin {"idle", "done"}}

(* The goroutines that hold a slot of the errgroup.                        *)
Slots == Cardinality(Working) + (IF loop["reader"].pc = "done" THEN 0 ELSE 1)

BugSlotFree == MaxConcurrency > 0 => Slots <= MaxConcurrency + 1

(* eg.SetLimit(t.maxConcurrency + 1), when there is a limit.               *)
SlotFree == MaxConcurrency > 0 => Slots < MaxConcurrency + 1

(* NewGraph returns an acyclic graph, every status as the direction wants; *)
(* only down names services.                                               *)
GraphInit ==
  /\ children \in [Services -> SUBSET Services]
  /\ Acyclic(children)

WalkInit ==
  /\ \/ direction = "up" /\ downNodes = {}
     \/ direction = "down" /\ downNodes \in SUBSET Services
  /\ status = [s \in Services |-> Initial(direction)]
  /\ seen = {}
  /\ ignored = {}
  /\ nodeCh = <<>>
  /\ expect = Cardinality(Services)
  /\ loop = [r \in Runners |-> At(IF r = "main" THEN "start" ELSE "select")]
  /\ worker = [s \in Services |-> "idle"]
  /\ failed = {}
  /\ parentDone = FALSE
  /\ ctxDone = FALSE
  /\ groupErr = FALSE
  /\ result = "none"

Init == GraphInit /\ WalkInit

----------------------------------------------------------------------------
(* The caller computes the extremities; WithRootNodesAndDown first sets    *)
(* aside every service that is not wanted.                                 *)
FindExtremities ==
  /\ loop["main"].pc = "start"
  /\ ignored' = Unwanted
  /\ loop' = [loop EXCEPT !["main"].pc = "check", !["main"].todo = Extremities]
  /\ UNCHANGED <<graph, wvars, evars, seen, expect>>

(* run: take the next node; skip it unless all it waits for are done.      *)
CheckNode(r) ==
  /\ loop[r].pc = "check"
  /\ \E s \in loop[r].todo :
       loop' = [loop EXCEPT ![r] = [pc   |-> IF Unready(s) = {} THEN "consume" ELSE "check",
                                    todo |-> loop[r].todo \ {s},
                                    node |-> s]]
  /\ UNCHANGED <<graph, wvars, evars, seen, ignored, expect>>

BugVisited(s) == worker[s] = "done"

Taken(s) == s \in seen

(* consume: skip a node already taken, take it otherwise.                  *)
ConsumeNode(r) ==
  /\ loop[r].pc = "consume"
  /\ loop' = [loop EXCEPT ![r].pc = IF Taken(loop[r].node) THEN "check" ELSE "spawn"]
  /\ seen' = seen \cup {loop[r].node}
  /\ UNCHANGED <<graph, wvars, evars, ignored, expect>>

(* eg.Go: wait for a slot, then start the goroutine of the node, which     *)
(* calls the visitor unless the service is ignored.                        *)
SpawnWorker(r) ==
  /\ loop[r].pc = "spawn"
  /\ SlotFree
  /\ worker' = [worker EXCEPT ![loop[r].node] =
                  IF loop[r].node \in ignored THEN "visited" ELSE "visiting"]
  /\ loop' = [loop EXCEPT ![r].pc = "check"]
  /\ UNCHANGED <<graph, evars, failed, status, nodeCh, seen, ignored, expect>>

BugAfterRun(r) == "wait"

AfterRun(r) == IF r = "main" THEN "wait" ELSE "select"

(* run returns: the caller goes to eg.Wait, the reader back to its select. *)
RunReturns(r) ==
  /\ loop[r].pc = "check" /\ loop[r].todo = {}
  /\ loop' = [loop EXCEPT ![r] = At(AfterRun(r))]
  /\ UNCHANGED <<graph, wvars, evars, seen, ignored, expect>>

BugOuterDone == parentDone

(* visit shadows ctx: the reader watches the errgroup's context.           *)
GroupDone == ctxDone

(* The reader's select.  When both cases are ready either may be taken.    *)
ReaderCancelled ==
  /\ loop["reader"].pc = "select"
  /\ GroupDone
  /\ loop' = [loop EXCEPT !["reader"].pc = "done"]
  /\ UNCHANGED <<graph, wvars, evars, seen, ignored, expect>>

ReaderReceives ==
  /\ loop["reader"].pc = "select"
  /\ nodeCh # <<>>
  /\ nodeCh' = Tail(nodeCh)
  /\ expect' = expect - 1
  /\ loop' = [loop EXCEPT !["reader"] =
                IF expect' = 0 THEN At("done")
                ELSE [At("check") EXCEPT !.todo = Released(Head(nodeCh))]]
  /\ UNCHANGED <<graph, evars, worker, failed, status, seen, ignored>>

----------------------------------------------------------------------------
(* The goroutine of a service.                                             *)

VisitorReturns(s) ==
  /\ worker[s] = "visiting"
  /\ worker' = [worker EXCEPT ![s] = "visited"]
  /\ failed' \in {failed, failed \cup {s}}
  /\ UNCHANGED <<graph, rvars, evars, status, nodeCh>>

BugStatus(s) == Target(direction)

StatusAfter(s) == IF s \in failed THEN status[s] ELSE Target(direction)

UpdateStatus(s) ==
  /\ worker[s] = "visited"
  /\ worker' = [worker EXCEPT ![s] = "sending"]
  /\ status' = [status EXCEPT ![s] = StatusAfter(s)]
  /\ UNCHANGED <<graph, rvars, evars, failed, nodeCh>>

SendNode(s) ==
  /\ worker[s] = "sending"
  /\ Len(nodeCh) < Cardinality(Services)
  /\ worker' = [worker EXCEPT ![s] = "returning"]
  /\ nodeCh' = Append(nodeCh, s)
  /\ UNCHANGED <<graph, rvars, evars, failed, status>>

BugLastError(s) == s \in failed

FirstError(s) == groupErr \/ s \in failed

(* The errgroup keeps the first error and cancels its context.             *)
WorkerReturns(s) ==
  /\ worker[s] = "returning"
  /\ worker' = [worker EXCEPT ![s] = "done"]
  /\ groupErr' = FirstError(s)
  /\ ctxDone' = (ctxDone \/ s \in failed)
  /\ UNCHANGED <<graph, rvars, failed, status, nodeCh, parentDone, result>>

----------------------------------------------------------------------------
(* The caller's context ends: SIGINT, or a timeout of the command.         *)
ParentCancelled ==
  /\ ~parentDone /\ result = "none"
  /\ parentDone' = TRUE
  /\ ctxDone' = TRUE
  /\ UNCHANGED <<graph, wvars, rvars, groupErr, result>>

BugWorkersReturned == Working = {}

AllReturned == loop["reader"].pc = "done" /\ Working = {}

(* eg.Wait returns when every goroutine has; visit then closes nodeCh.     *)
VisitReturns ==
  /\ loop["main"].pc = "wait"
  /\ AllReturned
  /\ result' = IF groupErr THEN "err" ELSE "nil"
  /\ ctxDone' = TRUE
  /\ loop' = [loop EXCEPT !["main"].pc = "done"]
  /\ UNCHANGED <<graph, wvars, seen, ignored, expect, parentDone, groupErr>>

Terminated == result # "none" /\ UNCHANGED vars

Runner(r) == CheckNode(r) \/ ConsumeNode(r) \/ SpawnWorker(r) \/ RunReturns(r)
Worker(s) == VisitorReturns(s) \/ UpdateStatus(s) \/ SendNode(s) \/ WorkerReturns(s)
Reader    == Runner("reader") \/ ReaderCancelled \/ ReaderReceives
Main      == FindExtremities \/ Runner("main") \/ VisitReturns

Next ==
  \/ Main
  \/ Reader
  \/ \E s \in Services : Worker(s)
  \/ ParentCancelled
  \/ Terminated

Spec == Init /\ [][Next]_vars

(* The Go scheduler runs every goroutine, and visitors return.             *)
Fairness ==
  /\ WF_vars(Main)
  /\ WF_vars(Reader)
  /\ \A s \in Services : WF_vars(Worker(s))

FairSpec == Spec /\ Fairness

----------------------------------------------------------------------------
(* Properties.                                                             *)

RunPCs    == {"check", "consume", "spawn", "done"}
MainPCs   == RunPCs \cup {"start", "wait"}
ReaderPCs == RunPCs \cup {"select"}
WorkerPCs == {"idle", "visiting", "visited", "sending", "returning", "done"}

(* The variables keep their types; only the caller waits for the group,    *)
(* only the reader selects.                                                *)
TypeOK ==
  /\ children \in [Services -> SUBSET Services]
  /\ direction \in {"up", "down"}
  /\ downNodes \subseteq Services
  /\ status \in [Services -> {"started", "stopped"}]
  /\ seen \subseteq Services
  /\ ignored \subseteq Services
  /\ nodeCh \in Seq(Services)
  /\ expect \in Int
  /\ loop \in [Runners -> [pc : MainPCs \cup ReaderPCs, todo : SUBSET Services, node : Services \cup {NoService}]]
  /\ loop["main"].pc \in MainPCs /\ loop["reader"].pc \in ReaderPCs
  /\ \A r \in Runners : loop[r].pc \in {"consume", "spawn"} => loop[r].node # NoService
  /\ worker \in [Services -> WorkerPCs]
  /\ failed \subseteq Services
  /\ parentDone \in BOOLEAN /\ ctxDone \in BOOLEAN /\ groupErr \in BOOLEAN
  /\ result \in {"none", "nil", "err"}

(* visitorFn has returned without an error for s, and run knows it.        *)
Succeeded(s) == worker[s] \in {"sending", "returning", "done"} /\ s \notin failed

(* A service is never visited before the visitor succeeded for all the     *)
(* services it waits for, whatever the order in which they finish, also    *)
(* while the walk is being cancelled.                                      *)
VisitInOrder ==
  \A s \in Services : worker[s] # "idle" => \A t \in Awaited(s) : Succeeded(t)

(* No service is visited twice, though a service with several dependencies *)
(* is released by each of them.                                            *)
VisitedOnce ==
  [][\A s \in Services : worker[s] # "idle" => worker'[s] \notin {"idle", "visiting"}
                                               \/ worker'[s] = worker[s]]_vars

(* A nil from visit means that the visitor succeeded for every service,    *)
(* unless the caller gave up; an error means that it failed for one.       *)
ResultIsFaithful ==
  /\ result = "nil" /\ ~parentDone => \A s \in Services : Succeeded(s)
  /\ result = "nil" => failed = {}
  /\ result = "err" => failed # {}

(* When visit returns no goroutine of it is left: nobody starts a service  *)
(* behind the caller's back or sends on the closed channel.                *)
NothingAfterReturn ==
  result # "none" => Working = {} /\ loop["reader"].pc = "done"

(* WithRootNodesAndDown (compose down SERVICE...) takes down what depends  *)
(* on the named services too, before them: no service is visited while one *)
(* that depends on it is left running.                                     *)
NoDependentLeftRunning ==
  \A s \in Services :
    direction = "down" /\ worker[s] = "visiting" => Ancestors(s) \cap ignored = {}

(* As long as nothing went wrong, --parallel bounds the visitors at work.  *)
ParallelLimit ==
  MaxConcurrency > 0 /\ ~ctxDone => Cardinality(Working) <= MaxConcurrency

(* What a walk may be relied on for: its result tells what happened, going *)
(* down from named services never comes to one while something above it is *)
(* left running, and no more visitors run than allowed.                    *)
WalkIsSafe == ResultIsFaithful /\ NoDependentLeftRunning /\ ParallelLimit

(* visit returns, whatever fails and whenever the caller gives up.         *)
VisitTerminates == <>(result # "none")

Phase(s) ==
  CASE worker[s] = "idle"                    -> "waiting"
    [] worker[s] \in {"visiting", "visited"} -> "active"
    [] OTHER -> IF s \in failed THEN "failed" ELSE "ok"

Abstract == INSTANCE DependencyOrder
              WITH before    <- [s \in Services |-> Awaited(s)],
                   phase     <- [s \in Services |-> Phase(s)],
                   cancelled <- parentDone,
                   verdict   <- result

(* The walk implements the promise of InDependencyOrder.                   *)
RefinesDependencyOrder == Abstract!Spec

=============================================================================
