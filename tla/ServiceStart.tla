--------------------------- MODULE ServiceStart ---------------------------
(***************************************************************************)
(* composeService.start (pkg/compose/start.go): the containers of a        *)
(* project are listed once, then every service is started in dependency    *)
(* order, each after polling the containers of the services it depends on  *)
(* for the condition its depends_on names (startService, waitDependencies, *)
(* isServiceHealthy, isServiceCompleted in convergence.go); with --wait    *)
(* the call then polls all services the same way.                          *)
(*                                                                         *)
(* Containers live in the engine and change on their own: health checks    *)
(* report, processes exit, somebody removes a container.  The walk is the  *)
(* one of DependencyOrder, which GraphTraversal implements; the visitor is *)
(* given the caller's context and not the errgroup's, so the failure of a  *)
(* service does not stop the others.                                       *)
(***************************************************************************)
EXTENDS Integers, FiniteSets

CONSTANTS Services,      \* The services of the project
          Project,       \* The project itself, which waits with --wait
          MaxReplicas,   \* Containers of a service are numbered 1..MaxReplicas at most
          Wait,          \* StartOptions.Wait
          Timeout,       \* StartOptions.WaitTimeout > 0
          Interrupt      \* The caller's context may be cancelled

ASSUME ProjectAssumption == Project \notin Services
ASSUME ReplicasAssumption == MaxReplicas \in Nat \ {0}
ASSUME OptionsAssumption == {Wait, Timeout, Interrupt} \subseteq BOOLEAN

VARIABLES
  condition,     \* condition[s][d]: the condition of s.DependsOn[d], or "none"
  required,      \* Pairs <<s, d>> with s.DependsOn[d].Required
  healthcheck,   \* Services whose containers have a health check
  replicas,      \* replicas[s]: containers of s in the list; 0 for scale 0 or never created
  scaledToZero,  \* Services with scale 0
  status,        \* status[s][i]: container i of s as the engine would inspect it
  listedRunning, \* Containers <<s, i>> that were running when start listed them
  reached,       \* reached[s][i]: what the container has been since start was called
  phase,         \* phase[s], cancelled, walked: the walk, see DependencyOrder
  cancelled,
  walked,
  pc,            \* pc[s]: where startService is for s
  next,          \* next[s]: the container startService looks at
  started,       \* Containers <<s, i>> this command started
  deadAtWait,    \* Containers <<s, i>> that had exited when start began to wait for all
  poll,          \* poll[w][d]: the goroutine of waiter w for dependency d
  expired,       \* Waiters whose timeout has passed
  result         \* What start returned: "none", "nil" or "err"

config == <<condition, required, healthcheck, replicas, scaledToZero, listedRunning>>
engine == <<status, reached>>
walk   == <<phase, cancelled, walked>>
vars   == <<config, engine, walk, pc, next, started, deadAtWait, poll, expired, result>>

Waiters    == Services \cup {Project}
Conditions == {"started", "healthy", "completed"}
Numbers    == 1..MaxReplicas

(* "up" is running without a health check; the other running states are    *)
(* those of the health check.                                              *)
Running  == {"up", "starting", "healthy", "unhealthy"}
Exited   == {"exited 0", "exited 1"}
Statuses == Running \cup Exited \cup {"created", "gone"}

Off        == [pc |-> "off", at |-> 1]
PollPCs    == {"off", "tick", "inspect", "nil", "err"}

DependsOn(s) == {d \in Services : condition[s][d] # "none"}

Walk == INSTANCE DependencyOrder
          WITH before  <- [s \in Services |-> DependsOn(s)],
               verdict <- walked

----------------------------------------------------------------------------
(* What a container has been, by its status.                               *)
Been(st) ==
  (IF st \in Running THEN {"running"} ELSE {}) \cup
  (IF st = "healthy" THEN {"healthy"} ELSE {})

(* The project: whoever depends on whom, and how many containers each      *)
(* service has.                                                            *)
ConfigInit ==
  /\ condition \in [Services -> [Services -> Conditions \cup {"none"}]]
  /\ required \in SUBSET (Services \X Services)
  /\ healthcheck \in SUBSET Services
  /\ replicas \in [Services -> 0..MaxReplicas]
  /\ scaledToZero \in SUBSET {s \in Services : replicas[s] = 0}

(* The engine is left by an earlier command with containers in any state   *)
(* their service allows; what exited then does not count as completed now. *)
StatusesOf(s) ==
  {"created"} \cup Exited \cup
  (IF s \in healthcheck THEN Running \ {"up"} ELSE {"up"})

EngineInit ==
  /\ status \in [Services -> [Numbers -> Statuses]]
  /\ \A s \in Services, i \in Numbers :
        status[s][i] \in (IF i <= replicas[s] THEN StatusesOf(s) ELSE {"gone"})
  /\ listedRunning = {e \in Services \X Numbers : status[e[1]][e[2]] \in Running}
  /\ reached = [s \in Services |-> [i \in Numbers |-> Been(status[s][i])]]

StartInit ==
  /\ phase = [s \in Services |-> "waiting"]
  /\ cancelled = FALSE
  /\ walked = "none"
  /\ started = {}
  /\ deadAtWait = {}
  /\ pc = [s \in Services |-> "idle"]
  /\ next = [s \in Services |-> 1]
  /\ poll = [w \in Waiters |-> [d \in Services |-> Off]]
  /\ expired = {}
  /\ result = "none"

Init == ConfigInit /\ EngineInit /\ StartInit

----------------------------------------------------------------------------
(* The engine on its own.                                                  *)

Becomes(s, i, st) ==
  /\ status' = [status EXCEPT ![s][i] = st]
  /\ reached' = [reached EXCEPT ![s][i] =
                   @ \cup Been(st) \cup (IF st = "exited 0" THEN {"completed"} ELSE {})]

HealthReported(s, i) ==
  /\ status[s][i] \in Running /\ s \in healthcheck
  /\ \E st \in {"healthy", "unhealthy"} \ {status[s][i]} : Becomes(s, i, st)
  /\ UNCHANGED <<config, walk, pc, next, started, deadAtWait, poll, expired, result>>

ContainerExits(s, i) ==
  /\ status[s][i] \in Running
  /\ \E st \in Exited : Becomes(s, i, st)
  /\ UNCHANGED <<config, walk, pc, next, started, deadAtWait, poll, expired, result>>

(* docker rm by somebody else.                                             *)
ContainerRemoved(s, i) ==
  /\ status[s][i] # "gone"
  /\ Becomes(s, i, "gone")
  /\ UNCHANGED <<config, walk, pc, next, started, deadAtWait, poll, expired, result>>

----------------------------------------------------------------------------
(* waitDependencies, for a service before it starts and for the project.   *)

(* getDependencyCondition: --wait does not expect a one-shot to stay up.   *)
WaitCondition(d) ==
  IF \E s \in Services : condition[s][d] = "completed" THEN "completed" ELSE "running or healthy"

Condition(w, d) == IF w = Project THEN WaitCondition(d) ELSE condition[w][d]
Required(w, d)  == w = Project \/ <<w, d>> \in required

(* shouldWaitForDependency                                                 *)
Waited(w) ==
  {d \in Services : /\ w = Project \/ d \in DependsOn(w)
                    /\ Condition(w, d) # "started"
                    /\ d \notin scaledToZero}

Missing(w) == {d \in Waited(w) : replicas[d] = 0}

(* One goroutine per dependency that has containers.                       *)
Polling(w) ==
  [poll EXCEPT ![w] = [d \in Services |->
     IF d \in Waited(w) \ Missing(w) THEN [pc |-> "tick", at |-> 1] ELSE Off]]

MissesRequired(w) == \E d \in Missing(w) : Required(w, d)

BugDone(w) == cancelled \/ \E d \in Services : poll[w][d].pc = "err"

(* The context of the errgroup: done when the caller gives up, after the   *)
(* timeout or after a first error.                                         *)
Done(w) == cancelled \/ w \in expired \/ \E d \in Services : poll[w][d].pc = "err"

(* The select: with both cases ready, either is taken.                     *)
GiveUp(w, d) ==
  /\ poll[w][d].pc = "tick"
  /\ Done(w)
  /\ poll' = [poll EXCEPT ![w][d].pc = "nil"]
  /\ UNCHANGED <<config, engine, walk, pc, next, started, deadAtWait, expired, result>>

Tick(w, d) ==
  /\ poll[w][d].pc = "tick"
  /\ poll' = [poll EXCEPT ![w][d] = [pc |-> "inspect", at |-> 1]]
  /\ UNCHANGED <<config, engine, walk, pc, next, started, deadAtWait, expired, result>>

BugVerdict(c, d, st) ==
  IF c = "completed" THEN (IF st \in Exited THEN "true" ELSE "next")
  ELSE IF st = "exited 1" THEN "error"
  ELSE IF st = "starting" THEN "false"
  ELSE "next"

(* What isServiceHealthy and isServiceCompleted make of one container:     *)
(* look at the next one, stop with an answer, or stop with an error.       *)
Verdict(c, d, st) ==
  CASE c = "completed" ->
         (CASE st = "exited 0" -> "true" [] st = "exited 1" -> "error" [] OTHER -> "next")
    [] c # "completed" /\ st \in Exited -> "error"
    [] c = "running or healthy" /\ d \notin healthcheck /\ st \notin Exited ->
         (IF st = "up" THEN "true" ELSE "false")
    [] OTHER -> (CASE st = "healthy" -> "next" [] st = "starting" -> "false" [] OTHER -> "error")

BugAtEnd(c) == IF c = "completed" THEN "next" ELSE "true"

(* The loop over the containers ran to its end.                            *)
AtEnd(c) == IF c = "completed" THEN "false" ELSE "true"

(* An error of a dependency that is not required is only warned about,     *)
(* except an error of the engine while waiting for completion.             *)
AfterError(w, d, fromEngine) ==
  IF Required(w, d) \/ (fromEngine /\ Condition(w, d) = "completed") THEN "err" ELSE "nil"

(* One ContainerInspect and what follows from it.                          *)
Inspect(w, d) ==
  LET at == poll[w][d].at
      c  == Condition(w, d)
      st == status[d][at]
      v  == Verdict(c, d, st)
      answer == IF v = "next" /\ at = replicas[d] THEN AtEnd(c) ELSE v
  IN
  /\ poll[w][d].pc = "inspect"
  /\ poll' = [poll EXCEPT ![w][d] =
       CASE Done(w) \/ st = "gone" -> [pc |-> AfterError(w, d, TRUE), at |-> 1]
         [] OTHER ->
              (CASE answer = "next"  -> [pc |-> "inspect", at |-> at + 1]
                 [] answer = "false" -> [pc |-> "tick", at |-> 1]
                 [] answer = "true"  -> [pc |-> "nil", at |-> 1]
                 [] answer = "error" -> [pc |-> AfterError(w, d, FALSE), at |-> 1])]
  /\ UNCHANGED <<config, engine, walk, pc, next, started, deadAtWait, expired, result>>

Polled(w) == \A d \in Services : poll[w][d].pc \notin {"tick", "inspect"}
Refused(w) == \E d \in Services : poll[w][d].pc = "err"

Waiting(w) == \E d \in Services : poll[w][d].pc \in {"tick", "inspect"}

TimeoutPasses(w) ==
  /\ Timeout /\ w \notin expired /\ Waiting(w)
  /\ expired' = expired \cup {w}
  /\ UNCHANGED <<config, engine, walk, pc, next, started, deadAtWait, poll, result>>

----------------------------------------------------------------------------
(* startService                                                            *)

(* With deploy.replicas = 0 there is nothing to do, not even to wait. A     *)
(* service that `scale` sets to zero goes the way of the others.           *)
BeginService(s) ==
  /\ UNCHANGED <<config, engine, next, started, deadAtWait, expired, result>>
  /\ Walk!Begin(s)
  /\ \/ /\ s \in scaledToZero
        /\ pc' = [pc EXCEPT ![s] = "ok"]
        /\ UNCHANGED poll
     \/ /\ MissesRequired(s)
        /\ pc' = [pc EXCEPT ![s] = "failed"]
        /\ UNCHANGED poll
     \/ /\ ~MissesRequired(s)
        /\ pc' = [pc EXCEPT ![s] = "wait"]
        /\ poll' = Polling(s)

(* The whole list is empty: there is nothing to start for a service that   *)
(* should have containers.                                                 *)
NothingListed == \A d \in Services : replicas[d] = 0

HasNothingToStart(s) == NothingListed /\ s \notin scaledToZero

BugWaitOutcome(s) == IF HasNothingToStart(s) THEN "failed" ELSE "start"

WaitOutcome(s) == IF Refused(s) \/ HasNothingToStart(s) THEN "failed" ELSE "start"

EndWait(s) ==
  /\ pc[s] = "wait"
  /\ Polled(s)
  /\ pc' = [pc EXCEPT ![s] = WaitOutcome(s)]
  /\ UNCHANGED <<config, engine, walk, next, started, deadAtWait, poll, expired, result>>

(* A container that was running when it was listed is left alone, whatever *)
(* became of it since.                                                     *)
SkipContainer(s) ==
  /\ pc[s] = "start" /\ next[s] <= replicas[s]
  /\ <<s, next[s]>> \in listedRunning
  /\ next' = [next EXCEPT ![s] = @ + 1]
  /\ UNCHANGED <<config, engine, walk, pc, started, deadAtWait, poll, expired, result>>

(* ContainerStart does nothing for a container that runs already; then the *)
(* post_start hooks run, one of which may fail.                            *)
StartContainer(s) ==
  /\ pc[s] = "start" /\ next[s] <= replicas[s]
  /\ <<s, next[s]>> \notin listedRunning
  /\ ~cancelled /\ status[s][next[s]] # "gone"
  /\ started' = started \cup {<<s, next[s]>>}
  /\ IF status[s][next[s]] \in Running
     THEN UNCHANGED engine
     ELSE Becomes(s, next[s], IF s \in healthcheck THEN "starting" ELSE "up")
  /\ \/ next' = [next EXCEPT ![s] = @ + 1] /\ UNCHANGED pc
     \/ pc' = [pc EXCEPT ![s] = "failed"] /\ UNCHANGED next
  /\ UNCHANGED <<config, walk, deadAtWait, poll, expired, result>>

(* Injecting secrets or configs, or ContainerStart itself, fails.          *)
StartFails(s) ==
  /\ pc[s] = "start" /\ next[s] <= replicas[s]
  /\ <<s, next[s]>> \notin listedRunning
  /\ pc' = [pc EXCEPT ![s] = "failed"]
  /\ UNCHANGED <<config, engine, walk, next, started, deadAtWait, poll, expired, result>>

AllStarted(s) ==
  /\ pc[s] = "start" /\ next[s] > replicas[s]
  /\ pc' = [pc EXCEPT ![s] = "ok"]
  /\ UNCHANGED <<config, engine, walk, next, started, deadAtWait, poll, expired, result>>

(* startService returns to the walk.                                       *)
EndService(s) ==
  /\ pc[s] \in {"ok", "failed"}
  /\ UNCHANGED <<config, engine, pc, next, started, deadAtWait, poll, expired, result>>
  /\ Walk!Finish(s)
  /\ phase'[s] = pc[s]

----------------------------------------------------------------------------
(* start                                                                   *)

Cancelled ==
  /\ Interrupt /\ result = "none"
  /\ UNCHANGED <<config, engine, pc, next, started, deadAtWait, poll, expired, result>>
  /\ Walk!Cancel

WalkReturns ==
  /\ UNCHANGED <<config, engine, pc, next, started, expired, result>>
  /\ Walk!Return
  /\ poll' = IF walked' = "nil" /\ Wait /\ ~MissesRequired(Project) THEN Polling(Project)
             ELSE poll
  /\ deadAtWait' = IF walked' = "nil" /\ Wait
                   THEN {e \in Services \X Numbers : status[e[1]][e[2]] \in Exited}
                   ELSE {}

BugStartOutcome == walked

StartOutcome ==
  IF walked = "nil" /\ Wait /\ (MissesRequired(Project) \/ Refused(Project))
  THEN "err" ELSE walked

StartReturns ==
  /\ result = "none"
  /\ walked # "none" /\ Polled(Project)
  /\ result' = StartOutcome
  /\ UNCHANGED <<config, engine, walk, pc, next, started, deadAtWait, poll, expired>>

Terminated == result # "none" /\ UNCHANGED vars

Poller(w, d) == GiveUp(w, d) \/ Tick(w, d) \/ Inspect(w, d)

Starter(s) ==
  \/ BeginService(s) \/ EndWait(s)
  \/ SkipContainer(s) \/ StartContainer(s) \/ StartFails(s) \/ AllStarted(s)
  \/ EndService(s)

Engine(s, i) == HealthReported(s, i) \/ ContainerExits(s, i) \/ ContainerRemoved(s, i)

Next ==
  \/ \E s \in Services : Starter(s)
  \/ \E w \in Waiters, d \in Services : Poller(w, d)
  \/ \E w \in Waiters : TimeoutPasses(w)
  \/ WalkReturns
  \/ StartReturns
  \/ Cancelled
  \/ result = "none" /\ \E s \in Services, i \in Numbers : Engine(s, i)
  \/ Terminated

Spec == Init /\ [][Next]_vars

(* The command runs, the clock advances; nothing is assumed of containers. *)
Fairness ==
  /\ \A s \in Services : WF_vars(Starter(s))
  /\ \A w \in Waiters, d \in Services : WF_vars(Poller(w, d))
  /\ \A w \in Waiters : WF_vars(TimeoutPasses(w))
  /\ WF_vars(WalkReturns \/ StartReturns)

----------------------------------------------------------------------------
(* Properties.                                                             *)

TypeOK ==
  /\ status \in [Services -> [Numbers -> Statuses]]
  /\ reached \in [Services -> [Numbers -> SUBSET {"running", "healthy", "completed"}]]
  /\ phase \in [Services -> Walk!Phases]
  /\ pc \in [Services -> {"idle", "wait", "start", "ok", "failed"}]
  /\ started \cup deadAtWait \subseteq Services \X Numbers
  /\ next \in [Services -> 1..MaxReplicas + 1]
  /\ poll \in [Waiters -> [Services -> [pc : PollPCs, at : Numbers]]]
  /\ expired \subseteq Waiters
  /\ {walked, result} \subseteq {"none", "nil", "err"}

(* Container i of service d has met, at some moment since start was        *)
(* called, what condition c asks of it.                                    *)
HasBeen(d, i, c) ==
  CASE c = "healthy"   -> "healthy" \in reached[d][i]
    [] c = "completed" -> "completed" \in reached[d][i]
    [] OTHER -> IF d \in healthcheck THEN "healthy" \in reached[d][i]
                                     ELSE "running" \in reached[d][i]

(* A service that completes is one container that does.                    *)
ConditionMet(d, c) ==
  IF c = "completed" THEN \E i \in 1..replicas[d] : HasBeen(d, i, c)
                     ELSE \A i \in 1..replicas[d] : HasBeen(d, i, c)

(* No container of a service is started before every dependency it         *)
(* requires has been in its condition during this very command: a          *)
(* container left healthy or exited by an earlier one, or one that is      *)
(* inspected while another replica changes, is not enough.  The exception  *)
(* is a timeout, see WaitIsKept.                                           *)
ConditionBeforeStart ==
  \A e \in started : e[1] \notin expired =>
    \A d \in Waited(e[1]) : Required(e[1], d) => ConditionMet(d, condition[e[1]][d])

(* "Wait won't return until containers reached the running|healthy state"  *)
(* (api.StartOptions).                                                     *)
WaitIsKept ==
  result = "nil" /\ Wait /\ ~cancelled =>
    \A d \in Waited(Project) : ConditionMet(d, WaitCondition(d))

(* "Wait for services to be running|healthy" (up --wait): a replica that   *)
(* had exited before start began to wait is noticed, unless its service is *)
(* expected to complete.                                                   *)
WaitNoticesExits ==
  result = "nil" /\ Wait /\ ~cancelled /\ Project \notin expired =>
    \A e \in deadAtWait : e[1] \in Waited(Project) => WaitCondition(e[1]) = "completed"

(* Variables keep their types, and when start --wait returns nil its       *)
(* services are running or healthy and none had exited before the wait     *)
(* (waitDependencies, isServiceHealthy, isServiceCompleted).               *)
SuccessMeansStarted == TypeOK /\ WaitIsKept /\ WaitNoticesExits

(* With a timeout, start returns whatever the containers do.               *)
StartTerminates == <>(result # "none")

=============================================================================
