----------------------- MODULE GraphTraversalProofs -----------------------
(***************************************************************************)
(* Safety of the dependency-ordered walk, for every set of services, every *)
(* acyclic graph over it, both directions and every concurrency limit.     *)
(*                                                                         *)
(* VisitInOrder is not inductive: a runner decides that a service is ready *)
(* three steps before it starts its goroutine, and reads statuses to       *)
(* decide.  The invariant therefore says what statuses mean (StatusInv),   *)
(* what a runner between its check and its eg.Go may rely on (RunnerInv),  *)
(* and that consume gives a service to one runner only (SeenInv).          *)
(***************************************************************************)
EXTENDS GraphTraversal, FiniteSetTheorems, TLAPS

StatusInv ==
  \A s \in Services : status[s] = (IF Succeeded(s) THEN Target(direction)
                                                   ELSE Initial(direction))

FailedInv == \A s \in failed : worker[s] \notin {"idle", "visiting"}

SeenInv ==
  /\ \A s \in Services : worker[s] # "idle" => s \in seen
  /\ \A r \in Runners : loop[r].pc = "spawn" =>
        loop[r].node \in seen /\ worker[loop[r].node] = "idle"
  /\ loop["main"].pc = "spawn" /\ loop["reader"].pc = "spawn" =>
        loop["main"].node # loop["reader"].node

RunnerInv ==
  \A r \in Runners : loop[r].pc \in {"consume", "spawn"} =>
     /\ loop[r].node \in Services
     /\ \A t \in Awaited(loop[r].node) : Succeeded(t)

OrderInv == TypeOK /\ StatusInv /\ FailedInv /\ SeenInv /\ RunnerInv /\ VisitInOrder

----------------------------------------------------------------------------
LEMMA Neighbours ==
  ASSUME NEW s \in Services, TypeOK
  PROVE  Awaited(s) \subseteq Services /\ Released(s) \subseteq Services
BY DEF TypeOK, Awaited, Released, Parents

(* What TypeOK says of the two runners, and that the rest of it depends    *)
(* on the other variables only.                                            *)
LoopOK ==
  /\ loop \in [Runners -> [pc : MainPCs \cup ReaderPCs, todo : SUBSET Services,
                           node : Services \cup {NoService}]]
  /\ loop["main"].pc \in MainPCs /\ loop["reader"].pc \in ReaderPCs
  /\ \A r \in Runners : loop[r].pc \in {"consume", "spawn"} => loop[r].node # NoService

LEMMA TypeSplit ==
  /\ TypeOK => LoopOK
  /\ TypeOK /\ LoopOK' /\ UNCHANGED <<graph, wvars, evars, ignored, expect>>
            /\ seen' \subseteq Services => TypeOK'
BY DEF TypeOK, LoopOK, Runners, RunPCs, MainPCs, ReaderPCs, WorkerPCs, graph, wvars, evars

LEMMA TypeInit == Init => TypeOK
<1> SUFFICES ASSUME Init PROVE TypeOK
  OBVIOUS
<1>1. LoopOK
  BY DEF Init, GraphInit, WalkInit, At, LoopOK, Runners, RunPCs, MainPCs, ReaderPCs
<1>2. status \in [Services -> {"started", "stopped"}]
  BY DEF Init, GraphInit, WalkInit, Initial
<1>3. expect \in Int
  BY ServicesAssumption, FS_CardinalityType DEF Init, GraphInit, WalkInit
<1>4. nodeCh \in Seq(Services)
  BY DEF Init, GraphInit, WalkInit
<1>5. worker \in [Services -> WorkerPCs]
  BY DEF Init, GraphInit, WalkInit, WorkerPCs
<1> QED
  BY <1>1, <1>2, <1>3, <1>4, <1>5 DEF Init, GraphInit, WalkInit, TypeOK, LoopOK

(* A step of the loop in run changes one runner and leaves it in run.      *)
LEMMA RunnerTypes ==
  ASSUME TypeOK, NEW r \in Runners, Runner(r)
  PROVE  TypeOK'
<1>1. CASE CheckNode(r)
  <2>1. PICK s \in loop[r].todo, pc \in {"consume", "check"} :
          loop' = [loop EXCEPT ![r] = [pc   |-> pc,
                                       todo |-> loop[r].todo \ {s},
                                       node |-> s]]
    BY <1>1 DEF CheckNode
  <2>2. LoopOK'
    BY <2>1, TypeSplit, NoServiceAssumption DEF LoopOK, Runners, RunPCs, MainPCs, ReaderPCs
  <2>3. UNCHANGED <<graph, wvars, evars, ignored, expect>> /\ seen' \subseteq Services
    BY <1>1 DEF CheckNode, TypeOK
  <2> QED
    BY <2>2, <2>3, TypeSplit
<1>2. CASE ConsumeNode(r)
  <2>1. PICK pc \in {"check", "spawn"} : loop' = [loop EXCEPT ![r].pc = pc]
    BY <1>2 DEF ConsumeNode
  <2>2. LoopOK'
    BY <1>2, <2>1, TypeSplit DEF ConsumeNode, LoopOK, Runners, RunPCs, MainPCs, ReaderPCs
  <2>3. UNCHANGED <<graph, wvars, evars, ignored, expect>> /\ seen' \subseteq Services
    BY <1>2, TypeSplit DEF ConsumeNode, TypeOK, LoopOK
  <2> QED
    BY <2>2, <2>3, TypeSplit
<1>3. CASE SpawnWorker(r)
  BY <1>3 DEF SpawnWorker, TypeOK, Runners, RunPCs, MainPCs, ReaderPCs, WorkerPCs, graph, evars
<1>4. CASE RunReturns(r)
  BY <1>4 DEF RunReturns, AfterRun, At, TypeOK, Runners, RunPCs, MainPCs, ReaderPCs,
              graph, wvars, evars
<1> QED
  BY <1>1, <1>2, <1>3, <1>4 DEF Runner

LEMMA TypeStep == TypeOK /\ [Next]_vars => TypeOK'
<1> SUFFICES ASSUME TypeOK, [Next]_vars PROVE TypeOK'
  OBVIOUS
<1>1. CASE FindExtremities
  BY ZenonT(60), <1>1 DEF FindExtremities, Unwanted, Extremities, TypeOK, Runners, RunPCs, MainPCs,
              ReaderPCs, WorkerPCs, graph, wvars, evars
<1>2. ASSUME NEW r \in Runners, Runner(r) PROVE TypeOK'
  BY <1>2, RunnerTypes
<1>3. CASE VisitReturns
  BY <1>3 DEF VisitReturns, TypeOK, Runners, RunPCs, MainPCs, ReaderPCs, WorkerPCs, graph, wvars
<1>4. CASE ReaderCancelled
  BY <1>4 DEF ReaderCancelled, TypeOK, Runners, RunPCs, MainPCs, ReaderPCs, WorkerPCs, graph, wvars, evars
<1>5. CASE ReaderReceives
  <2>1. Head(nodeCh) \in Services /\ Tail(nodeCh) \in Seq(Services)
    BY <1>5 DEF ReaderReceives, TypeOK
  <2>2. Released(Head(nodeCh)) \subseteq Services
    BY <2>1, Neighbours
  <2>3. LoopOK'
    <3>1. CASE expect' = 0
      BY <1>5, <3>1, TypeSplit
      DEF ReaderReceives, At, LoopOK, Runners, RunPCs, MainPCs, ReaderPCs
    <3>2. CASE expect' # 0
      BY <1>5, <2>2, <3>2, TypeSplit
      DEF ReaderReceives, At, LoopOK, Runners, RunPCs, MainPCs, ReaderPCs
    <3> QED
      BY <3>1, <3>2
  <2> QED
    BY <1>5, <2>1, <2>3 DEF ReaderReceives, TypeOK, LoopOK, WorkerPCs, Runners, RunPCs,
                            MainPCs, ReaderPCs, graph, evars
<1>6. ASSUME NEW s \in Services, Worker(s) PROVE TypeOK'
  <2>1. CASE VisitorReturns(s)
    BY <2>1 DEF VisitorReturns, TypeOK, WorkerPCs, graph, rvars, evars
  <2>2. CASE UpdateStatus(s)
    BY <2>2 DEF UpdateStatus, StatusAfter, Target, TypeOK, WorkerPCs, graph, rvars, evars
  <2>3. CASE SendNode(s)
    BY <2>3 DEF SendNode, TypeOK, WorkerPCs, graph, rvars, evars
  <2>4. CASE WorkerReturns(s)
    BY <2>4 DEF WorkerReturns, FirstError, TypeOK, WorkerPCs, graph, rvars
  <2> QED
    BY <1>6, <2>1, <2>2, <2>3, <2>4 DEF Worker
<1>7. CASE ParentCancelled
  BY <1>7 DEF ParentCancelled, TypeOK, graph, wvars, rvars
<1>8. CASE UNCHANGED vars
  BY <1>8 DEF TypeOK, vars, graph, wvars, rvars, evars
<1> QED
  BY <1>1, <1>2, <1>3, <1>4, <1>5, <1>6, <1>7, <1>8
  DEF Next, Main, Reader, Runners, Terminated

(* Every variable of the walk keeps its type, and only the caller waits    *)
(* for the group.                                                          *)
THEOREM TypeCorrect == Spec => []TypeOK
BY TypeInit, TypeStep, PTL DEF Spec

----------------------------------------------------------------------------
(* The order of the visits.                                                *)

LEMMA Directions ==
  ASSUME TypeOK
  PROVE  /\ Initial(direction) # Target(direction)
         /\ UNCHANGED graph => /\ direction' = direction
                               /\ \A s \in Services : Awaited(s)' = Awaited(s)
BY DEF TypeOK, Initial, Target, graph, Awaited, Parents

LEMMA OrderInit == Init => OrderInv
<1> SUFFICES ASSUME Init PROVE OrderInv
  OBVIOUS
<1>1. TypeOK
  BY TypeInit
<1>2. StatusInv
  BY DEF Init, GraphInit, WalkInit, StatusInv, Succeeded
<1>3. \A r \in Runners : loop[r].pc \in {"start", "select"}
  BY DEF Init, GraphInit, WalkInit, Runners, At
<1> QED
  BY <1>1, <1>2, <1>3 DEF Init, GraphInit, WalkInit, OrderInv, FailedInv, SeenInv, RunnerInv, VisitInOrder, Runners

(* A step that touches nothing but the runners, and lets none of them      *)
(* decide anything.                                                        *)
LEMMA QuietStep ==
  ASSUME OrderInv, TypeOK', UNCHANGED <<graph, worker, failed, status, seen>>,
         \A r \in Runners : loop'[r] = loop[r] \/ loop'[r].pc \notin {"consume", "spawn"}
  PROVE  OrderInv'
<1>1. direction' = direction /\ \A s \in Services : Awaited(s)' = Awaited(s)
  BY Directions DEF OrderInv
<1>2. \A s \in Services : Succeeded(s)' = Succeeded(s)
  BY DEF Succeeded
<1>3. StatusInv'
  BY <1>1, <1>2 DEF OrderInv, StatusInv, Initial, Target
<1>4. FailedInv' /\ SeenInv'
  BY DEF OrderInv, FailedInv, SeenInv, Runners
<1>5. RunnerInv'
  BY DEF OrderInv, RunnerInv, Awaited, Parents, Succeeded, graph
<1>6. VisitInOrder'
  BY DEF OrderInv, VisitInOrder, Awaited, Parents, Succeeded, graph
<1> QED
  BY <1>3, <1>4, <1>5, <1>6 DEF OrderInv

(* No node is pending any longer: the service is ready when its statuses   *)
(* say so.                                                                 *)
LEMMA ReadyIsCleared ==
  ASSUME OrderInv, NEW s \in Services, Unready(s) = {}
  PROVE  \A t \in Awaited(s) : Succeeded(t)
<1> SUFFICES ASSUME NEW t \in Awaited(s) PROVE Succeeded(t)
  OBVIOUS
<1>1. t \in Services
  BY Neighbours DEF OrderInv
<1>2. status[t] # Initial(direction)
  BY DEF Unready
<1> QED
  BY <1>1, <1>2 DEF OrderInv, StatusInv

LEMMA RunnerOrder ==
  ASSUME OrderInv, TypeOK', NEW r \in Runners, Runner(r)
  PROVE  OrderInv'
<1> USE DEF OrderInv
<1>1. CASE CheckNode(r)
  <2>1. PICK s \in loop[r].todo :
          loop' = [loop EXCEPT ![r] = [pc   |-> IF Unready(s) = {} THEN "consume" ELSE "check",
                                       todo |-> loop[r].todo \ {s},
                                       node |-> s]]
    BY <1>1 DEF CheckNode
  <2>2. s \in Services
    BY DEF TypeOK
  <2>3. CASE Unready(s) = {}
    <3>1. \A t \in Awaited(s) : Succeeded(t)
      BY <2>2, <2>3, ReadyIsCleared
    <3>2. loop' = [loop EXCEPT ![r] = [pc |-> "consume", todo |-> loop[r].todo \ {s}, node |-> s]]
      BY <2>1, <2>3
    <3>3. UNCHANGED <<graph, worker, failed, status, seen>>
      BY <1>1 DEF CheckNode, wvars
    <3>4. RunnerInv'
      BY <2>2, <3>1, <3>2, <3>3 DEF RunnerInv, TypeOK, Awaited, Parents, Succeeded, graph
    <3>5. StatusInv' /\ FailedInv' /\ VisitInOrder'
      BY <3>3 DEF StatusInv, FailedInv, VisitInOrder, Awaited, Parents, Succeeded, graph,
                  Initial, Target
    <3>6. SeenInv'
      BY <3>2, <3>3 DEF SeenInv, TypeOK, Runners
    <3> QED
      BY <3>4, <3>5, <3>6
  <2>4. CASE Unready(s) # {}
    <3>1. loop' = [loop EXCEPT ![r] = [pc |-> "check", todo |-> loop[r].todo \ {s}, node |-> s]]
      BY <2>1, <2>4
    <3>2. \A q \in Runners : loop'[q] = loop[q] \/ loop'[q].pc \notin {"consume", "spawn"}
      BY <3>1 DEF TypeOK
    <3> QED
      BY <1>1, <3>2, QuietStep DEF CheckNode, wvars
  <2> QED
    BY <2>3, <2>4
<1>2. CASE ConsumeNode(r)
  <2>1. UNCHANGED <<graph, worker, failed, status>> /\ seen' = seen \cup {loop[r].node}
    BY <1>2 DEF ConsumeNode, wvars
  <2>2. loop' = [loop EXCEPT ![r].pc = IF loop[r].node \in seen THEN "check" ELSE "spawn"]
    BY <1>2 DEF ConsumeNode, Taken
  <2>3. StatusInv' /\ FailedInv' /\ VisitInOrder'
    BY <2>1 DEF StatusInv, FailedInv, VisitInOrder, Awaited, Parents, Succeeded, graph,
                Initial, Target
  <2>4. RunnerInv'
    BY <1>2, <2>1, <2>2 DEF ConsumeNode, RunnerInv, TypeOK, Awaited, Parents, Succeeded, graph
  <2>5. CASE loop[r].node \in seen
    <3>1. loop' = [loop EXCEPT ![r].pc = "check"]
      BY <2>2, <2>5
    <3> QED
      BY <2>1, <2>3, <2>4, <2>5, <3>1 DEF SeenInv, TypeOK, Runners
  <2>6. CASE loop[r].node \notin seen
    <3>1. loop' = [loop EXCEPT ![r].pc = "spawn"]
      BY <2>2, <2>6
    <3>2. loop[r].node \in Services /\ worker[loop[r].node] = "idle"
      BY <1>2, <2>6 DEF ConsumeNode, RunnerInv, SeenInv
    <3>3. SeenInv'
      BY <2>1, <2>6, <3>1, <3>2 DEF SeenInv, TypeOK, Runners
    <3> QED
      BY <2>3, <2>4, <3>3
  <2> QED
    BY <2>5, <2>6
<1>3. CASE SpawnWorker(r)
  <2> DEFINE n == loop[r].node
  <2>1. /\ UNCHANGED <<graph, failed, status, seen>>
        /\ loop' = [loop EXCEPT ![r].pc = "check"]
        /\ loop[r].pc = "spawn"
    BY <1>3 DEF SpawnWorker
  <2>2. PICK pc \in {"visited", "visiting"} : worker' = [worker EXCEPT ![n] = pc]
    BY <1>3 DEF SpawnWorker
  <2>3. /\ n \in Services /\ n \in seen /\ worker[n] = "idle"
        /\ \A t \in Awaited(n) : Succeeded(t)
    BY <2>1 DEF SeenInv, RunnerInv
  <2>4. n \notin failed /\ ~Succeeded(n)
    BY <2>3 DEF FailedInv, Succeeded
  <2>5. \A s \in Services : Succeeded(s)' = Succeeded(s)
    BY <2>1, <2>2, <2>3, <2>4 DEF Succeeded, TypeOK
  <2>6. StatusInv'
    BY <2>1, <2>5 DEF StatusInv, graph, Initial, Target
  <2>7. FailedInv'
    BY <2>1, <2>2, <2>4 DEF FailedInv, TypeOK
  <2>8. SeenInv'
    BY <2>1, <2>2, <2>3 DEF SeenInv, TypeOK, Runners
  <2>9. RunnerInv'
    <3>1. \A q \in Runners : loop'[q].pc \in {"consume", "spawn"} => loop'[q] = loop[q]
      BY <2>1 DEF TypeOK
    <3> QED
      BY <2>1, <2>2, <2>4, <3>1 DEF RunnerInv, TypeOK, Awaited, Parents, Succeeded, graph
  <2>10. VisitInOrder'
    BY <2>1, <2>2, <2>3, <2>4 DEF VisitInOrder, TypeOK, Awaited, Parents, Succeeded, graph
  <2> QED
    BY <2>6, <2>7, <2>8, <2>9, <2>10
<1>4. CASE RunReturns(r)
  <2>1. \A q \in Runners : loop'[q] = loop[q] \/ loop'[q].pc \notin {"consume", "spawn"}
    BY <1>4 DEF RunReturns, AfterRun, At, TypeOK
  <2> QED
    BY <1>4, <2>1, QuietStep DEF RunReturns, wvars
<1> QED
  BY <1>1, <1>2, <1>3, <1>4 DEF Runner

(* A worker on its way never takes back a success: what runners and other  *)
(* workers rely on stays true.                                             *)
LEMMA WorkerFrame ==
  ASSUME OrderInv, UNCHANGED <<graph, loop, seen>>,
         \A s \in Services : Succeeded(s) => Succeeded(s)',
         \A s \in Services : worker[s] = "idle" <=> worker'[s] = "idle"
  PROVE  SeenInv' /\ RunnerInv' /\ VisitInOrder'
<1>1. \A s \in Services : Awaited(s) \subseteq Services
  BY Neighbours DEF OrderInv
<1>2. \A r \in Runners : loop[r].pc \in {"consume", "spawn"} => loop[r].node \in Services
  BY DEF OrderInv, RunnerInv
<1>3. SeenInv'
  BY <1>2 DEF OrderInv, SeenInv, Runners
<1>4. RunnerInv'
  BY <1>1 DEF OrderInv, RunnerInv, Awaited, Parents, Succeeded, graph
<1>5. VisitInOrder'
  BY <1>1 DEF OrderInv, VisitInOrder, Awaited, Parents, Succeeded, graph
<1> QED
  BY <1>3, <1>4, <1>5

LEMMA WorkerOrder ==
  ASSUME OrderInv, TypeOK', NEW s \in Services, Worker(s)
  PROVE  OrderInv'
<1> USE DEF OrderInv
<1>1. CASE VisitorReturns(s)
  <2>1. /\ UNCHANGED <<graph, loop, seen, status>>
        /\ worker[s] = "visiting" /\ worker' = [worker EXCEPT ![s] = "visited"]
        /\ failed \subseteq failed' /\ failed' \subseteq failed \cup {s}
    BY <1>1 DEF VisitorReturns, rvars
  <2>2. \A t \in Services : Succeeded(t)' = Succeeded(t)
    BY <2>1 DEF Succeeded, TypeOK
  <2>3. StatusInv' /\ FailedInv'
    BY <2>1, <2>2 DEF StatusInv, FailedInv, TypeOK, graph, Initial, Target
  <2>4. \A t \in Services : worker[t] = "idle" <=> worker'[t] = "idle"
    BY <2>1 DEF TypeOK
  <2> QED
    BY <2>1, <2>2, <2>3, <2>4, WorkerFrame
<1>2. CASE UpdateStatus(s)
  <2>1. /\ UNCHANGED <<graph, loop, seen, failed>>
        /\ worker[s] = "visited" /\ worker' = [worker EXCEPT ![s] = "sending"]
        /\ status' = [status EXCEPT ![s] = StatusAfter(s)]
    BY <1>2 DEF UpdateStatus, rvars
  <2>2. \A t \in Services : t # s => Succeeded(t)' = Succeeded(t)
    BY <2>1 DEF Succeeded, TypeOK
  <2>3. ~Succeeded(s) /\ Succeeded(s)' = (s \notin failed)
    BY <2>1 DEF Succeeded, TypeOK
  <2>4. StatusInv'
    BY <2>1, <2>2, <2>3 DEF StatusInv, StatusAfter, TypeOK, graph, Initial, Target
  <2>5. FailedInv'
    BY <2>1 DEF FailedInv, TypeOK
  <2>6. \A t \in Services : worker[t] = "idle" <=> worker'[t] = "idle"
    BY <2>1 DEF TypeOK
  <2>7. \A t \in Services : Succeeded(t) => Succeeded(t)'
    BY <2>2, <2>3
  <2> QED
    BY <2>1, <2>4, <2>5, <2>6, <2>7, WorkerFrame
<1>3. CASE SendNode(s) \/ WorkerReturns(s)
  <2>1. PICK pc \in {"returning", "done"} :
          /\ UNCHANGED <<graph, loop, seen, failed, status>>
          /\ worker[s] \in {"sending", "returning"}
          /\ worker' = [worker EXCEPT ![s] = pc]
    BY <1>3 DEF SendNode, WorkerReturns, rvars
  <2>2. \A t \in Services : Succeeded(t)' = Succeeded(t)
    BY <2>1 DEF Succeeded, TypeOK
  <2>3. StatusInv' /\ FailedInv'
    BY <2>1, <2>2 DEF StatusInv, FailedInv, TypeOK, graph, Initial, Target
  <2>4. \A t \in Services : worker[t] = "idle" <=> worker'[t] = "idle"
    BY <2>1 DEF TypeOK
  <2> QED
    BY <2>1, <2>2, <2>3, <2>4, WorkerFrame
<1> QED
  BY <1>1, <1>2, <1>3 DEF Worker

LEMMA OrderStep == OrderInv /\ [Next]_vars => OrderInv'
<1> SUFFICES ASSUME OrderInv, [Next]_vars PROVE OrderInv'
  OBVIOUS
<1>0. TypeOK'
  BY TypeStep DEF OrderInv
<1>1. CASE FindExtremities
  <2>1. UNCHANGED <<graph, worker, failed, status, seen>>
    BY <1>1 DEF FindExtremities, wvars
  <2>2. \A q \in Runners : loop'[q] = loop[q] \/ loop'[q].pc \notin {"consume", "spawn"}
    BY <1>1 DEF FindExtremities, OrderInv, TypeOK
  <2> QED
    BY <1>0, <2>1, <2>2, QuietStep
<1>2. ASSUME NEW r \in Runners, Runner(r) PROVE OrderInv'
  BY <1>0, <1>2, RunnerOrder
<1>3. CASE VisitReturns \/ ReaderCancelled
  <2>1. UNCHANGED <<graph, worker, failed, status, seen>>
    BY <1>3 DEF VisitReturns, ReaderCancelled, wvars
  <2>2. \A q \in Runners : loop'[q] = loop[q] \/ loop'[q].pc \notin {"consume", "spawn"}
    BY <1>3 DEF VisitReturns, ReaderCancelled, OrderInv, TypeOK
  <2> QED
    BY <1>0, <2>1, <2>2, QuietStep
<1>4. CASE ReaderReceives
  <2>1. UNCHANGED <<graph, worker, failed, status, seen>>
    BY <1>4 DEF ReaderReceives
  <2>2. \A q \in Runners : loop'[q] = loop[q] \/ loop'[q].pc \notin {"consume", "spawn"}
    <3>1. \A q \in Runners : q # "reader" => loop'[q] = loop[q]
      BY <1>4 DEF ReaderReceives, OrderInv, TypeOK
    <3>2. loop'["reader"].pc \in {"done", "check"}
      BY <1>4 DEF ReaderReceives, At, OrderInv, TypeOK, Runners
    <3> QED
      BY <3>1, <3>2
  <2> QED
    BY <1>0, <2>1, <2>2, QuietStep
<1>5. ASSUME NEW s \in Services, Worker(s) PROVE OrderInv'
  BY <1>0, <1>5, WorkerOrder
<1>6. CASE ParentCancelled \/ UNCHANGED vars
  <2>1. UNCHANGED <<graph, worker, failed, status, seen, loop>>
    BY <1>6 DEF ParentCancelled, vars, wvars, rvars, graph
  <2> QED
    BY <1>0, <2>1, QuietStep
<1> QED
  BY <1>1, <1>2, <1>3, <1>4, <1>5, <1>6 DEF Next, Main, Reader, Runners, Terminated

LEMMA OrderInvariant == Spec => []OrderInv
BY OrderInit, OrderStep, PTL DEF Spec

(* A service is visited only after the visitor succeeded for every service *)
(* it waits for: the promise of InDependencyOrder, for every project.      *)
THEOREM VisitsInOrder == Spec => []VisitInOrder
<1>1. OrderInv => VisitInOrder
  BY DEF OrderInv
<1> QED
  BY OrderInvariant, <1>1, PTL

LEMMA OnceStep ==
  ASSUME OrderInv, [Next]_vars, NEW s \in Services, worker[s] # "idle"
  PROVE  worker'[s] \notin {"idle", "visiting"} \/ worker'[s] = worker[s]
<1>1. ASSUME NEW r \in Runners, SpawnWorker(r)
      PROVE  worker'[s] = worker[s]
  <2>1. loop[r].node # s
    BY <1>1 DEF SpawnWorker, OrderInv, SeenInv
  <2> QED
    BY <1>1, <2>1 DEF SpawnWorker, OrderInv, TypeOK
<1>2. ASSUME NEW r \in Runners, CheckNode(r) \/ ConsumeNode(r) \/ RunReturns(r)
      PROVE  worker' = worker
  BY <1>2 DEF CheckNode, ConsumeNode, RunReturns, wvars
<1>3. ASSUME NEW w \in Services, Worker(w)
      PROVE  worker'[s] \notin {"idle", "visiting"} \/ worker'[s] = worker[s]
  <2>1. PICK pc \in {"visited", "sending", "returning", "done"} :
          worker' = [worker EXCEPT ![w] = pc]
    BY <1>3 DEF Worker, VisitorReturns, UpdateStatus, SendNode, WorkerReturns
  <2> QED
    BY <2>1 DEF OrderInv, TypeOK
<1>4. CASE FindExtremities \/ VisitReturns \/ ReaderCancelled \/ ReaderReceives
           \/ ParentCancelled \/ UNCHANGED vars
  BY <1>4 DEF FindExtremities, VisitReturns, ReaderCancelled, ReaderReceives,
              ParentCancelled, vars, wvars
<1> QED
  BY <1>1, <1>2, <1>3, <1>4 DEF Next, Main, Reader, Runner, Runners, Terminated

(* A service is given to one goroutine, once, though every service it      *)
(* waits for releases it.                                                  *)
THEOREM EachVisitedOnce == Spec => VisitedOnce
<1>1. OrderInv /\ [Next]_vars
        => [\A s \in Services : worker[s] # "idle" =>
               worker'[s] \notin {"idle", "visiting"} \/ worker'[s] = worker[s]]_vars
  BY OnceStep
<1> QED
  BY <1>1, OrderInvariant, PTL DEF Spec, VisitedOnce

----------------------------------------------------------------------------
(* What is left when visit returns.                                        *)

ReturnInv ==
  /\ TypeOK
  /\ result # "none" => /\ loop["main"].pc = "done" /\ loop["reader"].pc = "done"
                        /\ Working = {}

(* Only eg.Wait sets the result, and afterwards nothing happens.           *)
LEMMA OnlyVisitReturns ==
  ASSUME [Next]_vars, ~VisitReturns
  PROVE  result' = result
BY DEF Next, Main, Reader, Runner, Worker, FindExtremities, CheckNode, ConsumeNode,
       SpawnWorker, RunReturns, ReaderCancelled, ReaderReceives, VisitorReturns,
       UpdateStatus, SendNode, WorkerReturns, ParentCancelled, Terminated, vars, evars

LEMMA AfterReturn ==
  ASSUME ReturnInv, [Next]_vars, result # "none"
  PROVE  UNCHANGED vars
<1>1. /\ loop["main"].pc = "done" /\ loop["reader"].pc = "done"
      /\ \A s \in Services : worker[s] \in {"idle", "done"}
  BY DEF ReturnInv, Working
<1>2. \A r \in Runners : ~Runner(r)
  BY <1>1 DEF Runners, Runner, CheckNode, ConsumeNode, SpawnWorker, RunReturns
<1>3. \A s \in Services : ~Worker(s)
  BY <1>1 DEF Worker, VisitorReturns, UpdateStatus, SendNode, WorkerReturns
<1>4. ~FindExtremities /\ ~VisitReturns /\ ~ReaderCancelled /\ ~ReaderReceives
  BY <1>1 DEF FindExtremities, VisitReturns, ReaderCancelled, ReaderReceives
<1> QED
  BY <1>2, <1>3, <1>4 DEF Next, Main, Reader, Runners, ParentCancelled, Terminated

LEMMA ReturnStep == ReturnInv /\ [Next]_vars => ReturnInv'
<1> SUFFICES ASSUME ReturnInv, [Next]_vars PROVE ReturnInv'
  OBVIOUS
<1>1. TypeOK'
  BY TypeStep DEF ReturnInv
<1>2. CASE VisitReturns
  BY <1>1, <1>2 DEF VisitReturns, AllReturned, Working, ReturnInv, TypeOK, Runners, wvars
<1>3. CASE result = "none" /\ ~VisitReturns
  BY <1>1, <1>3, OnlyVisitReturns DEF ReturnInv
<1>4. CASE result # "none"
  BY <1>1, <1>4, AfterReturn DEF ReturnInv, Working, vars, rvars, wvars, evars
<1> QED
  BY <1>2, <1>3, <1>4

(* When visit returns, its reader and all its workers have: none of them   *)
(* starts a service later or sends on the channel that visit closes.       *)
THEOREM NothingIsLeftBehind == Spec => []NothingAfterReturn
<1>1. Init => ReturnInv
  BY TypeInit DEF Init, GraphInit, WalkInit, ReturnInv
<1>2. ReturnInv => NothingAfterReturn
  BY DEF ReturnInv, NothingAfterReturn
<1> QED
  BY <1>1, <1>2, ReturnStep, PTL DEF Spec

----------------------------------------------------------------------------
(* What the result of a walk is worth, how many visitors run, what a walk  *)
(* down from named services leaves running, and that the walk implements   *)
(* DependencyOrder.                                                        *)
(*                                                                         *)
(* The result is right because the reader counts: it may stop without the  *)
(* context being done only when all vertices have been through the channel *)
(* (CountInv), and the context is done only when the caller gave up or an  *)
(* error is recorded (ErrInv).  The limit holds for the same reason: the   *)
(* slot the reader gives back is of no use any more (LimitInv).            *)

Elements(q) == {q[i] : i \in 1..Len(q)}
Distinct(q) == \A i, j \in 1..Len(q) : q[i] = q[j] => i = j

Sent     == {s \in Services : worker[s] \in {"returning", "done"}}
Received == Sent \ Elements(nodeCh)

CountInv ==
  /\ Distinct(nodeCh)
  /\ Elements(nodeCh) \subseteq Sent
  /\ expect = Cardinality(Services \ Received)
  /\ loop["reader"].pc = "done" => expect = 0 \/ ctxDone

ErrInv ==
  /\ groupErr => failed # {}
  /\ \A s \in failed : worker[s] = "done" => groupErr
  /\ ctxDone => parentDone \/ groupErr \/ result # "none"

IgnoreInv ==
  /\ IF loop["main"].pc = "start"
     THEN /\ \A s \in Services : worker[s] = "idle"
          /\ nodeCh = <<>>
          /\ loop["reader"].pc \in {"select", "done"}
     ELSE ignored = Unwanted
  /\ \A s \in Services : worker[s] = "visiting" => s \notin ignored

LimitInv ==
  MaxConcurrency > 0 /\ (loop["reader"].pc # "done" \/ ~ctxDone)
    => Cardinality(Working) <= MaxConcurrency

WalkInv ==
  OrderInv /\ ReturnInv /\ CountInv /\ ErrInv /\ IgnoreInv /\ LimitInv /\ ResultIsFaithful

----------------------------------------------------------------------------
(* The channel.                                                            *)

LEMMA ChannelTail ==
  ASSUME NEW S, NEW q \in Seq(S), q # <<>>, Distinct(q)
  PROVE  /\ Head(q) \in Elements(q)
         /\ Elements(Tail(q)) = Elements(q) \ {Head(q)}
         /\ Distinct(Tail(q))
<1>1. Len(q) \in Nat /\ Len(q) >= 1 /\ Head(q) = q[1] /\ 1 \in 1..Len(q)
  OBVIOUS
<1>2. Len(Tail(q)) = Len(q) - 1 /\ \A i \in 1..Len(Tail(q)) : Tail(q)[i] = q[i + 1]
  BY <1>1
<1>3. \A x : x \in Elements(Tail(q)) <=> \E i \in 2..Len(q) : x = q[i]
  <2>1. ASSUME NEW x, x \in Elements(Tail(q)) PROVE \E i \in 2..Len(q) : x = q[i]
    <3>1. PICK i \in 1..Len(Tail(q)) : x = Tail(q)[i]
      BY <2>1 DEF Elements
    <3>2. i + 1 \in 2..Len(q) /\ x = q[i + 1]
      BY <1>1, <1>2, <3>1
    <3> QED
      BY <3>2
  <2>2. ASSUME NEW x, NEW i \in 2..Len(q), x = q[i] PROVE x \in Elements(Tail(q))
    <3>1. i - 1 \in 1..Len(Tail(q)) /\ (i - 1) + 1 = i
      BY <1>1, <1>2
    <3>2. Tail(q)[i - 1] = q[i]
      BY <1>2, <3>1
    <3> QED
      BY <2>2, <3>1, <3>2 DEF Elements
  <2> QED
    BY <2>1, <2>2
<1>4. Elements(Tail(q)) = Elements(q) \ {Head(q)}
  <2>1. \A i \in 1..Len(q) : i \in 2..Len(q) <=> q[i] # q[1]
    BY <1>1 DEF Distinct
  <2>2. \A x : x \in Elements(q) <=> \E i \in 1..Len(q) : x = q[i]
    BY DEF Elements
  <2>3. \A x : (\E i \in 2..Len(q) : x = q[i]) <=> (\E i \in 1..Len(q) : x = q[i]) /\ x # q[1]
    BY <1>1, <2>1
  <2> QED
    BY <1>1, <1>3, <2>2, <2>3
<1>5. Distinct(Tail(q))
  <2> SUFFICES ASSUME NEW i \in 1..Len(Tail(q)), NEW j \in 1..Len(Tail(q)), Tail(q)[i] = Tail(q)[j]
               PROVE  i = j
    BY DEF Distinct
  <2>1. i + 1 \in 1..Len(q) /\ j + 1 \in 1..Len(q) /\ q[i + 1] = q[j + 1]
    BY <1>1, <1>2
  <2> QED
    BY <2>1 DEF Distinct
<1> QED
  BY <1>1, <1>4, <1>5 DEF Elements

LEMMA ChannelAppend ==
  ASSUME NEW S, NEW q \in Seq(S), NEW x \in S, x \notin Elements(q), Distinct(q)
  PROVE  /\ Elements(Append(q, x)) = Elements(q) \cup {x}
         /\ Distinct(Append(q, x))
<1> DEFINE n == Len(q)
<1>1. n \in Nat /\ Len(Append(q, x)) = n + 1 /\ Append(q, x)[n + 1] = x
  OBVIOUS
<1>2. \A i \in 1..n : Append(q, x)[i] = q[i]
  OBVIOUS
<1>3. 1..(n + 1) = 1..n \cup {n + 1}
  BY <1>1
<1> QED
  BY <1>1, <1>2, <1>3 DEF Elements, Distinct

LEMMA CountingDown ==
  ASSUME NEW R, NEW s \in Services, s \notin R
  PROVE  Cardinality(Services \ (R \cup {s})) = Cardinality(Services \ R) - 1
<1>1. IsFiniteSet(Services \ R) /\ s \in Services \ R
  BY ServicesAssumption, FS_Difference
<1>2. Services \ (R \cup {s}) = (Services \ R) \ {s}
  OBVIOUS
<1> QED
  BY <1>1, <1>2, FS_RemoveElement

LEMMA AllCounted ==
  ASSUME NEW R, Cardinality(Services \ R) = 0
  PROVE  Services \subseteq R
<1>1. IsFiniteSet(Services \ R)
  BY ServicesAssumption, FS_Difference
<1> QED
  BY <1>1, FS_EmptySet

(* When the reader stops with a count of 0, every service has been sent.   *)
LEMMA NothingExpected ==
  ASSUME CountInv, expect = 0
  PROVE  \A s \in Services : worker[s] \in {"returning", "done"}
BY AllCounted DEF CountInv, Received, Sent

----------------------------------------------------------------------------
(* The count.                                                              *)

LEMMA CountInit == Init => CountInv
<1> SUFFICES ASSUME Init PROVE CountInv
  OBVIOUS
<1>1. nodeCh = <<>> /\ Sent = {} /\ expect = Cardinality(Services)
  BY DEF Init, GraphInit, WalkInit, Sent
<1>2. Elements(nodeCh) = {} /\ Distinct(nodeCh)
  BY <1>1 DEF Elements, Distinct
<1>3. Services \ Received = Services
  BY <1>1 DEF Received
<1>4. loop["reader"].pc = "select"
  BY DEF Init, GraphInit, WalkInit, At, Runners
<1> QED
  BY <1>1, <1>2, <1>3, <1>4 DEF CountInv

(* A step that neither sends nor receives.                                 *)
LEMMA CountFrame ==
  ASSUME CountInv, UNCHANGED <<nodeCh, expect>>,
         \A s \in Services : worker[s] \in {"returning", "done"} <=> worker'[s] \in {"returning", "done"},
         loop'["reader"].pc = "done" => loop["reader"].pc = "done" \/ ctxDone',
         ctxDone => ctxDone'
  PROVE  CountInv'
<1>1. Sent' = Sent
  BY DEF Sent
<1>2. Received' = Received
  BY <1>1 DEF Received
<1> QED
  BY <1>1, <1>2 DEF CountInv

LEMMA CountStep ==
  ASSUME OrderInv, CountInv, [Next]_vars
  PROVE  CountInv'
<1>0. TypeOK
  BY DEF OrderInv
<1>1. CASE ReaderReceives
  <2> DEFINE h == Head(nodeCh)
  <2>1. /\ nodeCh \in Seq(Services) /\ nodeCh # <<>> /\ nodeCh' = Tail(nodeCh)
        /\ expect \in Int /\ expect' = expect - 1
        /\ Sent' = Sent /\ ctxDone' = ctxDone
    BY <1>0, <1>1 DEF ReaderReceives, TypeOK, Sent, evars
  <2>2. /\ h \in Elements(nodeCh) /\ h \in Services
        /\ Elements(nodeCh)' = Elements(nodeCh) \ {h} /\ Distinct(nodeCh)'
    BY <2>1, ChannelTail DEF CountInv
  <2>3. h \notin Received /\ Received' = Received \cup {h}
    BY <2>1, <2>2 DEF Received, CountInv
  <2>4. expect' = Cardinality(Services \ Received')
    BY <2>1, <2>2, <2>3, CountingDown DEF CountInv
  <2>5. loop'["reader"].pc = "done" => expect' = 0
    BY <1>0, <1>1 DEF ReaderReceives, TypeOK, At, Runners
  <2> QED
    BY <2>1, <2>2, <2>4, <2>5 DEF CountInv
<1>2. ASSUME NEW s \in Services, SendNode(s) PROVE CountInv'
  <2>1. /\ nodeCh \in Seq(Services) /\ nodeCh' = Append(nodeCh, s)
        /\ expect' = expect /\ ctxDone' = ctxDone /\ loop' = loop
        /\ s \notin Sent /\ Sent' = Sent \cup {s}
    BY <1>0, <1>2 DEF SendNode, TypeOK, Sent, rvars, evars
  <2>2. Elements(nodeCh)' = Elements(nodeCh) \cup {s} /\ Distinct(nodeCh)'
    BY <2>1, ChannelAppend DEF CountInv
  <2>3. Received' = Received
    BY <2>1, <2>2 DEF Received, CountInv
  <2> QED
    BY <2>1, <2>2, <2>3 DEF CountInv
<1>3. ASSUME NEW r \in Runners, Runner(r) PROVE CountInv'
  <2>1. CASE SpawnWorker(r)
    <3>1. loop[r].node \in Services /\ worker[loop[r].node] = "idle"
      BY <2>1 DEF SpawnWorker, OrderInv, SeenInv, RunnerInv
    <3> QED
      BY <1>0, <2>1, <3>1, CountFrame DEF SpawnWorker, TypeOK, Runners, evars
  <2>2. CASE ~SpawnWorker(r)
    BY <1>0, <1>3, <2>2, CountFrame DEF Runner, CheckNode, ConsumeNode, RunReturns, AfterRun, At, TypeOK, Runners, wvars, evars
  <2> QED
    BY <2>1, <2>2
<1>4. ASSUME NEW s \in Services, VisitorReturns(s) \/ UpdateStatus(s) \/ WorkerReturns(s) PROVE CountInv'
  BY <1>0, <1>4, CountFrame DEF VisitorReturns, UpdateStatus, WorkerReturns, TypeOK, rvars, evars
<1>5. CASE FindExtremities \/ ReaderCancelled \/ VisitReturns \/ ParentCancelled \/ UNCHANGED vars
  BY <1>0, <1>5, CountFrame DEF FindExtremities, ReaderCancelled, VisitReturns, ParentCancelled, GroupDone,
     TypeOK, Runners, vars, wvars, rvars, evars
<1> QED
  BY <1>1, <1>2, <1>3, <1>4, <1>5 DEF Next, Main, Reader, Worker, Runners, Terminated

----------------------------------------------------------------------------
(* Errors and the context.                                                 *)

LEMMA ErrStep ==
  ASSUME OrderInv, ErrInv, [Next]_vars
  PROVE  ErrInv'
<1>0. TypeOK
  BY DEF OrderInv
<1>1. ASSUME NEW s \in Services, WorkerReturns(s) PROVE ErrInv'
  <2>1. /\ worker' = [worker EXCEPT ![s] = "done"]
        /\ UNCHANGED <<failed, parentDone, result>>
    BY <1>1 DEF WorkerReturns
  <2>2. groupErr' <=> groupErr \/ s \in failed
    BY <1>0, <1>1 DEF WorkerReturns, FirstError, TypeOK
  <2>3. ctxDone' <=> ctxDone \/ s \in failed
    BY <1>0, <1>1 DEF WorkerReturns, TypeOK
  <2>4. \A t \in failed : t # s => worker'[t] = worker[t]
    BY <1>0, <2>1 DEF TypeOK
  <2> QED
    BY <2>1, <2>2, <2>3, <2>4 DEF ErrInv
<1>2. ASSUME NEW s \in Services, VisitorReturns(s) PROVE ErrInv'
  <2>1. /\ worker' = [worker EXCEPT ![s] = "visited"]
        /\ failed \subseteq failed' /\ failed' \subseteq failed \cup {s}
        /\ UNCHANGED evars
    BY <1>2 DEF VisitorReturns
  <2>2. \A t \in failed' : worker'[t] = "done" => t \in failed /\ worker[t] = "done"
    BY <1>0, <2>1 DEF TypeOK
  <2> QED
    BY <2>1, <2>2 DEF ErrInv, evars
<1>3. ASSUME UNCHANGED <<failed, evars>>,
             \A t \in failed : worker'[t] = "done" => worker[t] = "done"
      PROVE  ErrInv'
  BY <1>3 DEF ErrInv, evars
<1>4. ASSUME NEW s \in Services, UpdateStatus(s) \/ SendNode(s) PROVE ErrInv'
  BY <1>0, <1>3, <1>4 DEF UpdateStatus, SendNode, TypeOK
<1>5. ASSUME NEW r \in Runners, Runner(r) PROVE ErrInv'
  BY <1>0, <1>3, <1>5 DEF Runner, CheckNode, ConsumeNode, SpawnWorker, RunReturns, TypeOK, wvars
<1>6. CASE FindExtremities \/ ReaderCancelled \/ ReaderReceives \/ UNCHANGED vars
  BY <1>3, <1>6 DEF FindExtremities, ReaderCancelled, ReaderReceives, vars, wvars
<1>7. CASE ParentCancelled
  BY <1>7 DEF ParentCancelled, ErrInv, wvars
<1>8. CASE VisitReturns
  BY <1>8 DEF VisitReturns, ErrInv, wvars
<1> QED
  BY <1>1, <1>2, <1>4, <1>5, <1>6, <1>7, <1>8 DEF Next, Main, Reader, Worker, Runners, Terminated

(* What a result says.                                                     *)
LEMMA ResultStep ==
  ASSUME OrderInv, ReturnInv, CountInv, ErrInv, ResultIsFaithful, [Next]_vars
  PROVE  ResultIsFaithful'
<1>1. CASE result # "none"
  <2>1. UNCHANGED vars
    BY <1>1, AfterReturn
  <2> QED
    BY <2>1 DEF ResultIsFaithful, Succeeded, vars, wvars, evars
<1>2. CASE result = "none" /\ ~VisitReturns
  BY <1>2, OnlyVisitReturns DEF ResultIsFaithful
<1>3. CASE result = "none" /\ VisitReturns
  <2>1. /\ loop["reader"].pc = "done" /\ \A s \in Services : worker[s] \in {"idle", "done"}
        /\ result' = IF groupErr THEN "err" ELSE "nil"
        /\ UNCHANGED <<worker, failed, parentDone>>
    BY <1>3 DEF VisitReturns, AllReturned, Working, wvars
  <2>2. failed \subseteq Services /\ \A s \in failed : worker[s] = "done"
    BY <2>1 DEF OrderInv, TypeOK, FailedInv
  <2>3. groupErr <=> failed # {}
    BY <2>2 DEF ErrInv
  <2>4. ASSUME failed = {}, ~parentDone PROVE \A s \in Services : Succeeded(s)
    <3>1. expect = 0
      BY <1>3, <2>1, <2>3, <2>4 DEF ErrInv, CountInv
    <3> QED
      BY <2>4, <3>1, NothingExpected DEF Succeeded
  <2> QED
    BY <2>1, <2>3, <2>4 DEF ResultIsFaithful, Succeeded
<1> QED
  BY <1>1, <1>2, <1>3

----------------------------------------------------------------------------
(* How many run.                                                           *)

LEMMA WorkingIsFinite == IsFiniteSet(Working)
BY ServicesAssumption, FS_Subset DEF Working

LEMMA LimitFrame ==
  ASSUME LimitInv, Working' \subseteq Working,
         loop["reader"].pc = "done" => loop'["reader"].pc = "done",
         ctxDone => ctxDone'
  PROVE  LimitInv'
<1>1. IsFiniteSet(Working) /\ Cardinality(Working') <= Cardinality(Working)
  BY WorkingIsFinite, FS_Subset
<1>2. Cardinality(Working) \in Nat /\ Cardinality(Working') \in Nat
  BY <1>1, FS_Subset, FS_CardinalityType
<1> QED
  BY <1>1, <1>2, MaxConcurrencyAssumption DEF LimitInv

LEMMA LimitStep ==
  ASSUME OrderInv, CountInv, LimitInv, [Next]_vars
  PROVE  LimitInv'
<1>0. TypeOK
  BY DEF OrderInv
<1>1. ASSUME NEW r \in Runners, SpawnWorker(r) PROVE LimitInv'
  <2> DEFINE n == loop[r].node
  <2>1. n \in Services /\ worker[n] = "idle" /\ UNCHANGED evars /\ SlotFree
    BY <1>1 DEF SpawnWorker, OrderInv, SeenInv, RunnerInv
  <2>2. Working' = Working \cup {n} /\ n \notin Working
    BY <1>0, <1>1, <2>1 DEF SpawnWorker, TypeOK, Working
  <2>3. Cardinality(Working') = Cardinality(Working) + 1 /\ Cardinality(Working) \in Nat
    BY <2>2, WorkingIsFinite, FS_AddElement, FS_CardinalityType
  <2>4. loop'["reader"].pc = "done" <=> loop["reader"].pc = "done"
    BY <1>0, <1>1 DEF SpawnWorker, TypeOK, Runners
  <2>5. CASE loop["reader"].pc = "done"
    <3>1. ctxDone
      BY <2>1, <2>5, NothingExpected DEF CountInv
    <3> QED
      BY <2>1, <2>4, <2>5, <3>1 DEF LimitInv, evars
  <2>6. CASE loop["reader"].pc # "done"
    BY <2>1, <2>3, <2>6, MaxConcurrencyAssumption DEF LimitInv, SlotFree, Slots
  <2> QED
    BY <2>5, <2>6
<1>2. ASSUME NEW s \in Services, Worker(s) PROVE LimitInv'
  <2>1. worker[s] \notin {"idle", "done"} /\ \A t \in Services : t # s => worker'[t] = worker[t]
    BY <1>0, <1>2 DEF Worker, VisitorReturns, UpdateStatus, SendNode, WorkerReturns, TypeOK
  <2>2. Working' \subseteq Working
    BY <2>1 DEF Working
  <2>3. loop' = loop
    BY <1>2 DEF Worker, VisitorReturns, UpdateStatus, SendNode, WorkerReturns, rvars
  <2>4. ctxDone => ctxDone'
    <3>1. CASE WorkerReturns(s)
      BY <3>1 DEF WorkerReturns
    <3>2. CASE VisitorReturns(s) \/ UpdateStatus(s) \/ SendNode(s)
      BY <3>2 DEF VisitorReturns, UpdateStatus, SendNode, evars
    <3> QED
      BY <1>2, <3>1, <3>2 DEF Worker
  <2> QED
    BY <2>2, <2>3, <2>4, LimitFrame
<1>3. ASSUME NEW r \in Runners, Runner(r), ~SpawnWorker(r) PROVE LimitInv'
  <2>1. UNCHANGED <<worker, ctxDone>> /\ loop[r].pc \in {"check", "consume"}
    BY <1>3 DEF Runner, CheckNode, ConsumeNode, RunReturns, wvars, evars
  <2>2. \A q \in Runners : q # r => loop'[q] = loop[q]
    BY <1>0, <1>3 DEF Runner, CheckNode, ConsumeNode, RunReturns, TypeOK
  <2> QED
    BY <2>1, <2>2, LimitFrame DEF Working, Runners
<1>4. CASE FindExtremities \/ ReaderCancelled \/ ReaderReceives \/ VisitReturns \/ ParentCancelled \/ UNCHANGED vars
  BY <1>0, <1>4, LimitFrame DEF FindExtremities, ReaderCancelled, ReaderReceives, VisitReturns, ParentCancelled,
     TypeOK, Working, Runners, vars, wvars, rvars, evars
<1> QED
  BY <1>1, <1>2, <1>3, <1>4 DEF Next, Main, Reader, Runners, Terminated

----------------------------------------------------------------------------
(* What a walk down from named services leaves out.                        *)

LEMMA GraphKept ==
  ASSUME UNCHANGED graph
  PROVE  Unwanted' = Unwanted
BY DEF graph, Unwanted, Ancestors, Parents

LEMMA AncestorsOfAncestors ==
  ASSUME NEW d \in Services, NEW s \in Ancestors(d)
  PROVE  Ancestors(s) \subseteq Ancestors(d)
<1> SUFFICES ASSUME NEW a \in Ancestors(s),
                    NEW S \in SUBSET Services,
                    Parents(d) \subseteq S, \A x \in S : Parents(x) \subseteq S
             PROVE  a \in S
  BY DEF Ancestors
<1>1. s \in S
  BY DEF Ancestors
<1> QED
  BY <1>1 DEF Ancestors

LEMMA IgnoreInit == Init => IgnoreInv
BY DEF Init, GraphInit, WalkInit, At, Runners, IgnoreInv

LEMMA IgnoreStep ==
  ASSUME OrderInv, IgnoreInv, [Next]_vars
  PROVE  IgnoreInv'
<1>0. TypeOK
  BY DEF OrderInv
<1>1. UNCHANGED graph
  BY DEF Next, Main, Reader, Runner, Worker, FindExtremities, CheckNode, ConsumeNode,
         SpawnWorker, RunReturns, ReaderCancelled, ReaderReceives, VisitorReturns, VisitReturns,
         UpdateStatus, SendNode, WorkerReturns, ParentCancelled, Terminated, vars
<1>2. Unwanted' = Unwanted
  BY <1>1, GraphKept
<1>3. CASE FindExtremities
  <2>1. loop["main"].pc = "start" /\ loop'["main"].pc = "check" /\ ignored' = Unwanted /\ worker' = worker
    BY <1>0, <1>3 DEF FindExtremities, TypeOK, Runners, wvars
  <2> QED
    BY <1>2, <2>1 DEF IgnoreInv
<1>4. CASE loop["main"].pc = "start" /\ ~FindExtremities
  <2>1. ~Runner("main") /\ ~Runner("reader") /\ ~ReaderReceives /\ ~VisitReturns
    BY <1>4 DEF IgnoreInv, Runner, CheckNode, ConsumeNode, SpawnWorker, RunReturns, ReaderReceives, VisitReturns
  <2>2. \A s \in Services : ~Worker(s)
    BY <1>4 DEF IgnoreInv, Worker, VisitorReturns, UpdateStatus, SendNode, WorkerReturns
  <2>3. ReaderCancelled \/ ParentCancelled \/ UNCHANGED vars
    BY <1>4, <2>1, <2>2 DEF Next, Main, Reader, Terminated
  <2>4. UNCHANGED <<worker, nodeCh, ignored>> /\ loop'["main"].pc = "start"
        /\ loop'["reader"].pc \in {"select", "done"}
    BY <1>0, <1>4, <2>3 DEF IgnoreInv, ReaderCancelled, ParentCancelled, TypeOK, Runners, vars, wvars, rvars
  <2> QED
    BY <1>4, <2>4 DEF IgnoreInv
<1>5. CASE loop["main"].pc # "start"
  <2>1. ignored' = ignored
    BY <1>5 DEF Next, Main, Reader, Runner, Worker, FindExtremities, CheckNode, ConsumeNode,
         SpawnWorker, RunReturns, ReaderCancelled, ReaderReceives, VisitorReturns, VisitReturns,
         UpdateStatus, SendNode, WorkerReturns, ParentCancelled, Terminated, vars, rvars
  <2>2. loop'["main"].pc # "start"
    <3>1. ASSUME NEW r \in Runners, Runner(r) PROVE loop'["main"].pc # "start"
      BY <1>0, <1>5, <3>1 DEF Runner, CheckNode, ConsumeNode, SpawnWorker, RunReturns, AfterRun, At, TypeOK, Runners
    <3>2. CASE ReaderCancelled \/ ReaderReceives \/ VisitReturns
      BY <1>0, <1>5, <3>2 DEF ReaderCancelled, ReaderReceives, VisitReturns, TypeOK, Runners
    <3>3. ASSUME NEW s \in Services, Worker(s) PROVE loop' = loop
      BY <3>3 DEF Worker, VisitorReturns, UpdateStatus, SendNode, WorkerReturns, rvars
    <3>4. CASE ParentCancelled \/ UNCHANGED vars
      BY <1>5, <3>4 DEF ParentCancelled, vars, rvars
    <3> QED
      BY <1>5, <3>1, <3>2, <3>3, <3>4 DEF Next, Main, Reader, FindExtremities, Terminated, Runners
  <2>3. \A s \in Services : worker'[s] = "visiting" => s \notin ignored
    <3>1. ASSUME NEW r \in Runners, SpawnWorker(r)
          PROVE  \A s \in Services : worker'[s] = "visiting" => s \notin ignored
      BY <1>0, <3>1 DEF IgnoreInv, SpawnWorker, TypeOK
    <3>2. ASSUME NEW r \in Runners, Runner(r), ~SpawnWorker(r) PROVE worker' = worker
      BY <3>2 DEF Runner, CheckNode, ConsumeNode, RunReturns, wvars
    <3>3. ASSUME NEW t \in Services, Worker(t)
          PROVE  \A s \in Services : worker'[s] = "visiting" => worker[s] = "visiting"
      BY <1>0, <3>3 DEF Worker, VisitorReturns, UpdateStatus, SendNode, WorkerReturns, TypeOK
    <3>4. CASE ReaderCancelled \/ ReaderReceives \/ VisitReturns \/ ParentCancelled \/ UNCHANGED vars
      BY <3>4 DEF ReaderCancelled, ReaderReceives, VisitReturns, ParentCancelled, vars, wvars, IgnoreInv
    <3> QED
      BY <1>5, <3>1, <3>2, <3>3, <3>4 DEF Next, Main, Reader, FindExtremities, Terminated, Runners, IgnoreInv
  <2> QED
    BY <1>2, <1>5, <2>1, <2>2, <2>3 DEF IgnoreInv
<1> QED
  BY <1>3, <1>4, <1>5

(* A visited service is named or an ancestor of a named one: so are all    *)
(* its ancestors.                                                          *)
LEMMA NothingLeftAbove == TypeOK /\ IgnoreInv => NoDependentLeftRunning
<1> SUFFICES ASSUME TypeOK, IgnoreInv, NEW s \in Services, worker[s] = "visiting"
             PROVE  Ancestors(s) \cap ignored = {}
  BY DEF NoDependentLeftRunning
<1>1. ignored = Unwanted /\ s \notin Unwanted
  BY DEF IgnoreInv
<1>2. CASE downNodes = {}
  BY <1>1, <1>2 DEF Unwanted
<1>3. CASE downNodes # {}
  <2>1. CASE s \in downNodes
    BY <1>1, <1>3, <2>1 DEF Unwanted
  <2>2. ASSUME NEW d \in downNodes, s \in Ancestors(d)
        PROVE  Ancestors(s) \cap ignored = {}
    <3>1. d \in Services
      BY DEF TypeOK
    <3> QED
      BY <1>1, <1>3, <2>2, <3>1, AncestorsOfAncestors DEF Unwanted
  <2> QED
    BY <1>1, <1>3, <2>1, <2>2 DEF Unwanted
<1> QED
  BY <1>2, <1>3

----------------------------------------------------------------------------
LEMMA WalkStart == Init => WalkInv
<1> SUFFICES ASSUME Init PROVE WalkInv
  OBVIOUS
<1>1. OrderInv /\ CountInv /\ IgnoreInv
  BY OrderInit, CountInit, IgnoreInit
<1>2. result = "none" /\ failed = {} /\ ~groupErr /\ ~ctxDone /\ Working = {}
  BY DEF Init, GraphInit, WalkInit, Working
<1>3. ReturnInv /\ ErrInv /\ ResultIsFaithful
  BY <1>1, <1>2 DEF OrderInv, ReturnInv, ErrInv, ResultIsFaithful
<1>4. LimitInv
  BY <1>2, FS_EmptySet, MaxConcurrencyAssumption DEF LimitInv
<1> QED
  BY <1>1, <1>3, <1>4 DEF WalkInv

LEMMA WalkStep == WalkInv /\ [Next]_vars => WalkInv'
BY OrderStep, ReturnStep, CountStep, ErrStep, IgnoreStep, LimitStep, ResultStep DEF WalkInv

LEMMA WalkInvariant == Spec => []WalkInv
BY WalkStart, WalkStep, PTL DEF Spec

LEMMA LimitKept == TypeOK /\ LimitInv => ParallelLimit
BY DEF TypeOK, LimitInv, ParallelLimit

(* The result of a walk tells what happened, a walk down from named        *)
(* services never stops one while something above it is left running, and  *)
(* --parallel bounds the visitors: for every graph, direction and limit.   *)
THEOREM WalksAreSafe == Spec => []WalkIsSafe
<1>1. WalkInv => WalkIsSafe
  BY NothingLeftAbove, LimitKept DEF WalkInv, OrderInv, WalkIsSafe
<1> QED
  BY <1>1, WalkInvariant, PTL

----------------------------------------------------------------------------
(* The walk implements DependencyOrder.                                    *)

LEMMA StartsAbstract == Init => Abstract!Init
<1> SUFFICES ASSUME Init PROVE Abstract!Init
  OBVIOUS
<1>1. [s \in Services |-> Awaited(s)] \in [Services -> SUBSET Services]
  BY TypeInit, Neighbours
<1>2. [s \in Services |-> Phase(s)] = [s \in Services |-> "waiting"]
  BY DEF Init, GraphInit, WalkInit, Phase
<1> QED
  BY <1>1, <1>2 DEF Abstract!Init, Init, GraphInit, WalkInit

(* What of a step the promise cannot see.                                  *)
LEMMA AbstractStutter ==
  ASSUME TypeOK, UNCHANGED graph, \A s \in Services : Phase(s)' = Phase(s),
         UNCHANGED <<parentDone, result>>
  PROVE  UNCHANGED Abstract!vars
<1>1. \A s \in Services : Awaited(s)' = Awaited(s)
  BY Directions
<1> QED
  BY <1>1 DEF Abstract!vars

LEMMA AbstractStep ==
  ASSUME WalkInv, [Next]_vars
  PROVE  [Abstract!Next]_(Abstract!vars)
<1>0. TypeOK /\ OrderInv
  BY DEF WalkInv, OrderInv
<1>a. UNCHANGED graph => \A s \in Services : Awaited(s)' = Awaited(s)
  BY <1>0, Directions
<1>1. ASSUME NEW r \in Runners, SpawnWorker(r) PROVE Abstract!Next
  <2>0. PICK n \in Services : n = loop[r].node
    BY <1>0, <1>1 DEF SpawnWorker, OrderInv, RunnerInv
  <2>1. /\ worker[n] = "idle" /\ worker'[n] \in {"visiting", "visited"}
        /\ \A s \in Services : s # n => worker'[s] = worker[s]
        /\ UNCHANGED <<graph, failed, parentDone, result>>
    BY <1>0, <1>1, <2>0 DEF SpawnWorker, OrderInv, SeenInv, TypeOK, evars
  <2>2. \A t \in Awaited(n) : t \in Services /\ Phase(t) = "ok"
    BY <1>0, <1>1, <2>0, Neighbours DEF SpawnWorker, OrderInv, RunnerInv, Succeeded, Phase
  <2>3. Phase(n) = "waiting" /\ Phase(n)' = "active" /\ \A s \in Services : s # n => Phase(s)' = Phase(s)
    BY <2>1 DEF Phase
  <2>4. result = "none"
    BY <1>1 DEF SpawnWorker, WalkInv, ReturnInv, Runners
  <2>5. Abstract!Begin(n)
    BY <1>a, <2>1, <2>2, <2>3, <2>4 DEF Abstract!Begin
  <2> QED
    BY <2>1, <2>5 DEF Abstract!Next
<1>2. ASSUME NEW s \in Services, UpdateStatus(s) PROVE Abstract!Next
  <2>1. /\ worker[s] = "visited" /\ worker'[s] = "sending"
        /\ \A t \in Services : t # s => worker'[t] = worker[t]
        /\ UNCHANGED <<graph, failed, parentDone, result>>
    BY <1>0, <1>2 DEF UpdateStatus, TypeOK, evars
  <2>2. Phase(s) = "active" /\ Phase(s)' \in {"ok", "failed"} /\ \A t \in Services : t # s => Phase(t)' = Phase(t)
    BY <2>1 DEF Phase
  <2>3. Abstract!Finish(s)
    BY <1>a, <2>1, <2>2 DEF Abstract!Finish
  <2> QED
    BY <2>3 DEF Abstract!Next
<1>3. CASE ParentCancelled
  <2>1. UNCHANGED <<graph, worker, failed, result>> /\ ~parentDone /\ parentDone' = TRUE
    BY <1>3 DEF ParentCancelled, wvars
  <2>2. \A s \in Services : Phase(s)' = Phase(s)
    BY <2>1 DEF Phase
  <2> QED
    BY <1>a, <2>1, <2>2 DEF Abstract!Next, Abstract!Cancel
<1>4. CASE VisitReturns
  <2>1. /\ UNCHANGED <<graph, worker, failed, parentDone>> /\ loop["main"].pc = "wait"
        /\ \A s \in Services : worker[s] \in {"idle", "done"}
        /\ result' \in {"nil", "err"}
    BY <1>4 DEF VisitReturns, AllReturned, Working, wvars
  <2>2. \A s \in Services : Phase(s)' = Phase(s) /\ Phase(s) # "active"
    BY <2>1 DEF Phase
  <2>3. result = "none"
    BY <2>1 DEF WalkInv, ReturnInv
  <2>4. \A s \in Services : Phase(s) = "failed" <=> s \in failed
    BY <1>0, <2>1 DEF Phase, OrderInv, FailedInv
  <2>5. ResultIsFaithful' /\ failed \subseteq Services
    BY <1>0, WalkStep DEF WalkInv, TypeOK
  <2>6. CASE result' = "err"
    <3>1. \E s \in Services : Phase(s) = "failed"
      BY <2>1, <2>4, <2>5, <2>6 DEF ResultIsFaithful
    <3> QED
      BY <1>a, <2>1, <2>2, <2>3, <2>6, <3>1 DEF Abstract!Next, Abstract!Return
  <2>7. CASE result' = "nil"
    <3>1. \A s \in Services : Phase(s) # "failed"
      BY <2>1, <2>4, <2>5, <2>7 DEF ResultIsFaithful
    <3>2. parentDone \/ \A s \in Services : Phase(s) = "ok"
      <4>1. ~parentDone => \A s \in Services : Succeeded(s)'
        BY <2>1, <2>5, <2>7 DEF ResultIsFaithful
      <4>2. \A s \in Services : Succeeded(s)' => Phase(s) = "ok"
        BY <2>1 DEF Succeeded, Phase
      <4> QED
        BY <4>1, <4>2
    <3> QED
      BY <1>a, <2>1, <2>2, <2>3, <2>7, <3>1, <3>2 DEF Abstract!Next, Abstract!Return
  <2> QED
    BY <2>1, <2>6, <2>7
<1>5. ASSUME UNCHANGED <<graph, worker, failed, parentDone, result>> PROVE UNCHANGED Abstract!vars
  BY <1>0, <1>5, AbstractStutter DEF Phase
<1>6. ASSUME NEW r \in Runners, Runner(r), ~SpawnWorker(r) PROVE UNCHANGED Abstract!vars
  BY <1>5, <1>6 DEF Runner, CheckNode, ConsumeNode, RunReturns, wvars, evars
<1>7. ASSUME NEW s \in Services, VisitorReturns(s) \/ SendNode(s) \/ WorkerReturns(s) PROVE UNCHANGED Abstract!vars
  <2>1. /\ UNCHANGED <<graph, parentDone, result>>
        /\ \A t \in Services : t # s => worker'[t] = worker[t] /\ (t \in failed' <=> t \in failed)
    BY <1>0, <1>7 DEF VisitorReturns, SendNode, WorkerReturns, TypeOK, evars
  <2>2. \A t \in Services : t # s => Phase(t)' = Phase(t)
    BY <2>1 DEF Phase
  <2>3. Phase(s)' = Phase(s)
    BY <1>0, <1>7 DEF VisitorReturns, SendNode, WorkerReturns, TypeOK, Phase
  <2> QED
    BY <1>0, <2>1, <2>2, <2>3, AbstractStutter
<1>8. CASE FindExtremities \/ ReaderCancelled \/ ReaderReceives \/ UNCHANGED vars
  BY <1>5, <1>8 DEF FindExtremities, ReaderCancelled, ReaderReceives, vars, wvars, evars
<1> QED
  BY <1>1, <1>2, <1>3, <1>4, <1>6, <1>7, <1>8 DEF Next, Main, Reader, Worker, Runners, Terminated

(* The goroutines, the channel and the errgroup keep the promise of        *)
(* InDependencyOrder and InReverseDependencyOrder: a service only after    *)
(* all it waits for, and a result that tells what happened.                *)
THEOREM WalkImplementsOrder == Spec => RefinesDependencyOrder
BY StartsAbstract, WalkInvariant, AbstractStep, PTL DEF Spec, RefinesDependencyOrder, Abstract!Spec
=============================================================================
