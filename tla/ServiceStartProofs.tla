------------------------ MODULE ServiceStartProofs ------------------------
(***************************************************************************)
(* No container is started before what its service depends on has been in  *)
(* its condition, and a nil of start --wait without a timeout means that   *)
(* every service has: for any project, any number of replicas and whatever *)
(* the containers do meanwhile.                                            *)
(*                                                                         *)
(* ConditionBeforeStart says nothing of the moments between: a poll knows  *)
(* what it has seen of the containers before the one it is at (PollInv),   *)
(* the end of a wait relies on its polls (WaitInv), and a service that     *)
(* starts on the end of its wait (GuardInv).  A container that is found    *)
(* exited is worth something only because the service it belongs to was    *)
(* started first (OrderInv, RanInv): it has run since.                     *)
(*                                                                         *)
(* WaitNoticesExits is about containers that were dead before the wait for *)
(* all began: they stay so, for every service was started by then          *)
(* (DeadInv), and no poll gets past one that it looks at (NoticeInv).      *)
(***************************************************************************)
EXTENDS ServiceStart, TLAPS

(* What the engine says now has been so since start was called.            *)
EngineInv ==
  \A s \in Services, i \in Numbers :
    /\ <<s, i>> \in listedRunning => "running" \in reached[s][i]
    /\ status[s][i] \in Running => "running" \in reached[s][i]
    /\ status[s][i] = "healthy" => "healthy" \in reached[s][i]
    /\ status[s][i] = "exited 0" /\ "running" \in reached[s][i] => "completed" \in reached[s][i]

HasRun(s) == \A i \in 1..replicas[s] : "running" \in reached[s][i]

(* The containers startService is done with have run.                      *)
RanInv ==
  \A s \in Services :
    /\ \A i \in 1..replicas[s] : i < next[s] => "running" \in reached[s][i]
    /\ pc[s] = "ok" => HasRun(s)

(* A service is begun after those it depends on.                           *)
OrderInv ==
  /\ \A s \in Services : phase[s] = "ok" => pc[s] = "ok"
  /\ \A s \in Services : pc[s] # "idle" => \A d \in DependsOn(s) : phase[d] = "ok"
  /\ walked = "nil" => cancelled \/ \A s \in Services : phase[s] = "ok"

Begun(w) == IF w = Project THEN walked = "nil" ELSE pc[w] # "idle"

Undisturbed(w) == ~cancelled /\ w \notin expired

PollInv ==
  \A w \in Waiters, d \in Services :
    /\ poll[w][d].pc # "off" => d \in Waited(w) /\ replicas[d] > 0 /\ Begun(w)
    /\ poll[w][d].pc = "inspect" =>
         /\ poll[w][d].at <= replicas[d]
         /\ Condition(w, d) # "completed" =>
              \A i \in 1..replicas[d] : i < poll[w][d].at => "healthy" \in reached[d][i]
    /\ poll[w][d].pc = "nil" /\ Undisturbed(w) /\ Required(w, d) /\ ~Refused(w) =>
         ConditionMet(d, Condition(w, d))

WaitInv ==
  /\ \A s \in Services : pc[s] = "wait" =>
       \A d \in Waited(s) : Required(s, d) => poll[s][d].pc # "off"
  /\ walked = "nil" /\ Wait /\ ~MissesRequired(Project) =>
       \A d \in Waited(Project) : poll[Project][d].pc # "off"

AllMet(w) == \A d \in Waited(w) : Required(w, d) => ConditionMet(d, Condition(w, d))

GuardInv == \A s \in Services : pc[s] = "start" /\ Undisturbed(s) => AllMet(s)

KeptInv == result = "nil" /\ Wait /\ Undisturbed(Project) => AllMet(Project)

StartInv ==
  /\ ConfigInit /\ TypeOK
  /\ EngineInv /\ RanInv /\ OrderInv /\ PollInv /\ WaitInv /\ GuardInv /\ KeptInv
  /\ ConditionBeforeStart

----------------------------------------------------------------------------
(* What stays.                                                             *)

Grown     == \A s \in Services, i \in Numbers : reached[s][i] \subseteq reached'[s][i]
NoCalmer  == (~cancelled' => ~cancelled) /\ expired \subseteq expired'

LEMMA ConfigKept ==
  ASSUME UNCHANGED config
  PROVE  /\ UNCHANGED <<condition, required, healthcheck, replicas, scaledToZero, listedRunning>>
         /\ ConfigInit => ConfigInit'
         /\ \A w : Waited(w)' = Waited(w)
         /\ \A w : MissesRequired(w)' = MissesRequired(w)
         /\ \A w, d : Condition(w, d)' = Condition(w, d)
         /\ \A w, d : Required(w, d)' = Required(w, d)
         /\ \A s : DependsOn(s)' = DependsOn(s)
<1>1. UNCHANGED <<condition, required, healthcheck, replicas, scaledToZero, listedRunning>>
  BY DEF config
<1>2. ConfigInit => ConfigInit'
  BY <1>1 DEF ConfigInit
<1>3. \A w, d : Condition(w, d)' = Condition(w, d) /\ Required(w, d)' = Required(w, d)
  BY <1>1 DEF Condition, WaitCondition, Required
<1>4. \A s : DependsOn(s)' = DependsOn(s)
  BY <1>1 DEF DependsOn
<1>5. \A w : Waited(w)' = Waited(w)
  BY <1>1, <1>3, <1>4 DEF Waited
<1>6. \A w : MissesRequired(w)' = MissesRequired(w)
  BY <1>1, <1>3, <1>5 DEF MissesRequired, Missing
<1> QED
  BY <1>1, <1>2, <1>3, <1>4, <1>5, <1>6

LEMMA ReplicaNumbers ==
  ASSUME ConfigInit, NEW d \in Services
  PROVE  replicas[d] \in Nat /\ 1..replicas[d] \subseteq Numbers
BY ReplicasAssumption DEF ConfigInit, Numbers

LEMMA MetKept ==
  ASSUME ConfigInit, UNCHANGED config, Grown, NEW d \in Services, NEW c, ConditionMet(d, c)
  PROVE  ConditionMet(d, c)'
<1>1. \A i \in 1..replicas[d] : HasBeen(d, i, c) => HasBeen(d, i, c)'
  BY ReplicaNumbers, ConfigKept DEF Grown, HasBeen
<1> QED
  BY <1>1, ConfigKept DEF ConditionMet

LEMMA AllMetKept ==
  ASSUME ConfigInit, UNCHANGED config, Grown, NEW w, AllMet(w)
  PROVE  AllMet(w)'
BY MetKept, ConfigKept DEF AllMet, Waited

LEMMA RanKept ==
  ASSUME StartInv, UNCHANGED config, Grown, UNCHANGED <<pc, next>>
  PROVE  RanInv'
BY ReplicaNumbers, ConfigKept DEF StartInv, RanInv, HasRun, Grown

LEMMA OrderKept ==
  ASSUME StartInv, UNCHANGED config, UNCHANGED <<phase, pc, walked>>, NoCalmer
  PROVE  OrderInv'
BY ConfigKept DEF StartInv, OrderInv, NoCalmer

LEMMA PollKept ==
  ASSUME StartInv, UNCHANGED config, UNCHANGED poll, Grown, NoCalmer,
         \A w \in Waiters : Begun(w) => Begun(w)'
  PROVE  PollInv'
<1> SUFFICES ASSUME NEW w \in Waiters, NEW d \in Services
             PROVE  /\ poll[w][d].pc # "off" => d \in Waited(w) /\ replicas[d] > 0 /\ Begun(w)'
                    /\ poll[w][d].pc = "inspect" =>
                         /\ poll[w][d].at <= replicas[d]
                         /\ Condition(w, d) # "completed" =>
                              \A i \in 1..replicas[d] : i < poll[w][d].at => "healthy" \in reached'[d][i]
                    /\ poll[w][d].pc = "nil" /\ Undisturbed(w)' /\ Required(w, d) /\ ~Refused(w) =>
                         ConditionMet(d, Condition(w, d))'
  BY ConfigKept DEF PollInv, Refused
<1>1. Undisturbed(w)' => Undisturbed(w)
  BY DEF NoCalmer, Undisturbed
<1>2. ConditionMet(d, Condition(w, d)) => ConditionMet(d, Condition(w, d))'
  BY MetKept, ConfigKept DEF StartInv
<1> QED
  BY <1>1, <1>2, ReplicaNumbers DEF StartInv, PollInv, Grown

LEMMA WaitKept ==
  ASSUME StartInv, UNCHANGED config, UNCHANGED poll,
         \A s \in Services : pc'[s] = "wait" => pc[s] = "wait", walked' = "nil" => walked = "nil"
  PROVE  WaitInv'
BY ConfigKept DEF StartInv, WaitInv

LEMMA GuardKept ==
  ASSUME StartInv, UNCHANGED config, Grown, NoCalmer,
         \A s \in Services : pc'[s] = "start" => pc[s] = "start"
  PROVE  GuardInv'
BY AllMetKept DEF StartInv, GuardInv, NoCalmer, Undisturbed

LEMMA ResultKept ==
  ASSUME StartInv, UNCHANGED config, Grown, NoCalmer, UNCHANGED result
  PROVE  KeptInv'
BY AllMetKept DEF StartInv, KeptInv, NoCalmer, Undisturbed

LEMMA StartedKept ==
  ASSUME StartInv, UNCHANGED config, Grown, NoCalmer, UNCHANGED started
  PROVE  ConditionBeforeStart'
<1> SUFFICES ASSUME NEW e \in started, e[1] \notin expired,
                    NEW d \in Waited(e[1]), Required(e[1], d)
             PROVE  ConditionMet(d, condition[e[1]][d])'
  BY ConfigKept DEF ConditionBeforeStart, NoCalmer
<1>1. d \in Services
  BY DEF Waited
<1>2. ConditionMet(d, condition[e[1]][d])
  BY DEF StartInv, ConditionBeforeStart
<1> QED
  BY <1>1, <1>2, MetKept, ConfigKept DEF StartInv

(* The engine moves, time passes or the caller gives up.                   *)
LEMMA OutsideKept ==
  ASSUME StartInv, UNCHANGED config, UNCHANGED <<phase, walked, pc, next, poll, started, result>>,
         Grown, NoCalmer, TypeOK', EngineInv'
  PROVE  StartInv'
<1>1. \A w \in Waiters : Begun(w) => Begun(w)'
  BY DEF Begun
<1>2. ConfigInit'
  BY ConfigKept DEF StartInv
<1> QED
  BY <1>1, <1>2, RanKept, OrderKept, PollKept, WaitKept, GuardKept, ResultKept, StartedKept DEF StartInv

LEMMA EngineKept ==
  ASSUME StartInv, UNCHANGED config, UNCHANGED engine
  PROVE  EngineInv' /\ Grown
BY ConfigKept DEF StartInv, EngineInv, engine, Grown

----------------------------------------------------------------------------
(* The engine.                                                             *)

LEMMA BecomesStep ==
  ASSUME StartInv, UNCHANGED config,
         NEW s \in Services, NEW i \in Numbers, NEW st \in Statuses, Becomes(s, i, st)
  PROVE  /\ status' \in [Services -> [Numbers -> Statuses]]
         /\ reached' \in [Services -> [Numbers -> SUBSET {"running", "healthy", "completed"}]]
         /\ Grown /\ EngineInv'
         /\ st \in Running => "running" \in reached'[s][i]
<1> DEFINE new == Been(st) \cup (IF st = "exited 0" THEN {"completed"} ELSE {})
<1>1. /\ status \in [Services -> [Numbers -> Statuses]]
      /\ reached \in [Services -> [Numbers -> SUBSET {"running", "healthy", "completed"}]]
  BY DEF StartInv, TypeOK
<1>2. /\ new \subseteq {"running", "healthy", "completed"}
      /\ st \in Running => "running" \in new
      /\ st = "healthy" => "healthy" \in new
      /\ st = "exited 0" => "completed" \in new
      /\ "running" \in new => st \in Running
  BY DEF Been, Running
<1>3. /\ status' = [status EXCEPT ![s] = [status[s] EXCEPT ![i] = st]]
      /\ reached' = [reached EXCEPT ![s] = [reached[s] EXCEPT ![i] = reached[s][i] \cup new]]
  BY <1>1 DEF Becomes
<1> HIDE DEF new
<1>4. /\ status' \in [Services -> [Numbers -> Statuses]]
      /\ reached' \in [Services -> [Numbers -> SUBSET {"running", "healthy", "completed"}]]
  BY <1>1, <1>2, <1>3
<1>5. /\ status'[s][i] = st /\ reached'[s][i] = reached[s][i] \cup new
      /\ \A t \in Services, j \in Numbers : t # s \/ j # i =>
            status'[t][j] = status[t][j] /\ reached'[t][j] = reached[t][j]
  BY <1>1, <1>3
<1>6. Grown
  BY <1>5 DEF Grown
<1>7. EngineInv'
  <2> SUFFICES ASSUME NEW t \in Services, NEW j \in Numbers
               PROVE  /\ <<t, j>> \in listedRunning => "running" \in reached'[t][j]
                      /\ status'[t][j] \in Running => "running" \in reached'[t][j]
                      /\ status'[t][j] = "healthy" => "healthy" \in reached'[t][j]
                      /\ status'[t][j] = "exited 0" /\ "running" \in reached'[t][j] =>
                           "completed" \in reached'[t][j]
    BY ConfigKept DEF EngineInv
  <2>1. CASE t = s /\ j = i
    BY <1>2, <1>5, <2>1 DEF StartInv, EngineInv
  <2>2. CASE t # s \/ j # i
    BY <1>5, <2>2 DEF StartInv, EngineInv
  <2> QED
    BY <2>1, <2>2
<1> QED
  BY <1>2, <1>4, <1>5, <1>6, <1>7

LEMMA EngineStep ==
  ASSUME StartInv, NEW s \in Services, NEW i \in Numbers, Engine(s, i)
  PROVE  StartInv'
<1>1. PICK st \in Statuses : Becomes(s, i, st)
  BY DEF Engine, HealthReported, ContainerExits, ContainerRemoved, Statuses, Running, Exited
<1>2. UNCHANGED <<config, phase, cancelled, walked, pc, next, started, deadAtWait, poll, expired, result>>
  BY DEF Engine, HealthReported, ContainerExits, ContainerRemoved, walk
<1>3. TypeOK'
  BY <1>1, <1>2, BecomesStep DEF StartInv, TypeOK, Walk!Phases
<1>4. NoCalmer
  BY <1>2 DEF NoCalmer
<1> QED
  BY <1>1, <1>2, <1>3, <1>4, BecomesStep, OutsideKept

(* Time passes, the caller gives up, or nothing happens.                   *)
LEMMA CalmStep ==
  ASSUME StartInv, Cancelled \/ (\E w \in Waiters : TimeoutPasses(w)) \/ UNCHANGED vars
  PROVE  StartInv'
<1>1. UNCHANGED config /\ UNCHANGED engine /\ UNCHANGED <<phase, walked, pc, next, started, deadAtWait, poll, result>>
  BY DEF Cancelled, Walk!Cancel, TimeoutPasses, vars, walk
<1>2. NoCalmer /\ expired' \subseteq Waiters
  <2>1. CASE Cancelled
    BY <2>1 DEF Cancelled, Walk!Cancel, NoCalmer, StartInv, TypeOK
  <2>2. CASE \E w \in Waiters : TimeoutPasses(w)
    BY <2>2 DEF TimeoutPasses, NoCalmer, StartInv, TypeOK, walk
  <2>3. CASE UNCHANGED vars
    BY <2>3 DEF vars, NoCalmer, StartInv, TypeOK, walk
  <2> QED
    BY <2>1, <2>2, <2>3
<1>3. TypeOK'
  BY <1>1, <1>2 DEF StartInv, TypeOK, engine, Walk!Phases
<1> QED
  BY <1>1, <1>2, <1>3, EngineKept, OutsideKept

(* start returns.                                                          *)
LEMMA ReturnStep ==
  ASSUME StartInv, StartReturns
  PROVE  StartInv'
<1>1. UNCHANGED config /\ UNCHANGED engine /\ UNCHANGED <<phase, cancelled, walked, pc, next, started, deadAtWait, poll, expired>>
  BY DEF StartReturns, walk
<1>2. NoCalmer /\ Grown /\ EngineInv'
  BY <1>1, EngineKept DEF NoCalmer
<1>3. TypeOK'
  <2>1. result' \in {"none", "nil", "err"}
    BY DEF StartReturns, StartOutcome, StartInv, TypeOK
  <2> QED
    BY <1>1, <2>1 DEF StartInv, TypeOK, engine, Walk!Phases
<1>4. KeptInv'
  <2> SUFFICES ASSUME result' = "nil", Wait, Undisturbed(Project) PROVE AllMet(Project)
    BY <1>1, <1>2, AllMetKept DEF KeptInv, Undisturbed, StartInv
  <2>1. walked = "nil" /\ ~MissesRequired(Project) /\ ~Refused(Project) /\ Polled(Project)
    BY DEF StartReturns, StartOutcome
  <2>2. Project \in Waiters
    BY DEF Waiters
  <2>3. \A d \in Services : poll[Project][d].pc \in PollPCs
    BY <2>2 DEF StartInv, TypeOK
  <2>4. \A d \in Waited(Project) : d \in Services /\ poll[Project][d].pc = "nil"
    BY <2>1, <2>3 DEF StartInv, WaitInv, Polled, Refused, Waited, PollPCs
  <2> QED
    BY <2>1, <2>2, <2>4 DEF StartInv, PollInv, AllMet
<1>5. \A w \in Waiters : Begun(w) => Begun(w)'
  BY <1>1 DEF Begun
<1> QED
  BY <1>1, <1>2, <1>3, <1>4, <1>5, ConfigKept, RanKept, OrderKept, PollKept, WaitKept, GuardKept, StartedKept DEF StartInv

----------------------------------------------------------------------------
(* The polls.                                                              *)

(* What there is to know of an answer of isServiceHealthy and              *)
(* isServiceCompleted.                                                     *)
LEMMA Answers ==
  ASSUME StartInv, NEW w \in Waiters, NEW d \in Services, poll[w][d].pc = "inspect", ~cancelled,
         NEW at, at = poll[w][d].at, NEW st, st = status[d][at], st # "gone",
         NEW c, c = Condition(w, d), NEW v, v = Verdict(c, d, st)
  PROVE  /\ d \in Waited(w) /\ at \in Numbers /\ at <= replicas[d]
         /\ c # "completed" /\ v = "next" => "healthy" \in reached[d][at] /\ (c = "healthy" \/ d \in healthcheck)
         /\ v = "true" => ConditionMet(d, c)
         /\ v \in {"next", "true", "false", "error"}
<1>1. /\ at \in Numbers /\ at <= replicas[d] /\ at \in 1..replicas[d] /\ st \in Statuses
      /\ d \in Waited(w) /\ Begun(w)
  <2>1. poll[w][d] \in [pc : PollPCs, at : Numbers]
    BY DEF StartInv, TypeOK
  <2>2. at \in Numbers /\ at \in Nat /\ at >= 1
    BY <2>1, ReplicasAssumption DEF Numbers
  <2>3. at <= replicas[d] /\ d \in Waited(w) /\ Begun(w)
    BY DEF StartInv, PollInv
  <2>4. at \in 1..replicas[d]
    BY <2>2, <2>3, ReplicaNumbers DEF StartInv
  <2>5. st \in Statuses
    BY <2>2 DEF StartInv, TypeOK
  <2> QED
    BY <2>2, <2>3, <2>4, <2>5
<1>2. v \in {"next", "true", "false", "error"}
  BY <1>1 DEF Verdict, Exited
<1>3. /\ st \in Running => "running" \in reached[d][at]
      /\ st = "healthy" => "healthy" \in reached[d][at]
      /\ st = "exited 0" /\ "running" \in reached[d][at] => "completed" \in reached[d][at]
  BY <1>1 DEF StartInv, EngineInv
<1>4. HasRun(d)
  <2>1. phase[d] = "ok"
    <3>1. CASE w = Project
      BY <1>1, <3>1 DEF StartInv, OrderInv, Begun
    <3>2. CASE w # Project
      BY <1>1, <3>2 DEF StartInv, OrderInv, Begun, Waiters, Waited
    <3> QED
      BY <3>1, <3>2
  <2> QED
    BY <2>1 DEF StartInv, OrderInv, RanInv
<1>5. ASSUME c # "completed", v = "next"
      PROVE  "healthy" \in reached[d][at] /\ (c = "healthy" \/ d \in healthcheck)
  <2>1. c \in {"healthy", "running or healthy"}
    <3>1. CASE w = Project
      BY <1>5, <3>1 DEF Condition, WaitCondition
    <3>2. CASE w # Project
      <4>1. w \in Services /\ c = condition[w][d] /\ c # "none" /\ c # "started"
        BY <1>1, <3>2 DEF Condition, Waited, Waiters, DependsOn
      <4>2. c \in {"started", "healthy", "completed", "none"}
        BY <4>1 DEF StartInv, ConfigInit, Conditions
      <4> QED
        BY <1>5, <4>1, <4>2
    <3> QED
      BY <3>1, <3>2
  <2>2. st = "healthy"
    BY <1>5, <2>1 DEF Verdict, Exited
  <2>3. c = "healthy" \/ d \in healthcheck
    BY <1>5, <2>1, <2>2 DEF Verdict, Exited
  <2> QED
    BY <1>3, <2>2, <2>3
<1>6. ASSUME v = "true" PROVE ConditionMet(d, c)
  <2>1. CASE c = "completed"
    <3>1. st = "exited 0"
      BY <1>6, <2>1 DEF Verdict, Exited
    <3>2. "completed" \in reached[d][at]
      BY <1>1, <1>3, <1>4, <3>1 DEF HasRun
    <3> QED
      BY <1>1, <2>1, <3>2 DEF ConditionMet, HasBeen
  <2>2. CASE c # "completed"
    <3>1. c = "running or healthy" /\ d \notin healthcheck
      BY <1>6, <2>2 DEF Verdict, Exited
    <3> QED
      BY <1>4, <3>1 DEF ConditionMet, HasBeen, HasRun
  <2> QED
    BY <2>1, <2>2
<1> QED
  BY <1>1, <1>2, <1>5, <1>6

(* A poll that has only looked on proves nothing new.                      *)
LEMMA PollStep ==
  ASSUME StartInv, NEW w \in Waiters, NEW d \in Services, Poller(w, d),
         NEW new \in [pc : PollPCs, at : Numbers], poll' = [poll EXCEPT ![w] = [poll[w] EXCEPT ![d] = new]],
         new.pc # "off",
         new.pc = "inspect" =>
           /\ new.at <= replicas[d]
           /\ Condition(w, d) # "completed" =>
                \A i \in 1..replicas[d] : i < new.at => "healthy" \in reached[d][i],
         new.pc = "nil" /\ Undisturbed(w) /\ Required(w, d) /\ ~Refused(w) => ConditionMet(d, Condition(w, d))
  PROVE  StartInv'
<1>1. /\ UNCHANGED config /\ UNCHANGED engine
      /\ UNCHANGED <<phase, cancelled, walked, pc, next, started, deadAtWait, expired, result>>
  BY DEF Poller, GiveUp, Tick, Inspect, walk
<1>2. poll[w][d].pc \in {"tick", "inspect"}
  BY DEF Poller, GiveUp, Tick, Inspect
<1>3. NoCalmer /\ Grown /\ EngineInv'
  BY <1>1, EngineKept DEF NoCalmer
<1>4. poll \in [Waiters -> [Services -> [pc : PollPCs, at : Numbers]]]
  BY DEF StartInv, TypeOK
<1>5. /\ poll' \in [Waiters -> [Services -> [pc : PollPCs, at : Numbers]]]
      /\ poll'[w][d] = new
      /\ \A x \in Waiters, e \in Services : x # w \/ e # d => poll'[x][e] = poll[x][e]
  BY <1>4
<1>6. TypeOK'
  BY <1>1, <1>5 DEF StartInv, TypeOK, engine, Walk!Phases
<1>7. PollInv'
  <2> SUFFICES ASSUME NEW x \in Waiters, NEW e \in Services
               PROVE  /\ poll'[x][e].pc # "off" => e \in Waited(x) /\ replicas[e] > 0 /\ Begun(x)
                      /\ poll'[x][e].pc = "inspect" =>
                           /\ poll'[x][e].at <= replicas[e]
                           /\ Condition(x, e) # "completed" =>
                                \A i \in 1..replicas[e] : i < poll'[x][e].at => "healthy" \in reached[e][i]
                      /\ poll'[x][e].pc = "nil" /\ Undisturbed(x) /\ Required(x, e) /\ ~Refused(x)' =>
                           ConditionMet(e, Condition(x, e))
    BY <1>1, ConfigKept DEF PollInv, Begun, Undisturbed, ConditionMet, HasBeen, engine
  <2>1. Refused(x) => Refused(x)'
    BY <1>2, <1>5 DEF Refused
  <2>2. CASE x = w /\ e = d
    BY <1>2, <1>5, <2>1, <2>2 DEF StartInv, PollInv
  <2>3. CASE x # w \/ e # d
    BY <1>5, <2>1, <2>3 DEF StartInv, PollInv
  <2> QED
    BY <2>2, <2>3
<1>8. WaitInv'
  <2>1. \A x \in Waiters, e \in Services : poll[x][e].pc # "off" => poll'[x][e].pc # "off"
    BY <1>5
  <2> QED
    BY <1>1, <2>1, ConfigKept DEF StartInv, WaitInv, Waited, Waiters
<1> QED
  BY <1>1, <1>3, <1>6, <1>7, <1>8, ConfigKept, RanKept, OrderKept, GuardKept, ResultKept, StartedKept DEF StartInv

LEMMA PollerStep ==
  ASSUME StartInv, NEW w \in Waiters, NEW d \in Services, Poller(w, d)
  PROVE  StartInv'
<1>0. /\ poll \in [Waiters -> [Services -> [pc : PollPCs, at : Numbers]]]
      /\ 1 \in Numbers
  BY ReplicasAssumption DEF StartInv, TypeOK, Numbers
<1>1. CASE GiveUp(w, d)
  <2> DEFINE new == [poll[w][d] EXCEPT !.pc = "nil"]
  <2>1. poll[w][d].pc = "tick" /\ Done(w)
    BY <1>1 DEF GiveUp
  <2>2. new \in [pc : PollPCs, at : Numbers] /\ new.pc = "nil"
    BY <1>0 DEF PollPCs
  <2>3. poll' = [poll EXCEPT ![w] = [poll[w] EXCEPT ![d] = new]]
    BY <1>0, <1>1 DEF GiveUp
  <2>4. Undisturbed(w) => Refused(w)
    BY <2>1 DEF Done, Undisturbed, Refused
  <2> HIDE DEF new
  <2> QED
    BY <2>2, <2>3, <2>4, PollStep
<1>2. CASE Tick(w, d)
  <2> DEFINE new == [pc |-> "inspect", at |-> 1]
  <2>1. new \in [pc : PollPCs, at : Numbers] /\ new.pc = "inspect" /\ new.at = 1
    BY <1>0 DEF PollPCs
  <2>2. poll' = [poll EXCEPT ![w] = [poll[w] EXCEPT ![d] = new]]
    BY <1>0, <1>2 DEF Tick
  <2>3. replicas[d] >= 1
    BY <1>2, ReplicaNumbers DEF Tick, StartInv, PollInv
  <2>4. \A i \in 1..replicas[d] : ~(i < 1)
    BY ReplicaNumbers DEF StartInv
  <2> HIDE DEF new
  <2> QED
    BY <2>1, <2>2, <2>3, <2>4, PollStep
<1>3. CASE Inspect(w, d)
  <2> DEFINE at == poll[w][d].at
             c  == Condition(w, d)
             st == status[d][at]
             v  == Verdict(c, d, st)
             answer == IF v = "next" /\ at = replicas[d] THEN AtEnd(c) ELSE v
  <2>0. poll[w][d].pc = "inspect"
    BY <1>3 DEF Inspect
  <2>1. CASE Done(w) \/ st = "gone"
    <3> DEFINE new == [pc |-> AfterError(w, d, TRUE), at |-> 1]
    <3>1. new \in [pc : PollPCs, at : Numbers] /\ new.pc \in {"err", "nil"}
          /\ (new.pc = "nil" => ~Required(w, d))
      BY <1>0 DEF PollPCs, AfterError
    <3>2. poll' = [poll EXCEPT ![w] = [poll[w] EXCEPT ![d] = new]]
      BY <1>0, <1>3, <2>1 DEF Inspect
    <3> HIDE DEF new
    <3> QED
      BY <3>1, <3>2, PollStep
  <2>2. CASE ~Done(w) /\ st # "gone"
    <3>1. /\ at \in Numbers /\ at <= replicas[d]
          /\ c # "completed" /\ v = "next" => "healthy" \in reached[d][at] /\ (c = "healthy" \/ d \in healthcheck)
          /\ v = "true" => ConditionMet(d, c)
          /\ v \in {"next", "true", "false", "error"}
      BY <2>0, <2>2, Answers DEF Done
    <3>2. c # "completed" => \A i \in 1..replicas[d] : i < at => "healthy" \in reached[d][i]
      BY <2>0 DEF StartInv, PollInv
    <3>3. /\ poll[w][d].pc = "inspect"
          /\ poll' = [poll EXCEPT ![w][d] =
               CASE answer = "next"  -> [pc |-> "inspect", at |-> at + 1]
                 [] answer = "false" -> [pc |-> "tick", at |-> 1]
                 [] answer = "true"  -> [pc |-> "nil", at |-> 1]
                 [] answer = "error" -> [pc |-> AfterError(w, d, FALSE), at |-> 1]]
      BY <1>3, <2>2 DEF Inspect
    <3>4. replicas[d] \in Nat /\ replicas[d] <= MaxReplicas /\ at \in Nat /\ 1 <= at
      BY <3>1, ReplicasAssumption DEF StartInv, ConfigInit, Numbers
    <3>5. CASE answer = "next"
      <4> DEFINE new == [pc |-> "inspect", at |-> at + 1]
      <4>1. v = "next" /\ at < replicas[d]
        BY <3>1, <3>4, <3>5 DEF AtEnd
      <4>2. new \in [pc : PollPCs, at : Numbers] /\ new.pc = "inspect" /\ new.at <= replicas[d]
        BY <3>4, <4>1, ReplicasAssumption DEF PollPCs, Numbers
      <4>3. c # "completed" => \A i \in 1..replicas[d] : i < new.at => "healthy" \in reached[d][i]
        <5>1. \A i \in 1..replicas[d] : i < at + 1 => i < at \/ i = at
          BY <3>4
        <5> QED
          BY <3>1, <3>2, <4>1, <5>1
      <4>4. poll' = [poll EXCEPT ![w] = [poll[w] EXCEPT ![d] = new]]
        BY <1>0, <3>3, <3>5
      <4> HIDE DEF new
      <4> QED
        BY <4>2, <4>3, <4>4, PollStep
    <3>6. CASE answer = "false"
      <4> DEFINE new == [pc |-> "tick", at |-> 1]
      <4>1. new \in [pc : PollPCs, at : Numbers] /\ new.pc = "tick"
        BY <1>0 DEF PollPCs
      <4>2. poll' = [poll EXCEPT ![w] = [poll[w] EXCEPT ![d] = new]]
        BY <1>0, <3>3, <3>6
      <4> HIDE DEF new
      <4> QED
        BY <4>1, <4>2, PollStep
    <3>7. CASE answer = "true"
      <4> DEFINE new == [pc |-> "nil", at |-> 1]
      <4>1. new \in [pc : PollPCs, at : Numbers] /\ new.pc = "nil"
        BY <1>0 DEF PollPCs
      <4>2. poll' = [poll EXCEPT ![w] = [poll[w] EXCEPT ![d] = new]]
        BY <1>0, <3>3, <3>7
      <4>3. ConditionMet(d, c)
        <5>1. CASE v = "true"
          BY <3>1, <5>1
        <5>2. CASE v # "true"
          <6>1. v = "next" /\ at = replicas[d] /\ c # "completed"
            BY <3>7, <5>2 DEF AtEnd
          <6>2. \A i \in 1..replicas[d] : "healthy" \in reached[d][i]
            BY <3>1, <3>2, <3>4, <6>1
          <6> QED
            BY <3>1, <6>1, <6>2 DEF ConditionMet, HasBeen
        <5> QED
          BY <5>1, <5>2
      <4> HIDE DEF new
      <4> QED
        BY <4>1, <4>2, <4>3, PollStep
    <3>8. CASE answer = "error"
      <4> DEFINE new == [pc |-> AfterError(w, d, FALSE), at |-> 1]
      <4>1. new \in [pc : PollPCs, at : Numbers] /\ new.pc \in {"err", "nil"}
            /\ (new.pc = "nil" => ~Required(w, d))
        BY <1>0 DEF PollPCs, AfterError
      <4>2. poll' = [poll EXCEPT ![w] = [poll[w] EXCEPT ![d] = new]]
        BY <1>0, <3>3, <3>8
      <4> HIDE DEF new
      <4> QED
        BY <4>1, <4>2, PollStep
    <3> QED
      BY <3>1, <3>5, <3>6, <3>7, <3>8 DEF AtEnd
  <2> QED
    BY <2>1, <2>2
<1> QED
  BY <1>1, <1>2, <1>3 DEF Poller

----------------------------------------------------------------------------
(* The polls of a waiter begin.                                            *)

LEMMA PollingStep ==
  ASSUME StartInv, UNCHANGED config, UNCHANGED engine, NoCalmer,
         NEW w \in Waiters, poll' = Polling(w), Begun(w)',
         \A x \in Waiters : Begun(x) => Begun(x)'
  PROVE  /\ poll' \in [Waiters -> [Services -> [pc : PollPCs, at : Numbers]]]
         /\ PollInv'
         /\ \A d \in Waited(w) : d \notin Missing(w) => poll'[w][d].pc # "off"
         /\ \A x \in Waiters \ {w} : poll'[x] = poll[x]
<1> DEFINE new == [d \in Services |-> IF d \in Waited(w) \ Missing(w) THEN [pc |-> "tick", at |-> 1] ELSE Off]
<1>0. /\ poll \in [Waiters -> [Services -> [pc : PollPCs, at : Numbers]]]
      /\ 1 \in Numbers
  BY ReplicasAssumption DEF StartInv, TypeOK, Numbers
<1>1. new \in [Services -> [pc : PollPCs, at : Numbers]]
  BY <1>0 DEF Off, PollPCs
<1>2. \A d \in Services : /\ new[d].pc \in {"tick", "off"}
                          /\ new[d].pc = "tick" <=> d \in Waited(w) \ Missing(w)
  BY DEF Off
<1>3. poll' = [poll EXCEPT ![w] = new]
  BY DEF Polling
<1> HIDE DEF new
<1>4. /\ poll' \in [Waiters -> [Services -> [pc : PollPCs, at : Numbers]]]
      /\ poll'[w] = new /\ \A x \in Waiters \ {w} : poll'[x] = poll[x]
  BY <1>0, <1>1, <1>3
<1>5. \A d \in Waited(w) : d \notin Missing(w) => d \in Services /\ poll'[w][d].pc # "off"
  BY <1>2, <1>4 DEF Waited
<1>6. PollInv'
  <2> SUFFICES ASSUME NEW x \in Waiters, NEW d \in Services
               PROVE  /\ poll'[x][d].pc # "off" => d \in Waited(x) /\ replicas[d] > 0 /\ Begun(x)'
                      /\ poll'[x][d].pc = "inspect" =>
                           /\ poll'[x][d].at <= replicas[d]
                           /\ Condition(x, d) # "completed" =>
                                \A i \in 1..replicas[d] : i < poll'[x][d].at => "healthy" \in reached[d][i]
                      /\ poll'[x][d].pc = "nil" /\ Undisturbed(x)' /\ Required(x, d) /\ ~Refused(x)' =>
                           ConditionMet(d, Condition(x, d))
    BY ConfigKept DEF PollInv, ConditionMet, HasBeen, engine
  <2>1. CASE x = w
    BY <1>2, <1>4, <2>1, ReplicaNumbers DEF Waited, Missing, StartInv
  <2>2. CASE x # w
    <3>1. poll'[x] = poll[x] /\ (Refused(x)' <=> Refused(x)) /\ (Undisturbed(x)' => Undisturbed(x))
      BY <1>4, <2>2 DEF Refused, Undisturbed, NoCalmer
    <3> QED
      BY <3>1 DEF StartInv, PollInv
  <2> QED
    BY <2>1, <2>2
<1> QED
  BY <1>4, <1>5, <1>6

(* The walk begins a service.                                              *)
LEMMA BeginStep ==
  ASSUME StartInv, NEW s \in Services, BeginService(s)
  PROVE  StartInv'
<1>1. /\ UNCHANGED config /\ UNCHANGED engine
      /\ UNCHANGED <<cancelled, walked, next, started, deadAtWait, expired, result>>
      /\ walked = "none" /\ phase[s] = "waiting" /\ phase' = [phase EXCEPT ![s] = "active"]
  BY DEF BeginService, Walk!Begin
<1>2. \A d \in DependsOn(s) : d \in Services /\ phase[d] = "ok"
  BY DEF BeginService, Walk!Begin, DependsOn
<1>3. PICK to \in {"ok", "failed", "wait"} : pc' = [pc EXCEPT ![s] = to]
                                            /\ (to = "ok" => s \in scaledToZero)
                                            /\ IF to = "wait" THEN poll' = Polling(s) /\ ~MissesRequired(s)
                                               ELSE poll' = poll
  <2>1. CASE s \in scaledToZero /\ pc' = [pc EXCEPT ![s] = "ok"] /\ UNCHANGED poll
    BY <2>1
  <2>2. CASE MissesRequired(s) /\ pc' = [pc EXCEPT ![s] = "failed"] /\ UNCHANGED poll
    BY <2>2
  <2>3. CASE /\ ~MissesRequired(s)
             /\ pc' = [pc EXCEPT ![s] = "wait"]
             /\ poll' = Polling(s)
    BY <2>3
  <2> QED
    BY <2>1, <2>2, <2>3 DEF BeginService
<1>4. /\ pc'[s] = to /\ \A t \in Services : t # s => pc'[t] = pc[t]
      /\ phase'[s] = "active" /\ \A t \in Services : t # s => phase'[t] = phase[t]
  BY <1>1, <1>3 DEF StartInv, TypeOK
<1>5. NoCalmer /\ Grown /\ EngineInv'
  BY <1>1, EngineKept DEF NoCalmer
<1>6. \A w \in Waiters : Begun(w) => Begun(w)'
  BY <1>1, <1>4 DEF Begun, Waiters
<1>7. s \in Waiters /\ s # Project
  BY ProjectAssumption DEF Waiters
<1>8. PollInv' /\ poll' \in [Waiters -> [Services -> [pc : PollPCs, at : Numbers]]]
  <2>1. CASE to = "wait"
    BY <1>1, <1>3, <1>4, <1>5, <1>6, <1>7, <2>1, PollingStep DEF Begun
  <2>2. CASE to # "wait"
    BY <1>1, <1>3, <1>5, <1>6, <2>2, PollKept DEF StartInv, TypeOK
  <2> QED
    BY <2>1, <2>2
<1>9. TypeOK'
  <2>1. pc' \in [Services -> {"idle", "wait", "start", "ok", "failed"}] /\ phase' \in [Services -> Walk!Phases]
    BY <1>1, <1>3 DEF StartInv, TypeOK, Walk!Phases
  <2> QED
    BY <1>1, <1>8, <2>1 DEF StartInv, TypeOK, engine
<1>10. RanInv'
  <2>1. to = "ok" => \A i : i \notin 1..replicas[s]
    BY <1>3 DEF StartInv, ConfigInit
  <2> QED
    BY <1>1, <1>4, <2>1, ConfigKept DEF StartInv, RanInv, HasRun, engine
<1>11. OrderInv'
  <2>1. \A t \in Services : phase'[t] = "ok" => phase[t] = "ok" /\ t # s
    BY <1>4
  <2>2. \A t \in Services : phase[t] = "ok" => phase'[t] = "ok"
    BY <1>1, <1>4
  <2>3. \A t \in Services : phase'[t] = "ok" => pc'[t] = "ok"
    BY <1>4, <2>1 DEF StartInv, OrderInv
  <2>4. \A t \in Services : pc'[t] # "idle" => \A d \in DependsOn(t) : phase'[d] = "ok"
    BY <1>2, <1>4, <2>2 DEF StartInv, OrderInv, DependsOn
  <2> QED
    BY <1>1, <2>3, <2>4, ConfigKept DEF OrderInv
<1>12. WaitInv'
  <2> SUFFICES ASSUME NEW t \in Services, pc'[t] = "wait", NEW d \in Waited(t), Required(t, d)
               PROVE  poll'[t][d].pc # "off"
    BY <1>1, ConfigKept DEF WaitInv
  <2>1. CASE t = s
    <3>1. to = "wait" /\ d \notin Missing(s)
      BY <1>3, <1>4, <2>1 DEF MissesRequired
    <3> QED
      BY <1>1, <1>3, <1>4, <1>5, <1>6, <1>7, <2>1, <3>1, PollingStep DEF Begun
  <2>2. CASE t # s
    <3>1. poll'[t] = poll[t]
      BY <1>3, <2>2 DEF Polling, StartInv, TypeOK, Waiters
    <3> QED
      BY <1>4, <2>2, <3>1 DEF StartInv, WaitInv
  <2> QED
    BY <2>1, <2>2
<1>13. GuardInv'
  BY <1>1, <1>4, <1>5, GuardKept
<1> QED
  BY <1>1, <1>5, <1>8, <1>9, <1>10, <1>11, <1>12, <1>13, ConfigKept, ResultKept, StartedKept DEF StartInv

(* The walk ends, and the project begins to wait.                          *)
LEMMA WalkStep ==
  ASSUME StartInv, WalkReturns
  PROVE  StartInv'
<1>1. /\ UNCHANGED config /\ UNCHANGED engine
      /\ UNCHANGED <<phase, cancelled, pc, next, started, expired, result>>
      /\ walked = "none" /\ walked' \in {"nil", "err"}
      /\ walked' = "nil" => cancelled \/ \A s \in Services : phase[s] = "ok"
  BY DEF WalkReturns, Walk!Return
<1>2. NoCalmer /\ Grown /\ EngineInv'
  BY <1>1, EngineKept DEF NoCalmer
<1>3. \A w \in Waiters : Begun(w) => Begun(w)'
  BY <1>1 DEF Begun
<1>4. Project \in Waiters /\ \A s \in Services : s \in Waiters \ {Project}
  BY ProjectAssumption DEF Waiters
<1>5. deadAtWait' \subseteq Services \X Numbers
  BY DEF WalkReturns
<1>6. /\ PollInv' /\ poll' \in [Waiters -> [Services -> [pc : PollPCs, at : Numbers]]]
      /\ WaitInv'
  <2>1. CASE walked' = "nil" /\ Wait /\ ~MissesRequired(Project)
    <3>1. poll' = Polling(Project) /\ Begun(Project)'
      BY <2>1 DEF WalkReturns, Begun
    <3>2. /\ PollInv' /\ poll' \in [Waiters -> [Services -> [pc : PollPCs, at : Numbers]]]
          /\ \A d \in Waited(Project) : d \notin Missing(Project) => poll'[Project][d].pc # "off"
          /\ \A x \in Waiters \ {Project} : poll'[x] = poll[x]
      BY <1>1, <1>2, <1>3, <1>4, <3>1, PollingStep
    <3>3. \A d \in Waited(Project) : d \notin Missing(Project)
      BY <2>1 DEF MissesRequired, Required
    <3>4. WaitInv'
      BY <1>1, <1>4, <3>2, <3>3, ConfigKept DEF StartInv, WaitInv
    <3> QED
      BY <3>2, <3>4
  <2>2. CASE ~(walked' = "nil" /\ Wait /\ ~MissesRequired(Project))
    <3>1. poll' = poll
      BY <2>2 DEF WalkReturns
    <3>2. PollInv'
      BY <1>1, <1>2, <1>3, <3>1, PollKept
    <3>3. WaitInv'
      BY <1>1, <2>2, <3>1, ConfigKept DEF StartInv, WaitInv
    <3> QED
      BY <3>1, <3>2, <3>3 DEF StartInv, TypeOK
  <2> QED
    BY <2>1, <2>2
<1>7. TypeOK'
  BY <1>1, <1>5, <1>6 DEF StartInv, TypeOK, engine, Walk!Phases
<1>8. OrderInv'
  BY <1>1, ConfigKept DEF StartInv, OrderInv
<1> QED
  BY <1>1, <1>2, <1>6, <1>7, <1>8, ConfigKept, RanKept, GuardKept, ResultKept, StartedKept DEF StartInv

----------------------------------------------------------------------------
(* startService.                                                           *)

(* A service moves on, without having run or waited anew.                  *)
LEMMA MoveStep ==
  ASSUME StartInv, NEW s \in Services,
         UNCHANGED config, UNCHANGED <<phase, cancelled, walked, deadAtWait, poll, expired, result>>,
         status' \in [Services -> [Numbers -> Statuses]],
         reached' \in [Services -> [Numbers -> SUBSET {"running", "healthy", "completed"}]],
         Grown, EngineInv',
         NEW to \in {"start", "ok", "failed"}, pc' = [pc EXCEPT ![s] = to], pc[s] \in {"wait", "start"},
         NEW n \in 1..MaxReplicas + 1, next' = [next EXCEPT ![s] = n],
         started' \subseteq Services \X Numbers,
         \A i \in 1..replicas[s] : i < n => "running" \in reached'[s][i],
         to = "ok" => n > replicas[s],
         to = "start" /\ Undisturbed(s) => AllMet(s),
         \A e \in started' : e \in started \/ (e[1] = s /\ (Undisturbed(s) \/ s \in expired) /\ pc[s] = "start")
  PROVE  StartInv'
<1>1. /\ pc'[s] = to /\ \A t \in Services : t # s => pc'[t] = pc[t]
      /\ next'[s] = n /\ \A t \in Services : t # s => next'[t] = next[t]
  BY DEF StartInv, TypeOK
<1>2. NoCalmer
  BY DEF NoCalmer
<1>3. TypeOK'
  <2>1. pc' \in [Services -> {"idle", "wait", "start", "ok", "failed"}]
    BY DEF StartInv, TypeOK
  <2>2. next' \in [Services -> 1..MaxReplicas + 1]
    BY DEF StartInv, TypeOK
  <2> QED
    BY <2>1, <2>2 DEF StartInv, TypeOK, Walk!Phases
<1>4. RanInv'
  <2> SUFFICES ASSUME NEW t \in Services
               PROVE  /\ \A i \in 1..replicas[t] : i < next'[t] => "running" \in reached'[t][i]
                      /\ pc'[t] = "ok" => \A i \in 1..replicas[t] : "running" \in reached'[t][i]
    BY ConfigKept DEF RanInv, HasRun
  <2>1. CASE t = s
    <3>1. \A i \in 1..replicas[s] : n > replicas[s] => i < n
      BY ReplicaNumbers DEF StartInv
    <3> QED
      BY <1>1, <2>1, <3>1
  <2>2. CASE t # s
    BY <1>1, <2>2, ReplicaNumbers DEF StartInv, RanInv, HasRun, Grown
  <2> QED
    BY <2>1, <2>2
<1>5. OrderInv'
  BY <1>1, ConfigKept DEF StartInv, OrderInv
<1>6. \A w \in Waiters : Begun(w) => Begun(w)'
  BY <1>1 DEF Begun, Waiters
<1>7. PollInv'
  BY <1>2, <1>6, PollKept
<1>8. WaitInv'
  BY <1>1, WaitKept
<1>9. GuardInv'
  <2> SUFFICES ASSUME NEW t \in Services, pc'[t] = "start", Undisturbed(t)
               PROVE  AllMet(t)'
    BY DEF GuardInv, Undisturbed
  <2>1. AllMet(t)
    BY <1>1 DEF StartInv, GuardInv
  <2> QED
    BY <2>1, AllMetKept DEF StartInv
<1>10. ConditionBeforeStart'
  <2> SUFFICES ASSUME NEW e \in started', e[1] \notin expired,
                      NEW d \in Waited(e[1]), Required(e[1], d)
               PROVE  ConditionMet(d, condition[e[1]][d])'
    BY ConfigKept DEF ConditionBeforeStart
  <2>1. d \in Services
    BY DEF Waited
  <2>2. ConditionMet(d, condition[e[1]][d])
    <3>1. CASE e \in started
      BY <3>1 DEF StartInv, ConditionBeforeStart
    <3>2. CASE e \notin started
      <4>1. e[1] = s /\ Undisturbed(s) /\ pc[s] = "start"
        BY <3>2
      <4>2. AllMet(s) /\ s # Project
        BY <4>1, ProjectAssumption DEF StartInv, GuardInv
      <4> QED
        BY <4>1, <4>2 DEF AllMet, Condition
    <3> QED
      BY <3>1, <3>2
  <2> QED
    BY <2>1, <2>2, MetKept, ConfigKept DEF StartInv
<1> QED
  BY <1>2, <1>3, <1>4, <1>5, <1>7, <1>8, <1>9, <1>10, ConfigKept, ResultKept DEF StartInv

(* The wait of a service ends: its polls have seen what it waited for.     *)
LEMMA EndWaitStep ==
  ASSUME StartInv, NEW s \in Services, EndWait(s)
  PROVE  StartInv'
<1>1. /\ UNCHANGED config /\ UNCHANGED engine
      /\ UNCHANGED <<phase, cancelled, walked, next, started, deadAtWait, poll, expired, result>>
      /\ pc[s] = "wait" /\ Polled(s)
  BY DEF EndWait, walk
<1>2. PICK to \in {"start", "failed"} : pc' = [pc EXCEPT ![s] = to] /\ (to = "start" => ~Refused(s))
  BY DEF EndWait, WaitOutcome
<1>3. to = "start" /\ Undisturbed(s) => AllMet(s)
  <2> SUFFICES ASSUME ~Refused(s), Undisturbed(s), NEW d \in Waited(s), Required(s, d)
               PROVE  ConditionMet(d, Condition(s, d))
    BY <1>2 DEF AllMet
  <2>1. s \in Waiters /\ d \in Services /\ poll[s][d].pc # "off"
    BY <1>1 DEF Waiters, Waited, StartInv, WaitInv
  <2>2. poll[s][d].pc \in PollPCs
    BY <2>1 DEF StartInv, TypeOK
  <2>3. poll[s][d].pc = "nil"
    BY <1>1, <2>1, <2>2 DEF Polled, Refused, PollPCs
  <2> QED
    BY <2>1, <2>3 DEF StartInv, PollInv
<1>4. next[s] \in 1..MaxReplicas + 1 /\ next' = [next EXCEPT ![s] = next[s]]
  BY <1>1 DEF StartInv, TypeOK
<1>5. Grown /\ EngineInv'
  BY <1>1, EngineKept
<1>6. \A i \in 1..replicas[s] : i < next[s] => "running" \in reached'[s][i]
  BY <1>1 DEF StartInv, RanInv, engine
<1> QED
  BY <1>1, <1>2, <1>3, <1>4, <1>5, <1>6, MoveStep DEF StartInv, TypeOK, engine

(* What is left of startService: containers one after the other.           *)
LEMMA ContainersStep ==
  ASSUME StartInv, NEW s \in Services,
         SkipContainer(s) \/ StartContainer(s) \/ StartFails(s) \/ AllStarted(s)
  PROVE  StartInv'
<1>1. /\ UNCHANGED config /\ UNCHANGED <<phase, cancelled, walked, deadAtWait, poll, expired, result>>
      /\ pc[s] = "start" /\ (Undisturbed(s) => AllMet(s))
  BY DEF SkipContainer, StartContainer, StartFails, AllStarted, walk, StartInv, GuardInv
<1>2. /\ next[s] \in 1..MaxReplicas + 1 /\ next \in [Services -> 1..MaxReplicas + 1]
      /\ pc \in [Services -> {"idle", "wait", "start", "ok", "failed"}]
      /\ started \subseteq Services \X Numbers
      /\ status \in [Services -> [Numbers -> Statuses]]
      /\ reached \in [Services -> [Numbers -> SUBSET {"running", "healthy", "completed"}]]
  BY DEF StartInv, TypeOK
<1>3. replicas[s] \in Nat /\ replicas[s] <= MaxReplicas /\ MaxReplicas \in Nat
  BY ReplicasAssumption DEF StartInv, ConfigInit
<1>4. \A i \in 1..replicas[s] : i < next[s] => "running" \in reached[s][i]
  BY DEF StartInv, RanInv
<1>5. next' = [next EXCEPT ![s] = next'[s]] /\ next[s] \in Nat
  BY <1>2, <1>3 DEF SkipContainer, StartContainer, StartFails, AllStarted
<1>6. CASE SkipContainer(s)
  <2>1. /\ UNCHANGED engine /\ pc' = [pc EXCEPT ![s] = "start"] /\ started' = started
        /\ next'[s] = next[s] + 1 /\ next[s] <= replicas[s] /\ <<s, next[s]>> \in listedRunning
    BY <1>1, <1>2, <1>6 DEF SkipContainer
  <2>2. next'[s] \in 1..MaxReplicas + 1 /\ next[s] \in Numbers
    BY <1>2, <1>3, <1>5, <2>1 DEF Numbers
  <2>3. "running" \in reached[s][next[s]]
    BY <2>1, <2>2 DEF StartInv, EngineInv
  <2>4. \A i \in 1..replicas[s] : i < next'[s] => "running" \in reached'[s][i]
    <3>1. \A i \in 1..replicas[s] : i < next[s] + 1 => i < next[s] \/ i = next[s]
      BY <1>3, <1>5
    <3> QED
      BY <1>4, <2>1, <2>3, <3>1 DEF engine
  <2>5. Grown /\ EngineInv'
    BY <1>1, <2>1, EngineKept
  <2> QED
    BY <1>1, <1>2, <1>5, <2>1, <2>2, <2>4, <2>5, MoveStep DEF engine
<1>7. CASE StartContainer(s)
  <2>1. /\ next[s] <= replicas[s] /\ ~cancelled /\ started' = started \cup {<<s, next[s]>>}
        /\ next[s] \in Numbers
    BY <1>2, <1>3, <1>7 DEF StartContainer, Numbers
  <2>2. /\ status' \in [Services -> [Numbers -> Statuses]]
        /\ reached' \in [Services -> [Numbers -> SUBSET {"running", "healthy", "completed"}]]
        /\ Grown /\ EngineInv' /\ "running" \in reached'[s][next[s]]
    <3>1. CASE status[s][next[s]] \in Running
      <4>1. UNCHANGED engine
        BY <1>7, <3>1 DEF StartContainer
      <4>2. "running" \in reached[s][next[s]]
        BY <2>1, <3>1 DEF StartInv, EngineInv
      <4> QED
        BY <1>1, <1>2, <4>1, <4>2, EngineKept DEF engine
    <3>2. CASE status[s][next[s]] \notin Running
      <4>1. PICK st \in {"starting", "up"} : Becomes(s, next[s], st)
        BY <1>7, <3>2 DEF StartContainer
      <4>2. st \in Running /\ st \in Statuses
        BY DEF Running, Statuses
      <4> QED
        BY <1>1, <2>1, <4>1, <4>2, BecomesStep
    <3> QED
      BY <3>1, <3>2
  <2>3. PICK to \in {"start", "failed"}, n \in {next[s], next[s] + 1} :
          pc' = [pc EXCEPT ![s] = to] /\ next' = [next EXCEPT ![s] = n]
    <3>1. CASE pc' = pc
      BY <1>1, <1>2, <1>7, <3>1 DEF StartContainer
    <3>2. CASE pc' # pc
      BY <1>1, <1>2, <1>7, <3>2 DEF StartContainer
    <3> QED
      BY <3>1, <3>2
  <2>4. n \in 1..MaxReplicas + 1
    BY <1>2, <1>3, <1>5, <2>1
  <2>5. \A i \in 1..replicas[s] : i < n => "running" \in reached'[s][i]
    <3>1. \A i \in 1..replicas[s] : i < n => i < next[s] \/ i = next[s]
      BY <1>3, <1>5
    <3>2. \A i \in 1..replicas[s] : reached[s][i] \subseteq reached'[s][i]
      BY <2>2, ReplicaNumbers DEF Grown, StartInv
    <3> QED
      BY <1>4, <2>2, <3>1, <3>2
  <2>6. started' \subseteq Services \X Numbers
    BY <1>2, <2>1
  <2>7. Undisturbed(s) \/ s \in expired
    BY <2>1 DEF Undisturbed
  <2>8. \A e \in started' : e \in started \/ e[1] = s
    BY <2>1
  <2> QED
    BY <1>1, <2>2, <2>3, <2>4, <2>5, <2>6, <2>7, <2>8, MoveStep
<1>8. CASE StartFails(s) \/ AllStarted(s)
  <2>1. UNCHANGED engine /\ UNCHANGED <<next, started>>
    BY <1>8 DEF StartFails, AllStarted
  <2>2. PICK to \in {"failed", "ok"} : pc' = [pc EXCEPT ![s] = to] /\ (to = "ok" => next[s] > replicas[s])
    BY <1>8 DEF StartFails, AllStarted
  <2>3. Grown /\ EngineInv'
    BY <1>1, <2>1, EngineKept
  <2> QED
    BY <1>1, <1>2, <1>4, <1>5, <2>1, <2>2, <2>3, MoveStep DEF engine
<1> QED
  BY <1>6, <1>7, <1>8

(* The walk takes the verdict of startService.                             *)
LEMMA EndServiceStep ==
  ASSUME StartInv, NEW s \in Services, EndService(s)
  PROVE  StartInv'
<1>1. /\ UNCHANGED config /\ UNCHANGED engine
      /\ UNCHANGED <<cancelled, walked, pc, next, started, deadAtWait, poll, expired, result>>
      /\ phase[s] = "active" /\ phase'[s] = pc[s]
  BY DEF EndService, Walk!Finish
<1>2. PICK p \in {"ok", "failed"} : phase' = [phase EXCEPT ![s] = p]
  BY DEF EndService, Walk!Finish
<1>3. p = pc[s] /\ \A t \in Services : t # s => phase'[t] = phase[t]
  BY <1>1, <1>2 DEF StartInv, TypeOK
<1>4. NoCalmer /\ Grown /\ EngineInv'
  BY <1>1, EngineKept DEF NoCalmer
<1>5. TypeOK'
  <2>1. phase' \in [Services -> Walk!Phases]
    BY <1>2 DEF StartInv, TypeOK, Walk!Phases
  <2> QED
    BY <1>1, <2>1 DEF StartInv, TypeOK, engine
<1>6. OrderInv'
  <2>1. \A t \in Services : phase[t] = "ok" => phase'[t] = "ok"
    BY <1>1, <1>3
  <2>2. \A t \in Services : phase'[t] = "ok" => pc[t] = "ok"
    BY <1>1, <1>3 DEF StartInv, OrderInv
  <2> QED
    BY <1>1, <2>1, <2>2, ConfigKept DEF StartInv, OrderInv, DependsOn
<1>7. \A w \in Waiters : Begun(w) => Begun(w)'
  BY <1>1 DEF Begun
<1> QED
  BY <1>1, <1>4, <1>5, <1>6, <1>7, ConfigKept, RanKept, PollKept, WaitKept, GuardKept, ResultKept, StartedKept
  DEF StartInv

----------------------------------------------------------------------------
(* The invariant, and what it is for.                                      *)

LEMMA InitInv ==
  ASSUME Init
  PROVE  StartInv
<1>1. 1 \in Numbers /\ 1 \in 1..MaxReplicas + 1
  BY ReplicasAssumption DEF Numbers
<1>2. ASSUME NEW s \in Services, NEW i \in Numbers
      PROVE  /\ reached[s][i] = Been(status[s][i])
             /\ <<s, i>> \in listedRunning => status[s][i] \in Running
  <2>1. reached = [t \in Services |-> [j \in Numbers |-> Been(status[t][j])]]
    BY DEF Init, EngineInit
  <2>2. listedRunning = {e \in Services \X Numbers : status[e[1]][e[2]] \in Running}
    BY DEF Init, EngineInit
  <2>3. <<s, i>> \in listedRunning => status[s][i] \in Running
    BY <2>2
  <2> QED
    BY <2>1, <2>3
<1>3. EngineInv
  BY <1>2 DEF EngineInv, Been, Running
<1>4. /\ \A w \in Waiters, d \in Services : poll[w][d] = Off
      /\ \A s \in Services : pc[s] = "idle" /\ next[s] = 1 /\ phase[s] = "waiting"
      /\ walked = "none" /\ started = {} /\ result = "none"
  BY DEF Init, StartInit
<1>5. RanInv
  <2>1. \A s \in Services : \A i \in 1..replicas[s] : ~(i < 1)
    BY ReplicaNumbers DEF Init
  <2> QED
    BY <1>4, <2>1 DEF RanInv
<1>6. PollInv
  BY <1>4 DEF PollInv, Off
<1>7. OrderInv /\ WaitInv /\ GuardInv /\ KeptInv /\ ConditionBeforeStart
  BY <1>4 DEF OrderInv, WaitInv, GuardInv, KeptInv, ConditionBeforeStart
<1>8. TypeOK
  <2>1. reached \in [Services -> [Numbers -> SUBSET {"running", "healthy", "completed"}]]
    <3>1. \A st : Been(st) \in SUBSET {"running", "healthy", "completed"}
      BY DEF Been
    <3> QED
      BY <3>1 DEF Init, EngineInit
  <2>2. poll \in [Waiters -> [Services -> [pc : PollPCs, at : Numbers]]]
    BY <1>1 DEF Init, StartInit, Off, PollPCs
  <2> QED
    BY <1>1, <2>1, <2>2 DEF Init, EngineInit, StartInit, TypeOK, Walk!Phases
<1> QED
  BY <1>3, <1>5, <1>6, <1>7, <1>8 DEF Init, StartInv

LEMMA StartNext ==
  ASSUME StartInv, [Next]_vars
  PROVE  StartInv'
<1>1. CASE \E s \in Services : Starter(s)
  BY <1>1, BeginStep, EndWaitStep, ContainersStep, EndServiceStep DEF Starter
<1>2. CASE \E w \in Waiters, d \in Services : Poller(w, d)
  BY <1>2, PollerStep
<1>3. CASE (\E w \in Waiters : TimeoutPasses(w)) \/ Cancelled \/ Terminated \/ UNCHANGED vars
  BY <1>3, CalmStep DEF Terminated
<1>4. CASE WalkReturns \/ StartReturns
  BY <1>4, WalkStep, ReturnStep
<1>5. CASE \E s \in Services, i \in Numbers : Engine(s, i)
  BY <1>5, EngineStep
<1> QED
  BY <1>1, <1>2, <1>3, <1>4, <1>5 DEF Next

LEMMA StartHolds == Spec => []StartInv
BY InitInv, StartNext, PTL DEF Spec

(* Whatever the containers do while they are listed, polled and started,   *)
(* startService starts none before what its service requires has been in   *)
(* its condition since start was called, unless the wait timed out         *)
(* (waitDependencies, isServiceHealthy, isServiceCompleted).               *)
THEOREM ConditionsBeforeStarts == Spec => []ConditionBeforeStart
<1>1. StartInv => ConditionBeforeStart
  BY DEF StartInv
<1> QED
  BY <1>1, StartHolds, PTL

(* A nil of start --wait (waitDependencies for the project) is worth what  *)
(* it says, except when it comes from the timeout.                         *)
THEOREM WaitsAreKept == Spec => [](Project \notin expired => WaitIsKept)
<1>1. StartInv => (Project \notin expired => WaitIsKept)
  <2> SUFFICES ASSUME StartInv, Undisturbed(Project), result = "nil", Wait, NEW d \in Waited(Project)
               PROVE  ConditionMet(d, WaitCondition(d))
    BY DEF WaitIsKept, Undisturbed
  <2>1. Required(Project, d) /\ Condition(Project, d) = WaitCondition(d)
    BY DEF Required, Condition
  <2> QED
    BY <2>1 DEF StartInv, KeptInv, AllMet
<1> QED
  BY <1>1, StartHolds, PTL

----------------------------------------------------------------------------
(* What had exited before the wait for all began is noticed by it.         *)

\* isServiceHealthy looks at all containers of the service
Looked(d) == d \in healthcheck \/ replicas[d] <= 1

NumbersInv == \A s \in Services, i \in Numbers : i > replicas[s] => status[s][i] = "gone"

\* Nothing of this command starts what is dead by then
DeadInv ==
  \A s \in Services, i \in Numbers : <<s, i>> \in deadAtWait =>
    /\ walked = "nil" /\ i <= replicas[s]
    /\ cancelled \/ status[s][i] \in Exited \cup {"gone"}

\* No poll of the project's gets past a dead container
NoticeInv ==
  \A d \in Waited(Project), i \in Numbers :
    <<d, i>> \in deadAtWait /\ Looked(d) /\ WaitCondition(d) # "completed" /\ Undisturbed(Project) =>
      /\ poll[Project][d].pc = "inspect" => poll[Project][d].at <= i
      /\ poll[Project][d].pc = "nil" => Refused(Project)

ExitsInv ==
  result = "nil" /\ Wait /\ Undisturbed(Project) =>
    \A d \in Waited(Project), i \in Numbers :
      <<d, i>> \in deadAtWait /\ Looked(d) => WaitCondition(d) = "completed"

DeathInv ==
  /\ NumbersInv /\ DeadInv /\ NoticeInv /\ ExitsInv
  /\ ~Timeout => expired = {}
  /\ walked = "none" => result = "none"

\* What is dead stays so once the walk is over
DeadStay ==
  \A s \in Services, i \in Numbers :
    /\ status[s][i] = "gone" => status'[s][i] = "gone" \/ (i <= replicas[s] /\ walked # "nil")
    /\ walked = "nil" /\ ~cancelled /\ status[s][i] \in Exited => status'[s][i] \in Exited \cup {"gone"}

LEMMA DeadKept ==
  ASSUME StartInv, DeathInv, UNCHANGED config, UNCHANGED <<walked, deadAtWait>>, NoCalmer, DeadStay
  PROVE  NumbersInv' /\ DeadInv'
<1>1. NumbersInv'
  <2> SUFFICES ASSUME NEW s \in Services, NEW i \in Numbers, i > replicas[s]  PROVE status'[s][i] = "gone"
    BY ConfigKept DEF NumbersInv
  <2>1. status[s][i] = "gone"  BY DEF DeathInv, NumbersInv
  <2>2. ~(i <= replicas[s])  BY ReplicaNumbers DEF StartInv, Numbers
  <2> QED  BY <2>1, <2>2 DEF DeadStay
<1>2. DeadInv'
  <2> SUFFICES ASSUME NEW s \in Services, NEW i \in Numbers, <<s, i>> \in deadAtWait
               PROVE  /\ walked = "nil" /\ i <= replicas[s]
                      /\ cancelled' \/ status'[s][i] \in Exited \cup {"gone"}
    BY ConfigKept DEF DeadInv
  <2>1. walked = "nil" /\ i <= replicas[s] /\ (cancelled \/ status[s][i] \in Exited \cup {"gone"})
    BY DEF DeathInv, DeadInv
  <2> QED  BY <2>1 DEF DeadStay, NoCalmer
<1> QED  BY <1>1, <1>2

LEMMA NoticeKept ==
  ASSUME DeathInv, UNCHANGED config, UNCHANGED deadAtWait, NoCalmer, poll'[Project] = poll[Project]
  PROVE  NoticeInv'
<1>1. Undisturbed(Project)' => Undisturbed(Project)  BY DEF NoCalmer, Undisturbed
<1>2. Refused(Project)' <=> Refused(Project)  BY DEF Refused
<1>3. \A d : (Looked(d)' <=> Looked(d)) /\ WaitCondition(d)' = WaitCondition(d)
  BY ConfigKept DEF Looked, WaitCondition
<1> QED  BY <1>1, <1>2, <1>3, ConfigKept DEF DeathInv, NoticeInv

LEMMA ExitsKept ==
  ASSUME DeathInv, UNCHANGED config, UNCHANGED <<deadAtWait, result>>, NoCalmer
  PROVE  ExitsInv'
<1>1. Undisturbed(Project)' => Undisturbed(Project)  BY DEF NoCalmer, Undisturbed
<1>3. \A d : (Looked(d)' <=> Looked(d)) /\ WaitCondition(d)' = WaitCondition(d)
  BY ConfigKept DEF Looked, WaitCondition
<1> QED  BY <1>1, <1>3, ConfigKept DEF DeathInv, ExitsInv

LEMMA DeathKept ==
  ASSUME StartInv, DeathInv, UNCHANGED config, UNCHANGED <<walked, deadAtWait, result, expired>>, NoCalmer,
         DeadStay, poll'[Project] = poll[Project]
  PROVE  DeathInv'
BY DeadKept, NoticeKept, ExitsKept DEF DeathInv

(* The engine, with or without the help of a service that starts.          *)
LEMMA BecomesDead ==
  ASSUME StartInv, NEW s \in Services, NEW i \in Numbers, NEW st, Becomes(s, i, st)
  PROVE  /\ status'[s][i] = st
         /\ \A t \in Services, j \in Numbers : t # s \/ j # i => status'[t][j] = status[t][j]
<1>1. status \in [Services -> [Numbers -> Statuses]]  BY DEF StartInv, TypeOK
<1>2. status' = [status EXCEPT ![s] = [status[s] EXCEPT ![i] = st]]  BY <1>1 DEF Becomes
<1> QED  BY <1>1, <1>2

LEMMA EngineDeath ==
  ASSUME StartInv, DeathInv, NEW s \in Services, NEW i \in Numbers, Engine(s, i)
  PROVE  DeathInv'
<1>1. UNCHANGED config /\ UNCHANGED <<cancelled, walked, deadAtWait, poll, expired, result>>
  BY DEF Engine, HealthReported, ContainerExits, ContainerRemoved, walk
<1>2. PICK st : /\ Becomes(s, i, st)
                /\ status[s][i] # "gone" /\ (status[s][i] \in Exited => st = "gone")
  BY DEF Engine, HealthReported, ContainerExits, ContainerRemoved, Running, Exited
<1>3. DeadStay
  <2> SUFFICES ASSUME NEW t \in Services, NEW j \in Numbers
               PROVE  /\ status[t][j] = "gone" => status'[t][j] = "gone"
                      /\ status[t][j] \in Exited => status'[t][j] \in Exited \cup {"gone"}
    BY DEF DeadStay
  <2>1. CASE t = s /\ j = i
    BY <1>2, <2>1, BecomesDead
  <2>2. CASE t # s \/ j # i
    BY <1>2, <2>2, BecomesDead
  <2> QED  BY <2>1, <2>2
<1>4. NoCalmer  BY <1>1 DEF NoCalmer
<1> QED  BY <1>1, <1>3, <1>4, DeathKept

LEMMA CalmDeath ==
  ASSUME StartInv, DeathInv, Cancelled \/ (\E w \in Waiters : TimeoutPasses(w)) \/ UNCHANGED vars
  PROVE  DeathInv'
<1>1. UNCHANGED config /\ UNCHANGED <<status, walked, deadAtWait, poll, result>>
  BY DEF Cancelled, Walk!Cancel, TimeoutPasses, vars, walk, engine
<1>2. NoCalmer /\ (~Timeout => expired' = expired)
  BY DEF Cancelled, Walk!Cancel, TimeoutPasses, vars, walk, NoCalmer
<1>3. DeadStay  BY <1>1 DEF DeadStay
<1>4. NumbersInv' /\ DeadInv' /\ NoticeInv' /\ ExitsInv'
  BY <1>1, <1>2, <1>3, DeadKept, NoticeKept, ExitsKept
<1> QED  BY <1>1, <1>2, <1>4 DEF DeathInv

(* The project's polls.                                                    *)
LEMMA PollerDeath ==
  ASSUME StartInv, DeathInv, NEW w \in Waiters, NEW d \in Services, Poller(w, d)
  PROVE  DeathInv'
<1>1. /\ UNCHANGED config /\ UNCHANGED engine
      /\ UNCHANGED <<cancelled, walked, deadAtWait, expired, result>>
  BY DEF Poller, GiveUp, Tick, Inspect, walk
<1>2. NoCalmer /\ DeadStay  BY <1>1 DEF NoCalmer, DeadStay, engine
<1>3. /\ poll \in [Waiters -> [Services -> [pc : PollPCs, at : Numbers]]]
      /\ poll[w][d].pc \in {"tick", "inspect"}
  BY DEF StartInv, TypeOK, Poller, GiveUp, Tick, Inspect
<1>4. PICK new : poll' = [poll EXCEPT ![w] = [poll[w] EXCEPT ![d] = new]]
  BY <1>3 DEF Poller, GiveUp, Tick, Inspect
<1>5. /\ poll'[w][d] = new
      /\ \A x \in Waiters, e \in Services : x # w \/ e # d => poll'[x][e] = poll[x][e]
  BY <1>3, <1>4
<1>6. Refused(Project) => Refused(Project)'
  BY <1>3, <1>5 DEF Refused, Waiters
<1>7. NoticeInv'
  <2> SUFFICES ASSUME NEW e \in Waited(Project), NEW i \in Numbers, <<e, i>> \in deadAtWait, Looked(e),
                      WaitCondition(e) # "completed", Undisturbed(Project)
               PROVE  /\ poll'[Project][e].pc = "inspect" => poll'[Project][e].at <= i
                      /\ poll'[Project][e].pc = "nil" => Refused(Project)'
    BY <1>1, ConfigKept DEF NoticeInv, Looked, WaitCondition, Undisturbed
  <2>1. /\ e \in Services /\ Project \in Waiters
        /\ poll[Project][e].pc = "inspect" => poll[Project][e].at <= i
        /\ poll[Project][e].pc = "nil" => Refused(Project)
    BY DEF DeathInv, NoticeInv, Waited, Waiters
  <2>2. CASE w # Project \/ e # d
    BY <1>5, <1>6, <2>1, <2>2
  <2>3. CASE w = Project /\ e = d
    <3>1. CASE GiveUp(w, d)
      <4>1. Refused(Project)
        BY <2>3, <3>1 DEF GiveUp, Done, Undisturbed, Refused
      <4>2. poll'[w][d].pc # "inspect"
        BY <1>3, <3>1 DEF GiveUp
      <4> QED  BY <1>6, <2>3, <4>1, <4>2
    <3>2. CASE Tick(w, d)
      <4>1. poll'[w][d] = [pc |-> "inspect", at |-> 1]  BY <1>3, <3>2 DEF Tick
      <4>2. 1 <= i  BY ReplicasAssumption DEF Numbers
      <4> QED  BY <2>3, <4>1, <4>2
    <3>3. CASE Inspect(w, d)
      <4> DEFINE at == poll[w][d].at
                 c  == Condition(w, d)
                 st == status[d][at]
                 v  == Verdict(c, d, st)
                 answer == IF v = "next" /\ at = replicas[d] THEN AtEnd(c) ELSE v
      <4>1. poll[w][d].pc = "inspect" /\ at <= i /\ at <= replicas[d] /\ at \in Numbers
        BY <1>3, <2>1, <2>3, <3>3 DEF Inspect, StartInv, PollInv
      <4>2. Required(w, d) /\ c = "running or healthy"
        BY <2>3 DEF Required, Condition, WaitCondition
      <4>3. poll'[w][d] = CASE Done(w) \/ st = "gone" -> [pc |-> AfterError(w, d, TRUE), at |-> 1]
                            [] OTHER ->
                                 (CASE answer = "next"  -> [pc |-> "inspect", at |-> at + 1]
                                    [] answer = "false" -> [pc |-> "tick", at |-> 1]
                                    [] answer = "true"  -> [pc |-> "nil", at |-> 1]
                                    [] answer = "error" -> [pc |-> AfterError(w, d, FALSE), at |-> 1])
        BY <1>3, <3>3 DEF Inspect
      <4>4. /\ i <= replicas[d] /\ status[d][i] \in Exited \cup {"gone"}
            /\ i \in Nat /\ at \in Nat /\ replicas[d] \in Nat /\ 1 <= at
        BY <2>3, <4>1, ReplicaNumbers DEF DeathInv, DeadInv, Undisturbed, Numbers, StartInv
      <4>5. CASE Done(w) \/ st = "gone"
        <5>1. poll'[w][d] = [pc |-> AfterError(w, d, TRUE), at |-> 1]
          BY <4>3, <4>5
        <5>2. AfterError(w, d, TRUE) = "err"
          BY <4>2, Zenon DEF AfterError
        <5>3. poll'[w][d] = [pc |-> "err", at |-> 1]
          BY <5>1, <5>2, Zenon
        <5> QED  BY <2>3, <5>3
      <4>6. CASE ~(Done(w) \/ st = "gone") /\ at = i
        <5>1. v = "error"  BY <4>2, <4>4, <4>6 DEF Verdict
        <5>2. poll'[w][d] = [pc |-> AfterError(w, d, FALSE), at |-> 1]
          BY <4>3, <4>6, <5>1
        <5>3. AfterError(w, d, FALSE) = "err"
          BY <4>2, Zenon DEF AfterError
        <5>4. poll'[w][d] = [pc |-> "err", at |-> 1]
          BY <5>2, <5>3, Zenon
        <5> QED  BY <2>3, <5>4
      <4>7. CASE ~(Done(w) \/ st = "gone") /\ at # i
        <5>1. at + 1 <= i /\ at # replicas[d]
          BY <4>1, <4>4, <4>7
        <5>2. d \in healthcheck
          BY <2>3, <4>1, <4>4, <5>1 DEF Looked
        <5>3. v \in {"next", "false", "error"}
          BY <4>2, <5>2 DEF Verdict
        <5>4. answer = v
          BY <5>1
        <5>5. CASE v = "next"
          BY <2>3, <4>3, <4>7, <5>1, <5>4, <5>5
        <5>6. CASE v = "false"
          BY <2>3, <4>3, <4>7, <5>4, <5>6
        <5>7. CASE v = "error"
          <6>1. poll'[w][d] = [pc |-> AfterError(w, d, FALSE), at |-> 1]
            BY <4>3, <4>7, <5>4, <5>7
          <6>2. AfterError(w, d, FALSE) = "err"
            BY <4>2, Zenon DEF AfterError
          <6>3. poll'[w][d] = [pc |-> "err", at |-> 1]
            BY <6>1, <6>2, Zenon
          <6> QED  BY <2>3, <6>3
        <5> QED  BY <5>3, <5>5, <5>6, <5>7
      <4> QED  BY <4>5, <4>6, <4>7
    <3> QED  BY <3>1, <3>2, <3>3 DEF Poller
  <2> QED  BY <2>2, <2>3
<1> QED  BY <1>1, <1>2, <1>7, DeadKept, ExitsKept DEF DeathInv

LEMMA StarterDeath ==
  ASSUME StartInv, DeathInv, NEW s \in Services, Starter(s)
  PROVE  DeathInv'
<1>1. UNCHANGED config /\ UNCHANGED <<cancelled, walked, deadAtWait, expired, result>>
  BY DEF Starter, BeginService, EndWait, SkipContainer, StartContainer, StartFails, AllStarted, EndService,
         Walk!Begin, Walk!Finish, walk
<1>2. NoCalmer  BY <1>1 DEF NoCalmer
<1>3. poll'[Project] = poll[Project]
  <2>1. s # Project  BY ProjectAssumption
  <2>2. poll' = poll \/ poll' = Polling(s)
    BY DEF Starter, BeginService, EndWait, SkipContainer, StartContainer, StartFails, AllStarted, EndService
  <2>3. poll \in [Waiters -> [Services -> [pc : PollPCs, at : Numbers]]] /\ Project \in Waiters
    BY DEF StartInv, TypeOK, Waiters
  <2> QED  BY <2>1, <2>2, <2>3 DEF Polling
<1>4. DeadStay
  <2>1. CASE UNCHANGED status
    BY <2>1 DEF DeadStay
  <2>2. CASE status' # status
    <3>1. StartContainer(s)
      BY <2>2 DEF Starter, BeginService, EndWait, SkipContainer, StartFails, AllStarted, EndService, engine
    <3>2. pc[s] = "start" /\ next[s] <= replicas[s] /\ status[s][next[s]] # "gone" /\ ~cancelled
      BY <3>1 DEF StartContainer
    <3>3. PICK st : Becomes(s, next[s], st)
      BY <2>2, <3>1 DEF StartContainer, engine
    <3>4. walked # "nil"
      BY <3>2 DEF StartInv, OrderInv
    <3>5. next[s] \in Numbers
      <4>1. next[s] \in 1..MaxReplicas + 1 /\ replicas[s] \in 0..MaxReplicas
        BY DEF StartInv, TypeOK, ConfigInit
      <4> QED  BY <3>2, <4>1, ReplicasAssumption DEF Numbers
    <3>6. \A t \in Services, j \in Numbers : status[t][j] = "gone" => status'[t][j] = "gone"
      <4> SUFFICES ASSUME NEW t \in Services, NEW j \in Numbers, status[t][j] = "gone"
                   PROVE  status'[t][j] = "gone"
        OBVIOUS
      <4>1. t # s \/ j # next[s]  BY <3>2
      <4> QED  BY <3>3, <3>5, <4>1, BecomesDead
    <3> QED  BY <3>4, <3>6 DEF DeadStay
  <2> QED  BY <2>1, <2>2
<1> QED  BY <1>1, <1>2, <1>3, <1>4, DeathKept

(* The wait for all begins: what has exited by now it will have to notice. *)
LEMMA WalkDeath ==
  ASSUME StartInv, DeathInv, WalkReturns
  PROVE  DeathInv'
<1>1. /\ UNCHANGED config /\ UNCHANGED <<status, cancelled, expired, result>>
      /\ walked = "none"
  BY DEF WalkReturns, Walk!Return, engine
<1>2. NumbersInv'  BY <1>1, ConfigKept DEF DeathInv, NumbersInv
<1>3. \A s \in Services, i \in Numbers : <<s, i>> \in deadAtWait' => walked' = "nil" /\ status[s][i] \in Exited
  BY DEF WalkReturns
<1>4. DeadInv'
  <2> SUFFICES ASSUME NEW s \in Services, NEW i \in Numbers, walked' = "nil", status[s][i] \in Exited
               PROVE  i <= replicas[s]
    BY <1>1, <1>3, ConfigKept DEF DeadInv
  <2>1. ~(i > replicas[s])  BY DEF DeathInv, NumbersInv, Exited
  <2> QED  BY <2>1, ReplicaNumbers DEF StartInv, Numbers
<1>5. \A d \in Services : poll[Project][d].pc = "off"
  BY <1>1 DEF StartInv, PollInv, Begun, Waiters
<1>6. \A d \in Services : poll'[Project][d].pc \in {"off", "tick"}
  <2>1. CASE poll' = poll
    BY <1>5, <2>1
  <2>2. CASE poll' = Polling(Project)
    <3>1. poll \in [Waiters -> [Services -> [pc : PollPCs, at : Numbers]]] /\ Project \in Waiters
      BY DEF StartInv, TypeOK, Waiters
    <3>2. poll'[Project] = [d \in Services |-> IF d \in Waited(Project) \ Missing(Project)
                                               THEN [pc |-> "tick", at |-> 1] ELSE Off]
      BY <2>2, <3>1 DEF Polling
    <3> QED  BY <3>2 DEF Off
  <2> QED  BY <2>1, <2>2 DEF WalkReturns
<1>7. NoticeInv'
  BY <1>1, <1>6, ConfigKept DEF NoticeInv, Waited
<1>8. result # "nil"
  BY <1>1 DEF DeathInv
<1>9. ExitsInv'  BY <1>1, <1>8 DEF ExitsInv
<1> QED  BY <1>1, <1>2, <1>4, <1>7, <1>8, <1>9 DEF DeathInv

(* start returns: no poll that met a dead container ended with a nil.      *)
LEMMA ReturnDeath ==
  ASSUME StartInv, DeathInv, StartReturns
  PROVE  DeathInv'
<1>1. UNCHANGED config /\ UNCHANGED <<status, cancelled, walked, deadAtWait, poll, expired>>
  BY DEF StartReturns, walk, engine
<1>2. NoCalmer /\ DeadStay  BY <1>1 DEF NoCalmer, DeadStay
<1>3. ExitsInv'
  <2> SUFFICES ASSUME result' = "nil", Wait, Undisturbed(Project), NEW d \in Waited(Project), NEW i \in Numbers,
                      <<d, i>> \in deadAtWait, Looked(d), WaitCondition(d) # "completed"
               PROVE  FALSE
    BY <1>1, ConfigKept DEF ExitsInv, Looked, WaitCondition, Undisturbed
  <2>1. walked = "nil" /\ ~MissesRequired(Project) /\ ~Refused(Project) /\ Polled(Project)
    BY DEF StartReturns, StartOutcome
  <2>2. d \in Services /\ Project \in Waiters  BY DEF Waited, Waiters
  <2>3. poll[Project][d].pc \in PollPCs
    BY <2>2 DEF StartInv, TypeOK
  <2>4. poll[Project][d].pc = "nil"
    BY <2>1, <2>2, <2>3 DEF StartInv, WaitInv, Polled, Refused, PollPCs
  <2> QED  BY <2>1, <2>4 DEF DeathInv, NoticeInv
<1>4. walked # "none"  BY DEF StartReturns
<1> QED  BY <1>1, <1>2, <1>3, <1>4, DeadKept, NoticeKept DEF DeathInv

LEMMA DeathNext ==
  ASSUME StartInv, DeathInv, [Next]_vars
  PROVE  DeathInv'
<1>1. CASE \E s \in Services : Starter(s)
  BY <1>1, StarterDeath
<1>2. CASE \E w \in Waiters, d \in Services : Poller(w, d)
  BY <1>2, PollerDeath
<1>3. CASE (\E w \in Waiters : TimeoutPasses(w)) \/ Cancelled \/ Terminated \/ UNCHANGED vars
  BY <1>3, CalmDeath DEF Terminated
<1>4. CASE WalkReturns \/ StartReturns
  BY <1>4, WalkDeath, ReturnDeath
<1>5. CASE \E s \in Services, i \in Numbers : Engine(s, i)
  BY <1>5, EngineDeath
<1> QED  BY <1>1, <1>2, <1>3, <1>4, <1>5 DEF Next

LEMMA DeathInit ==
  ASSUME Init
  PROVE  DeathInv
<1>1. NumbersInv
  <2> SUFFICES ASSUME NEW s \in Services, NEW i \in Numbers, i > replicas[s]  PROVE status[s][i] = "gone"
    BY DEF NumbersInv
  <2>1. ~(i <= replicas[s])  BY ReplicaNumbers DEF Init, Numbers
  <2> QED  BY <2>1 DEF Init, EngineInit
<1>2. deadAtWait = {} /\ expired = {} /\ result = "none"  BY DEF Init, StartInit
<1> QED  BY <1>1, <1>2 DEF DeathInv, DeadInv, NoticeInv, ExitsInv

(* With every container that is waited for looked at, a nil of start --wait *)
(* without a timeout is worth all it says: services are running, healthy   *)
(* or completed, and what had exited before the wait was noticed           *)
(* (waitDependencies, isServiceHealthy).  A service with replicas and no   *)
(* health check is the exception.                                          *)
THEOREM SuccessesMeanStarted ==
  ASSUME ~Timeout
  PROVE  Spec /\ [](\A d \in Services : Looked(d)) => []SuccessMeansStarted
<1>1. StartInv /\ DeathInv /\ (\A d \in Services : Looked(d)) => SuccessMeansStarted
  <2> SUFFICES ASSUME StartInv, DeathInv, \A d \in Services : Looked(d)  PROVE SuccessMeansStarted
    OBVIOUS
  <2>1. expired = {}  BY DEF DeathInv
  <2>2. WaitIsKept
    BY <2>1 DEF StartInv, KeptInv, AllMet, WaitIsKept, Undisturbed, Required, Condition
  <2>3. WaitNoticesExits
    <3> SUFFICES ASSUME result = "nil", Wait, ~cancelled, Project \notin expired,
                        NEW e \in deadAtWait, e[1] \in Waited(Project)
                 PROVE  WaitCondition(e[1]) = "completed"
      BY DEF WaitNoticesExits
    <3>1. PICK d \in Services, i \in Numbers : e = <<d, i>>
      BY DEF StartInv, TypeOK
    <3> QED  BY <3>1 DEF DeathInv, ExitsInv, Undisturbed
  <2>4. TypeOK  BY DEF StartInv
  <2> QED  BY <2>2, <2>3, <2>4 DEF SuccessMeansStarted
<1>2. Spec => [](StartInv /\ DeathInv)
  <2>1. StartInv /\ DeathInv /\ [Next]_vars => (StartInv /\ DeathInv)'
    BY StartNext, DeathNext
  <2>2. Init => StartInv /\ DeathInv
    BY InitInv, DeathInit
  <2> QED  BY <2>1, <2>2, PTL DEF Spec
<1> QED  BY <1>1, <1>2, PTL
=============================================================================
