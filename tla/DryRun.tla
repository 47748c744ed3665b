------------------------------- MODULE DryRun -------------------------------
(***************************************************************************)
(* up --dry-run (pkg/dryrun/dryrunclient.go), followed by the same up in   *)
(* earnest.  Both take the same steps; in the dry run they go to a client  *)
(* that forwards most questions to the engine, answers the others from a   *)
(* list of its own and makes no change.  Service web depends on db.        *)
(***************************************************************************)
EXTENDS Naturals, FiniteSets

Services == {"db", "mq", "web"}
DependsOn(s) == IF s = "web" THEN {"db"} ELSE {}

VARIABLES
  project,  \* The project, and the containers there are
  mode,     \* "none", "dry", "real" or "over"
  phase,    \* "prepare", "observe", "create", "start" or "wait"
  engine,   \* The containers
  listed,   \* d.containers, those of the client of the dry run
  observed, \* Containers when create begins to look at services, or start
  visit,    \* Where the visit of a service is
  seen,     \* The list that a creation has read and will append to
  lost,     \* A creation has overwritten what another had appended
  shown,    \* Steps each mode has shown
  ends,     \* How each has ended
  outside   \* Commands, other than calls of the engine, that were run

vars == <<project, mode, phase, engine, listed, observed, visit, seen, lost, shown, ends, outside>>

Idle == [s \in Services |-> "todo"]
NoProject == [network |-> {}, volume |-> {}, changed |-> {}, condition |-> "started",
              restart |-> FALSE, wait |-> FALSE, provider |-> FALSE, models |-> FALSE,
              containers |-> {}]

Init ==
  /\ project = NoProject /\ mode = "none" /\ phase = "prepare"
  /\ engine = {} /\ listed = {} /\ observed = {} /\ outside = {}
  /\ visit = Idle /\ seen = [s \in Services |-> {}] /\ lost = FALSE
  /\ shown = [m \in {"dry", "real"} |-> {}] /\ ends = [m \in {"dry", "real"} |-> "none"]

Container(s, id, state, network) == [service |-> s, id |-> id, state |-> state, network |-> network]

(* What has become of the project since the last up: other configurations, *)
(* another network or volume.  These, and the options, are not combined;   *)
(* mq is like db, and either absent or running.                            *)
Cases ==
  [network : SUBSET Services, volume : {{}}, restart : {FALSE}, wait : {FALSE}, provider : {FALSE}, models : {FALSE}]
    \cup [network : {{}}, volume : SUBSET Services, restart : {FALSE}, wait : {FALSE}, provider : {FALSE}, models : {FALSE}]
    \cup [network : {{}}, volume : {{}}, restart : BOOLEAN, wait : BOOLEAN, provider : {FALSE}, models : {FALSE}]
    \cup [network : {{}}, volume : {{}}, restart : {FALSE}, wait : {FALSE}, provider : BOOLEAN, models : BOOLEAN]

Give ==
  /\ mode = "none" /\ mode' = "dry"
  /\ \E c \in Cases, state \in [Services -> {"none", "running", "exited"}],
        changed \in SUBSET Services, condition \in {"started", "healthy", "completed"} :
       /\ \A s \in changed : state[s] # "none"
       /\ state["mq"] # "exited" /\ (c.provider => state["mq"] = "none")
       /\ c.wait => condition # "completed"
       /\ condition = "started" \/ c.network \cup c.volume = {}
       /\ project' = [network |-> c.network, volume |-> c.volume, restart |-> c.restart, wait |-> c.wait,
                      provider |-> c.provider, models |-> c.models, changed |-> changed, condition |-> condition,
                      containers |-> {Container(s, "old", state[s], "n1") : s \in {t \in Services : state[t] # "none"}}]
       /\ engine' = project'.containers
  /\ UNCHANGED <<phase, listed, observed, visit, seen, lost, shown, ends, outside>>

Runs(p) == mode \in {"dry", "real"} /\ phase = p
Of(cs, s) == {c \in cs : c.service = s}

----------------------------------------------------------------------------
(* The client.  What changes something is answered and not done.           *)
Done(e) == IF mode = "dry" THEN engine ELSE e

(* getContainers: the first answer that is not empty is kept.              *)
GetContainers == IF mode = "real" \/ listed = {} THEN engine ELSE listed
Keep == listed' = IF mode = "real" THEN {} ELSE GetContainers

(* Mutant: start is told of those the engine has.                          *)
BugListForStart == engine

(* ContainerList, when start calls it, gives what is in the list.          *)
ListForStart == IF mode = "real" THEN engine ELSE listed

(* ContainerInspect: what the engine does not know runs and is healthy.    *)
State(c) ==
  IF \E e \in engine : e.service = c.service /\ e.id = c.id
  THEN (CHOOSE e \in engine : e.service = c.service /\ e.id = c.id).state ELSE "running"

----------------------------------------------------------------------------
(* ensureModels pulls and configures models.  A network or a volume that   *)
(* is no longer as declared is made anew: for a network the containers are *)
(* stopped and connected again, for a volume they are removed.             *)
Stopped(c, ss) == IF c.service \in ss THEN [c EXCEPT !.state = "exited"] ELSE c
Connected(c)   == IF c.service \in project.network THEN [c EXCEPT !.network = "n2"] ELSE c

Prepare ==
  /\ Runs("prepare")
  /\ outside' = IF project.models THEN {"models"} ELSE outside
  /\ engine' = Done({Connected(Stopped(c, project.network)) : c \in {d \in engine : d.service \notin project.volume}})
  /\ IF project.network \cup project.volume = {} THEN UNCHANGED listed ELSE Keep
  /\ phase' = "observe"
  /\ UNCHANGED <<project, mode, observed, visit, seen, lost, shown, ends>>

Observe ==
  /\ Runs("observe")
  /\ observed' = GetContainers /\ Keep
  /\ phase' = "create"
  /\ UNCHANGED <<project, mode, engine, visit, seen, lost, shown, ends, outside>>

Goto(s, l) == visit' = [visit EXCEPT ![s] = l]
Show(step, s) == shown' = [shown EXCEPT ![mode] = @ \cup {<<step, s>>}]
IsProvider(s) == s = "mq" /\ project.provider
Ready(s) == visit[s] = "todo" /\ \A d \in DependsOn(s) : visit[d] = "done"

(* The id of the network: the dry run only pretends to remove one that is  *)
(* no longer as declared, and NetworkList finds it again.                  *)
Network == IF project.network = {} \/ mode = "dry" THEN "n1" ELSE "n2"
MustRecreate(c) ==
  \/ c.service \in project.changed
  \/ c.state = "running" /\ c.service \in project.network /\ c.network # Network

Provide(s) ==
  /\ Runs("create") /\ Ready(s) /\ IsProvider(s)
  /\ outside' = outside \cup {"provider"}
  /\ Goto(s, "done")
  /\ UNCHANGED <<project, mode, phase, engine, listed, observed, seen, lost, shown, ends>>

Current(s) ==
  /\ Runs("create") /\ Ready(s)
  /\ Of(observed, s) # {} /\ \A c \in Of(observed, s) : ~MustRecreate(c)
  /\ Goto(s, "done")
  /\ UNCHANGED <<project, mode, phase, engine, listed, observed, seen, lost, shown, ends, outside>>

Create(s) ==
  /\ Runs("create") /\ Ready(s) /\ ~IsProvider(s)
  /\ Of(observed, s) = {}
  /\ Show("create", s) /\ Goto(s, "new")
  /\ UNCHANGED <<project, mode, phase, engine, listed, observed, seen, lost, ends, outside>>

(* recreateContainer, after stopDependentContainers.                       *)
Dependents(s) == IF project.restart /\ s = "db" THEN {"web"} ELSE {}
Recreate(s) ==
  /\ Runs("create") /\ Ready(s)
  /\ \E c \in Of(observed, s) : MustRecreate(c)
  /\ engine' = Done({Stopped(c, Dependents(s)) : c \in engine} \ Of(engine, s))
  /\ observed' = {Stopped(c, Dependents(s)) : c \in observed}
  /\ Show("recreate", s) /\ Goto(s, "new")
  /\ UNCHANGED <<project, mode, phase, listed, seen, lost, ends, outside>>

(* ContainerCreate; in the dry run it appends to the list, without a lock. *)
New(s) == Container(s, "new", "created", Network)

CreateReal(s) ==
  /\ Runs("create") /\ visit[s] = "new" /\ mode = "real"
  /\ engine' = engine \cup {New(s)}
  /\ Goto(s, "done")
  /\ UNCHANGED <<project, mode, phase, listed, observed, seen, lost, shown, ends, outside>>

ReadList(s) ==
  /\ Runs("create") /\ visit[s] = "new" /\ mode = "dry"
  /\ seen' = [seen EXCEPT ![s] = listed]
  /\ Goto(s, "append")
  /\ UNCHANGED <<project, mode, phase, engine, listed, observed, lost, shown, ends, outside>>

AppendToList(s) ==
  /\ Runs("create") /\ visit[s] = "append"
  /\ listed' = seen[s] \cup {New(s)}
  /\ seen' = [seen EXCEPT ![s] = {}]
  /\ lost' = (lost \/ listed # seen[s])
  /\ Goto(s, "done")
  /\ UNCHANGED <<project, mode, phase, engine, observed, shown, ends, outside>>

----------------------------------------------------------------------------
(* start.                                                                  *)
BeginStart ==
  /\ Runs("create") /\ \A s \in Services : visit[s] = "done"
  /\ observed' = ListForStart
  /\ visit' = Idle /\ phase' = "start"
  /\ UNCHANGED <<project, mode, engine, listed, seen, lost, shown, ends, outside>>

(* waitDependencies.                                                       *)
Waits(s) == s = "web" /\ project.condition # "started"
Exited(s) == \E c \in Of(observed, s) : State(c) = "exited"
Satisfied(s) ==
  Waits(s) => Of(observed, "db") # {} /\ (Exited("db") <=> project.condition = "completed")
Hopeless(s) ==
  Waits(s) /\ (Of(observed, "db") = {} \/ (project.condition = "healthy" /\ Exited("db")))

(* startService.                                                           *)
Startable(s) == {c \in Of(observed, s) : c.state # "running"}

StartService(s) ==
  /\ Runs("start") /\ Ready(s) /\ Satisfied(s)
  /\ IF Startable(s) = {} THEN UNCHANGED shown ELSE Show("start", s)
  /\ engine' = Done({IF c \in Startable(s) THEN [c EXCEPT !.state = "running"] ELSE c : c \in engine})
  /\ Goto(s, "done")
  /\ UNCHANGED <<project, mode, phase, listed, observed, seen, lost, ends, outside>>

(* Then the other mode, if there is one.                                   *)
End(result) ==
  /\ ends' = [ends EXCEPT ![mode] = result]
  /\ mode' = IF mode = "dry" THEN "real" ELSE "over"
  /\ phase' = "prepare" /\ visit' = Idle /\ listed' = {} /\ observed' = {} /\ outside' = {}
  /\ UNCHANGED <<project, engine, seen, lost, shown>>

StartFails == \E s \in Services : Runs("start") /\ Ready(s) /\ Hopeless(s) /\ End("err")

BeginWait ==
  /\ Runs("start") /\ \A s \in Services : visit[s] = "done"
  /\ phase' = "wait"
  /\ UNCHANGED <<project, mode, engine, listed, observed, visit, seen, lost, shown, ends, outside>>

(* up --wait: all of them run, or are healthy.                             *)
WaitEnds ==
  /\ Runs("wait")
  /\ End(IF project.wait /\ \E s \in Services : Exited(s) \/ (~IsProvider(s) /\ Of(observed, s) = {})
         THEN "err" ELSE "ok")

(* The container of db ends, if it is one that should.                     *)
DbExits ==
  /\ mode = "real" /\ project.condition = "completed" /\ phase = "start" /\ visit["db"] = "done"
  /\ \E c \in Of(engine, "db") : c.state = "running" /\ engine' = (engine \ {c}) \cup {[c EXCEPT !.state = "exited"]}
  /\ UNCHANGED <<project, mode, phase, listed, observed, visit, seen, lost, shown, ends, outside>>

Next ==
  \/ Give \/ Prepare \/ Observe \/ BeginStart \/ StartFails \/ BeginWait \/ WaitEnds \/ DbExits
  \/ \E s \in Services :
       Provide(s) \/ Current(s) \/ Create(s) \/ Recreate(s) \/ CreateReal(s) \/ ReadList(s)
         \/ AppendToList(s) \/ StartService(s)

Spec == Init /\ [][Next]_vars

----------------------------------------------------------------------------
(* Variables keep their types.                                             *)
TypeOK ==
  /\ visit \in [Services -> {"todo", "new", "append", "done"}]
  /\ \A c \in engine \cup listed \cup observed : c.service \in Services /\ c.id \in {"old", "new"}
  /\ \A s \in Services : Cardinality(Of(engine, s)) <= 1

Was(s, state) == \E c \in Of(project.containers, s) : c.state = state

(* The dry run shows the steps up then takes.  It leaves out the start of  *)
(* what up has stopped: on a network or volume that is made anew, or with  *)
(* the one it depends on; and of a container that it has lost.  For what   *)
(* up removes with its volume it shows, at most, a recreation.             *)
LeftOut(step, s) ==
  \/ step = "start" /\ s \in project.network /\ Was(s, "running")
  \/ step = "start" /\ s = "web" /\ project.restart
  \/ step = "start" /\ lost
  \/ step \in {"create", "start"} /\ s \in project.volume
ShownInVain(step, s) == step = "recreate" /\ s \in project.volume
StepsAgree ==
  ends.dry = "ok" /\ ends.real = "ok" =>
    /\ \A e \in shown.real \ shown.dry : LeftOut(e[1], e[2])
    /\ \A e \in shown.dry \ shown.real : ShownInVain(e[1], e[2])

(* It ends as up does, if no container it would wait for had exited.       *)
OutcomesAgree ==
  ends.real # "none" =>
    \/ ends.dry = ends.real
    \/ lost \/ \E s \in Services : Was(s, "exited") /\ (project.wait \/ (s = "db" /\ Waits("web")))

(* It waits for ever only for the end of a container that it has not       *)
(* started.                                                                *)
WaitsInVain == Runs("start") /\ mode = "dry" /\ \E s \in Services : Ready(s) /\ ~Satisfied(s) /\ ~Hopeless(s)
EndsUnlessOneShot == WaitsInVain => project.condition = "completed" /\ ~Was("db", "exited")

(* It makes no change but by the commands of providers and models.         *)
NothingChanges == mode = "dry" => engine = project.containers
OutsideOnly == outside # {} => project.provider \/ project.models

DryRunIsRight ==
  TypeOK /\ StepsAgree /\ OutcomesAgree /\ EndsUnlessOneShot /\ NothingChanges /\ OutsideOnly

(* "Use --dry-run flag to test a command without changing your application *)
(* stack state" (docs/reference/compose.md:243).  (Providers and models    *)
(* are run.)                                                               *)
ChangesNothing == mode = "dry" => outside = {}

(* "Dry Run mode shows you all the steps Compose applies when executing a  *)
(* command" (docs/reference/compose.md:244).                               *)
ShowsAllSteps == ends.dry = "ok" /\ ends.real = "ok" => shown.real \subseteq shown.dry

(* A dry run ends.                                                         *)
Ends == ~WaitsInVain
=============================================================================
