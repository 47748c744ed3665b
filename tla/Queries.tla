------------------------------ MODULE Queries ------------------------------
(***************************************************************************)
(* What the commands that only look show: ps, images, top, port, volumes   *)
(* and ls of projects, and generate.  Most list containers first and then  *)
(* ask for each of them, concurrently, while the engine goes on.           *)
(***************************************************************************)
EXTENDS Integers, SequencesExt

CONSTANTS MaxChanges,  \* Of the engine, while a question is asked
          Queried      \* How many of the first containers come in any state

VARIABLES
  engine,    \* Of each container: state, exit code, health, image
  tag,       \* The image that has the name of web's image
  question,  \* What is asked
  asking,    \* "none", "list", "inspect", "done" or "error"
  inventory, \* The containers listed, as they were
  asked,     \* Those that are still to be inspected
  answer,    \* What is shown
  moved,     \* Changes since the list
  firstList  \* generate: what the first of its two lists has found

vars == <<engine, tag, question, asking, inventory, asked, answer, moved, firstList>>

(* Two replicas of web, a one-off container of web, and db, all of the     *)
(* project; a container of another project, and one not made by compose.   *)
Ids == {"w1", "w2", "run", "db", "other", "plain"}
Project(i) == CASE i = "other" -> "other" [] i = "plain" -> "" [] OTHER -> "app"
Service(i) == CASE i \in {"w1", "w2", "run"} -> "web" [] i = "plain" -> "" [] OTHER -> "db"
OneOff(i)  == i = "run"
Number(i)  == IF i = "w2" THEN 2 ELSE 1
Mounts(i)  == CASE i \in {"w1", "w2"} -> {"data", "secret"} [] i = "db" -> {"store"} [] OTHER -> {}
Secrets    == {"secret"}
ProjectVolumes == {"data", "store", "unused"}
Networks(i) == IF i = "w2" THEN {"default", "extra"} ELSE {"default"}
Titles(i) == CASE i = "w1"  -> <<"PID", "CMD">>
               [] i = "w2"  -> <<"PID", "CMD", "TIME">>
               [] i = "run" -> <<"UID", "CMD">>
               [] OTHER     -> <<"CMD", "UID">>
ByName == <<"db", "run", "w1", "w2">>

Up   == [state |-> "running", code |-> 0, health |-> "starting", image |-> 1]
Down == [state |-> "exited", code |-> 1, health |-> "", image |-> 1]
Gone == [state |-> "none", code |-> 0, health |-> "", image |-> 1]

Exists(i)  == engine[i].state # "none"
Runs(i) == engine[i].state = "running"

NoQuestion == [verb |-> "none"]

Questions ==
  [verb : {"ps"}, all : BOOLEAN, status : {"", "exited"}, services : {{}, {"web"}, {"web", "db"}}]
  \cup [verb : {"images", "top", "volumes"}, services : {{}, {"web"}}]
  \cup [verb : {"port"}, index : 0 .. 2]
  \cup [verb : {"ls"}, all : BOOLEAN]
  \cup [verb : {"generate"}, named : {{}, {"w1"}, {"w1", "w2", "plain"}},
        byId : {{}, {"w1"}, {"w2", "db"}}]

Init ==
  /\ engine = [i \in Ids |-> Up] /\ tag = 1
  /\ question = NoQuestion /\ asking = "none"
  /\ inventory = <<>> /\ asked = {} /\ answer = <<>> /\ moved = 0 /\ firstList = {}

----------------------------------------------------------------------------
(* The engine, between two calls: what is still to be seen changes.        *)
ChangesOf(i) ==
  CASE engine[i] = Gone -> {}
    [] Runs(i)       -> {Gone, [Down EXCEPT !.image = engine[i].image],
                            [engine[i] EXCEPT !.health = "healthy"]}
    [] OTHER            -> {Gone, [Up EXCEPT !.image = engine[i].image]}

Change ==
  /\ asking \in {"ids", "inspect"} /\ moved < MaxChanges
  /\ \/ \E i \in (IF asking = "ids" THEN question.byId ELSE asked) :
          \E c \in ChangesOf(i) : engine' = [engine EXCEPT ![i] = c] /\ UNCHANGED tag
     \/ question.verb = "images" /\ tag' = tag + 1 /\ UNCHANGED engine
  /\ moved' = moved + 1
  /\ UNCHANGED <<question, asking, inventory, asked, answer, firstList>>

Choose ==
  /\ asking = "none"
  /\ \E e \in [{"w1", "w2", "run"} -> {Up, Down, Gone}], d \in {Up, Down}, t \in {1, 2} :
       /\ \A i \in DOMAIN e : Number(i) > Queried => e[i] = Up
       /\ engine' = [engine EXCEPT !["w1"] = e["w1"], !["w2"] = e["w2"], !["run"] = e["run"],
                                   !["db"] = d]
       /\ tag' = t
  /\ question' \in Questions
  /\ asking' = "list"
  /\ UNCHANGED <<inventory, asked, answer, moved, firstList>>

----------------------------------------------------------------------------
(* getContainers: the project's, running or all of them, with or without   *)
(* those of run.                                                           *)
GetContainers(oneOffs, all, services) ==
  {i \in Ids : /\ Project(i) = "app" /\ Exists(i)
               /\ all \/ Runs(i)
               /\ oneOffs \/ ~OneOff(i)
               /\ services = {} \/ Service(i) \in services}

PsAll == question.all \/ question.status # ""

Listing ==
  CASE question.verb = "ps"      -> GetContainers(question.all \/ question.status # "",
                                                  PsAll, question.services)
    [] question.verb = "top"     -> GetContainers(TRUE, FALSE, question.services)
    [] question.verb = "images"  -> GetContainers(TRUE, TRUE, question.services)

(* What a list says of a container: its image is named by the tag while    *)
(* the tag is on it, else by its id.                                       *)
Summary(i) == [state |-> engine[i].state,
               image |-> IF engine[i].image = tag THEN "tag" ELSE "id", of |-> engine[i].image]

List ==
  /\ asking = "list" /\ question.verb \in {"ps", "top", "images"}
  /\ inventory' = [i \in Listing |-> Summary(i)]
  /\ asked' = Listing /\ asking' = "inspect" /\ moved' = 0
  /\ UNCHANGED <<engine, tag, question, answer, firstList>>

----------------------------------------------------------------------------
BugPsInspect(i) == [state |-> inventory[i].state, code |-> engine[i].code,
                    health |-> IF inventory[i].state = "running" THEN "healthy" ELSE ""]

(* Ps: the state is the listed one, health and exit code are those of now. *)
PsInspect(i) == [state |-> inventory[i].state,
                 code |-> IF Runs(i) THEN 0 ELSE engine[i].code,
                 health |-> IF Runs(i) THEN engine[i].health ELSE ""]

(* Images asks by the name that was listed.                                *)
ImagesInspect(i) == IF inventory[i].image = "tag" THEN tag ELSE inventory[i].of

(* An engine does not inspect what is gone, nor lists the processes of     *)
(* what does not run; one failure fails the command.                       *)
Inspect(i) ==
  /\ asking = "inspect" /\ i \in asked /\ question.verb # "generate"
  /\ IF question.verb = "images" \/ (Exists(i) /\ (question.verb = "top" => Runs(i)))
     THEN /\ answer' = answer @@ (i :> CASE question.verb = "ps"     -> PsInspect(i)
                                         [] question.verb = "images" -> ImagesInspect(i)
                                         [] question.verb = "top"    -> Titles(i))
          /\ UNCHANGED asking
     ELSE asking' = "error" /\ UNCHANGED answer
  /\ asked' = asked \ {i}
  /\ UNCHANGED <<engine, tag, question, inventory, moved, firstList>>

(* collectTop: columns in the order in which titles are met.               *)
AddTitle(header, title) ==
  IF title \in DOMAIN header THEN header
  ELSE header @@ (title :> Cardinality(DOMAIN header))

Header(rows) ==
  FoldLeft(LAMBDA h, i : FoldLeft(AddTitle, h, rows[i]),
           "SERVICE" :> 0 @@ "#" :> 1,
           SelectSeq(ByName, LAMBDA i : i \in DOMAIN rows))

BugCmdLast(header) ==
  [t \in DOMAIN header |-> IF t = "CMD" THEN Cardinality(DOMAIN header) - 1 ELSE header[t]]

(* CMD goes to the right end.                                              *)
CmdLast(header) ==
  [t \in DOMAIN header |->
     IF "CMD" \notin DOMAIN header THEN header[t]
     ELSE IF t = "CMD" THEN Cardinality(DOMAIN header) - 1
     ELSE IF header[t] > header["CMD"] THEN header[t] - 1 ELSE header[t]]

(* runPs keeps the containers of the state asked for, as it was listed.    *)
Shown ==
  CASE question.verb = "ps" ->
         [i \in {j \in DOMAIN answer : question.status \in {"", answer[j].state}} |-> answer[i]]
    [] question.verb = "top" -> [header |-> CmdLast(Header(answer)), rows |-> answer]
    [] OTHER -> answer

Show ==
  /\ asking = "inspect" /\ asked = {} /\ question.verb # "generate"
  /\ answer' = Shown /\ asking' = "done"
  /\ UNCHANGED <<engine, tag, question, inventory, asked, moved, firstList>>

----------------------------------------------------------------------------
(* getSpecifiedContainer: among the running containers of the service, the *)
(* one asked for, else the first of the service, else one of run.          *)
Before(i, j) == IF OneOff(i) \/ OneOff(j) THEN ~OneOff(i) /\ OneOff(j) ELSE Number(i) < Number(j)
Port ==
  /\ asking = "list" /\ question.verb = "port"
  /\ LET running == {i \in GetContainers(TRUE, FALSE, {"web"}) :
                       question.index \in {0, Number(i)}}
     IN  \/ /\ running = {} /\ asking' = "error" /\ UNCHANGED answer
         \/ \E i \in running : /\ \A j \in running : ~Before(j, i)
                               /\ answer' = {i} /\ asking' = "done"
  /\ moved' = 0
  /\ UNCHANGED <<engine, tag, question, inventory, asked, firstList>>

(* volumes: those of the project, or those of them that are mounted in     *)
(* containers of the services that run; these are listed first.            *)
VolumesContainers ==
  /\ asking = "list" /\ question.verb = "volumes"
  /\ inventory' = [i \in {j \in Ids : /\ Project(j) = "app" /\ Runs(j)
                                      /\ Service(j) \in question.services} |-> Summary(i)]
  /\ asking' = "volumes" /\ moved' = 0
  /\ UNCHANGED <<engine, tag, question, asked, answer, firstList>>
Volumes ==
  /\ asking = "volumes"
  /\ answer' = (IF question.services = {} THEN ProjectVolumes
                ELSE ProjectVolumes \cap UNION {Mounts(i) : i \in DOMAIN inventory})
  /\ asking' = "done"
  /\ UNCHANGED <<engine, tag, question, inventory, asked, moved, firstList>>

BugCombined(listed, project) ==
  [s \in {engine[i].state : i \in listed} |-> Cardinality({i \in listed : engine[i].state = s})]

(* containersToStacks, combinedStatus: how many containers of each project *)
(* are in each state.                                                      *)
Combined(listed, project) ==
  LET group == {i \in listed : Project(i) = project}
  IN  [s \in {engine[i].state : i \in group} |-> Cardinality({i \in group : engine[i].state = s})]

Ls ==
  /\ asking = "list" /\ question.verb = "ls"
  /\ LET listed == {i \in Ids : Project(i) # "" /\ Exists(i) /\ (question.all \/ Runs(i))}
     IN  answer' = [p \in {Project(i) : i \in listed} |-> Combined(listed, p)]
  /\ asking' = "done" /\ moved' = 0
  /\ UNCHANGED <<engine, tag, question, inventory, asked, firstList>>

----------------------------------------------------------------------------
(* Generate: two lists, by name and by id, then an inspection of each.     *)
ByNames ==
  /\ asking = "list" /\ question.verb = "generate"
  /\ firstList' = {i \in question.named : Exists(i)}
  /\ asking' = "ids" /\ moved' = 0
  /\ UNCHANGED <<engine, tag, question, inventory, asked, answer>>

EmptyProject == [services |-> <<>>, volumes |-> {}, secrets |-> {}, networks |-> {}]

ByIds ==
  /\ asking = "ids"
  /\ asked' = firstList \cup {i \in question.byId : Exists(i)}
  /\ inventory' = [i \in asked' |-> Summary(i)]
  /\ IF asked' = {} THEN asking' = "error" /\ UNCHANGED answer
                    ELSE asking' = "inspect" /\ answer' = EmptyProject
  /\ UNCHANGED <<engine, tag, question, moved, firstList>>

Label(i) == IF Service(i) = "" THEN i ELSE Service(i)

NewService == [scale |-> 0, mounts |-> <<>>, networks |-> {}, cleaned |-> FALSE]

BugExtract(service, i) ==
  [service EXCEPT !.scale = 1, !.mounts = @ \o SetToSeq(Mounts(i)), !.networks = Networks(i),
                  !.cleaned = TRUE]

(* extractComposeConfiguration: mounts are added to those of the other     *)
(* replicas, networks replace them.                                        *)
Extract(service, i) ==
  [service EXCEPT !.scale = @ + 1, !.mounts = @ \o SetToSeq(Mounts(i)), !.networks = Networks(i),
                  !.cleaned = TRUE]

(* createProjectFromContainers: what cannot be inspected is counted only.  *)
Generate(i) ==
  /\ asking = "inspect" /\ i \in asked /\ question.verb = "generate"
  /\ LET l == Label(i)
         known == IF l \in DOMAIN answer.services THEN answer.services[l] ELSE NewService
     IN  answer' =
           IF Exists(i)
           THEN [services |-> (l :> Extract(known, i)) @@ answer.services,
                 volumes  |-> answer.volumes \cup (Mounts(i) \ Secrets),
                 secrets  |-> answer.secrets \cup (Mounts(i) \cap Secrets),
                 networks |-> answer.networks \cup Networks(i)]
           ELSE [answer EXCEPT !.services = (l :> [known EXCEPT !.scale = @ + 1]) @@ @]
  /\ asked' = asked \ {i}
  /\ asking' = IF asked' = {} THEN "done" ELSE "inspect"
  /\ UNCHANGED <<engine, tag, question, inventory, moved, firstList>>

Next ==
  \/ Choose \/ Change \/ List \/ Show \/ Port \/ VolumesContainers \/ Volumes \/ Ls
  \/ ByNames \/ ByIds
  \/ \E i \in Ids : Inspect(i) \/ Generate(i)

Spec == Init /\ [][Next]_vars

----------------------------------------------------------------------------
Answered(verb) == asking = "done" /\ question.verb = verb

(* An answer has every container that was listed, whatever has happened    *)
(* since; there are no gaps (Ps, Images, Top).                             *)
NothingMissing ==
  /\ Answered("ps") => \A i \in DOMAIN inventory :
       question.status \in {"", inventory[i].state} => i \in DOMAIN answer
  /\ Answered("images") => DOMAIN answer = DOMAIN inventory
  /\ Answered("top") => DOMAIN answer.rows = DOMAIN inventory

(* While nothing changes the state, the health, the exit code and the      *)
(* image shown are those of the container (Ps, Images).                    *)
ShownAsIs ==
  moved = 0 =>
    /\ Answered("ps") => \A i \in DOMAIN answer :
         /\ answer[i].state = engine[i].state /\ answer[i].code = engine[i].code
         /\ answer[i].health = engine[i].health
    /\ Answered("images") => \A i \in DOMAIN answer : answer[i] = engine[i].image

(* The columns of top are numbered without gaps, CMD is the last, and each *)
(* title of each container has one (collectTop, topPrint).                 *)
ColumnsAreRight ==
  Answered("top") =>
    LET h == answer.header
    IN  /\ {h[t] : t \in DOMAIN h} = 0 .. (Cardinality(DOMAIN h) - 1)
        /\ "CMD" \in DOMAIN h => \A t \in DOMAIN h : h[t] <= h["CMD"]
        /\ \A i \in DOMAIN answer.rows : ToSet(answer.rows[i]) \subseteq DOMAIN h

(* port and exec act on a container of run only when none of the service   *)
(* runs (getSpecifiedContainer).                                           *)
ServiceComesFirst ==
  (Answered("port") /\ moved = 0) =>
    \A i \in answer : /\ Runs(i)
                      /\ (question.index = 0 /\ OneOff(i)) => ~Runs("w1") /\ ~Runs("w2")

(* ls counts each container once, in its project (combinedStatus).         *)
CountsAddUp ==
  (Answered("ls") /\ moved = 0) =>
    \A p \in DOMAIN answer : \A s \in DOMAIN answer[p] :
      answer[p][s] = Cardinality({i \in Ids : Project(i) = p /\ engine[i].state = s})

(* What generate writes has a replica for each container, found by name,   *)
(* by id or by both, and defines all that its services use (Generate).     *)
GeneratedIsWhole ==
  Answered("generate") =>
    \A l \in DOMAIN answer.services :
      /\ answer.services[l].scale = Cardinality({i \in DOMAIN inventory : Label(i) = l})
      /\ ToSet(answer.services[l].mounts) \subseteq answer.volumes \cup answer.secrets
      /\ answer.services[l].networks \subseteq answer.networks

QueriesAreRight ==
  /\ NothingMissing /\ ShownAsIs /\ ColumnsAreRight
  /\ ServiceComesFirst /\ CountsAddUp /\ GeneratedIsWhole

(* A mount is written once (toComposeVolumes).  Violated: each replica     *)
(* repeats those of its service.                                           *)
MountsOnce ==
  Answered("generate") => \A l \in DOMAIN answer.services : IsInjective(answer.services[l].mounts)

(* The state and the exit code shown belong to one moment (Ps).  Violated: *)
(* a container that exits meanwhile is shown running, with its exit code.  *)
OneMoment ==
  Answered("ps") => \A i \in DOMAIN answer :
    answer[i].state = "running" => answer[i].code = 0
===========================================================================
