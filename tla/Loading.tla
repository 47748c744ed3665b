------------------------------ MODULE Loading -----------------------------
(***************************************************************************)
(* How commands find the project they work on (cmd/compose/compose.go,     *)
(* config.go, pkg/compose/loader.go): from flags, the environment and the  *)
(* compose file, or from the labels of its containers.  A session of       *)
(* commands with the same flags, while the file and the containers may     *)
(* change in between.                                                      *)
(***************************************************************************)
EXTENDS Naturals, FiniteSets

CONSTANT MaxCommands \* Bound: commands of the session

VARIABLES
  flags,      \* -p is given; "none", "file" or "remote" for -f; --profile is given
  around,     \* COMPOSE_PROJECT_NAME in the shell, and in the .env beside the file;
              \* the commands run below the directory of the project; what
              \* durablecompose.toml there is; DOCKER_DEFAULT_PLATFORM is set
  composeFile,\* It has a name, cannot be loaded, has an env_file
  invoked,    \* The command and the services it names
  processEnv, \* COMPOSE_PROJECT_NAME in the process
  target,     \* The name of the project it works on
  loaded,     \* The services of the project it has loaded
  made,       \* Containers
  affected,   \* Services whose containers the command has stopped or started
  printed,    \* What it prints of each service
  ending,     \* "none", "ok" or "err"
  commands,   \* Commands so far
  disturbed   \* The file or the containers have changed

vars == <<flags, around, composeFile, invoked, processEnv, target, loaded, made,
          affected, printed, ending, commands, disturbed>>

(* web depends on db; tool has a profile.                                  *)
Services == {"web", "db", "tool"}
Profiled == {"tool"}
DependsOn(s) == IF s = "web" THEN {"db"} ELSE {}
Closure(S) == S \cup UNION {DependsOn(s) : s \in S}

Nothing == <<>>
Idle    == [verb |-> "none", services |-> {}]
(* No project has been loaded, only a name.                                *)
NoProject == {"no project"}

Init ==
  /\ flags = [name |-> FALSE, files |-> "none", profile |-> FALSE]
  /\ around = [shell |-> FALSE, dotEnv |-> FALSE, below |-> FALSE, toml |-> "none",
               platform |-> FALSE]
  /\ composeFile = [name |-> FALSE, broken |-> FALSE, envFile |-> FALSE]
  /\ invoked = Idle /\ processEnv = "" /\ target = "" /\ loaded = NoProject
  /\ made = {} /\ affected = {} /\ printed = Nothing /\ ending = "none"
  /\ commands = 0 /\ disturbed = FALSE

(* All that the name comes from, or all that the services come from.       *)
Choose ==
  /\ commands = 0 /\ invoked = Idle
  /\ \/ /\ flags' \in [name : BOOLEAN, files : {"none", "file", "remote"}, profile : {FALSE}]
        /\ around' \in [shell : BOOLEAN, dotEnv : BOOLEAN, below : BOOLEAN,
                        toml : {"none"}, platform : {FALSE}]
        /\ composeFile' \in [name : BOOLEAN, broken : {FALSE}, envFile : {FALSE}]
     \/ /\ flags' \in [name : BOOLEAN, files : {"none"}, profile : BOOLEAN]
        /\ around' \in [shell : {FALSE}, dotEnv : {FALSE}, below : {FALSE},
                        toml : {"none", "good", "bad"}, platform : BOOLEAN]
        /\ composeFile' \in [name : BOOLEAN, broken : {FALSE}, envFile : BOOLEAN]
  /\ commands' = 1
  /\ UNCHANGED <<invoked, processEnv, target, loaded, made, affected, printed, ending, disturbed>>

----------------------------------------------------------------------------
(* setEnvWithDotEnv, before every command: the variables of a .env that    *)
(* are for compose become those of the process, but not for a remote file. *)
(* The directory is that of -f, or the current one.                        *)
SetEnvWithDotEnv ==
  IF around.shell THEN "shell"
  ELSE IF around.dotEnv /\ (flags.files = "file" \/ (flags.files = "none" /\ ~around.below))
       THEN "dotenv" ELSE ""

(* No command is running.                                                  *)
Between == invoked = Idle \/ ending # "none"

(* The command line is read.                                               *)
Invoke ==
  /\ commands \in 1..MaxCommands /\ Between
  /\ \E verb \in {"up", "start", "stop", "exec", "config", "model", "hash"},
        named \in {{}, {"web"}, {"tool"}} :
       /\ verb = "exec" => named = {"web"}
       /\ verb = "model" => named = {}
       /\ invoked' = [verb |-> verb, services |-> named]
  /\ processEnv' = SetEnvWithDotEnv
  /\ commands' = commands + 1
  /\ target' = "" /\ loaded' = NoProject /\ affected' = {} /\ printed' = Nothing
  /\ ending' = "none"
  /\ UNCHANGED <<flags, around, composeFile, made, disturbed>>

(* The name NewProjectOptions and the loader settle on, for a directory    *)
(* whose .env says dotEnv: the environment always wins.                    *)
NameFrom(dotEnv, directory) ==
  IF flags.name THEN "flag"
  ELSE IF processEnv # "" THEN processEnv
  ELSE IF dotEnv THEN "dotenv"
  ELSE IF composeFile.name THEN "file"
  ELSE directory

ProjectName == NameFrom(around.dotEnv, "directory")

(* WithServicesEnabled, WithSelectedServices.                              *)
Enabled(S)  == (Services \ Profiled) \cup S \cup (IF flags.profile THEN Profiled ELSE {})
Selected(S) == IF S = {} THEN Enabled(S) ELSE Closure(S)

(* LoadProject (buildProjectOptions, postProcessProject), for the services *)
(* S.                                                                      *)
LoadProject(S) ==
  /\ ~composeFile.broken
  /\ target' = ProjectName
  /\ loaded' = Selected(S)

Fails == ending' = "err" /\ UNCHANGED invoked
Ends  == ending' = "ok" /\ UNCHANGED invoked
Fixed == UNCHANGED <<flags, around, composeFile, processEnv, commands, disturbed>>

Of(verbs) == invoked.verb \in verbs /\ target = "" /\ ending = "none"

(* WithServices, and what the subcommands of config do: a project, or an   *)
(* error.  hash, like services, volumes and networks, loads all of it.     *)
WithServices ==
  /\ Of({"up", "config", "hash"})
  /\ IF composeFile.broken THEN Fails /\ UNCHANGED <<target, loaded>>
     ELSE LoadProject(IF invoked.verb = "hash" THEN {} ELSE invoked.services)
          /\ UNCHANGED <<invoked, ending>>
  /\ UNCHANGED <<made, affected, printed>> /\ Fixed

BugProjectOrName ==
  /\ Of({"start", "stop"})
  /\ \/ /\ flags.name /\ flags.files = "none"
        /\ target' = "flag" /\ UNCHANGED <<loaded, invoked, ending>>
     \/ /\ ~(flags.name /\ flags.files = "none")
        /\ LoadProject(invoked.services) /\ UNCHANGED <<invoked, ending>>
     \/ /\ ~(flags.name /\ flags.files = "none") /\ composeFile.broken
        /\ target' = "directory" /\ UNCHANGED <<loaded, invoked, ending>>
  /\ UNCHANGED <<made, affected, printed>> /\ Fixed

(* projectOrName.  With a name and no file nothing is loaded; when a load  *)
(* fails the environment may still tell the name.                          *)
ProjectOrName ==
  /\ Of({"start", "stop"})
  /\ \/ /\ flags.name /\ flags.files = "none"
        /\ target' = "flag" /\ UNCHANGED <<loaded, invoked, ending>>
     \/ /\ ~(flags.name /\ flags.files = "none")
        /\ LoadProject(invoked.services) /\ UNCHANGED <<invoked, ending>>
     \/ /\ ~(flags.name /\ flags.files = "none") /\ composeFile.broken /\ processEnv # ""
        /\ target' = processEnv /\ UNCHANGED <<loaded, invoked, ending>>
     \/ /\ ~(flags.name /\ flags.files = "none") /\ composeFile.broken /\ processEnv = ""
        /\ Fails /\ UNCHANGED <<target, loaded>>
  /\ UNCHANGED <<made, affected, printed>> /\ Fixed

(* toProjectName.                                                          *)
ToProjectName ==
  /\ Of({"exec"})
  /\ \/ flags.name /\ target' = "flag" /\ UNCHANGED <<loaded, invoked, ending>>
     \/ ~flags.name /\ processEnv # "" /\ target' = processEnv
        /\ UNCHANGED <<loaded, invoked, ending>>
     \/ ~flags.name /\ processEnv = "" /\ LoadProject({}) /\ UNCHANGED <<invoked, ending>>
     \/ ~flags.name /\ processEnv = "" /\ composeFile.broken /\ Fails
        /\ UNCHANGED <<target, loaded>>
  /\ UNCHANGED <<made, affected, printed>> /\ Fixed

(* ToModel (config --no-interpolate, --variables, the prompt for remote    *)
(* files): the only one to read durablecompose.toml.  Its work_dir, taken  *)
(* to be another directory, is where the files are looked for; its name is *)
(* set and then replaced by that of -p, even when there is none.           *)
ToModel ==
  /\ Of({"model"})
  /\ IF composeFile.broken \/ (around.toml = "good" /\ flags.files = "none")
     THEN Fails /\ UNCHANGED <<target, loaded>>
     ELSE /\ target' = (IF around.toml = "good" THEN NameFrom(FALSE, "work_dir") ELSE ProjectName)
          /\ loaded' = Services /\ Ends
  /\ UNCHANGED <<made, affected, printed>> /\ Fixed

----------------------------------------------------------------------------
(* A service as it is hashed or shown: its environment with that of its    *)
(* env_file or without, its platform.                                      *)
Defined(resolved, platforms) ==
  [env |-> composeFile.envFile /\ resolved, declares |-> composeFile.envFile /\ ~resolved,
   platform |-> around.platform /\ platforms]

At(verbs) == invoked.verb \in verbs /\ target # "" /\ ending = "none"

(* up: containers are made or replaced; the hash in their labels is of the *)
(* service with its environment resolved and its platform applied.         *)
Up ==
  /\ At({"up"})
  /\ made' = {c \in made : c.project # target \/ c.service \notin loaded}
             \cup {[project |-> target, service |-> s, hash |-> Defined(TRUE, TRUE)] : s \in loaded}
  /\ affected' = loaded /\ Ends
  /\ UNCHANGED <<target, loaded, printed>> /\ Fixed

Existing == {c.service : c \in {x \in made : x.project = target}}

(* What projectFromName puts together from labels: services, with the      *)
(* dependencies that were selected when they were made, all of them taken  *)
(* to be required.  getProjectWithResources makes them optional.           *)
ProjectFromName == Existing

(* stop (and down, kill, restart): containers of the services named, or of *)
(* all services of the project.                                            *)
Stop ==
  /\ At({"stop"})
  /\ LET project == IF loaded = NoProject THEN ProjectFromName ELSE loaded
         chosen  == IF invoked.services = {} THEN project ELSE invoked.services
     IN  affected' = Existing \cap project \cap chosen
  /\ Ends /\ UNCHANGED <<target, loaded, made, printed>> /\ Fixed

(* start, from a project: services without a container are passed over     *)
(* unless there is none at all (startService counts those of the project). *)
StartProject ==
  /\ At({"start"}) /\ loaded # NoProject
  /\ IF Existing = {} THEN Fails /\ UNCHANGED affected
     ELSE affected' = Existing \cap loaded /\ Ends
  /\ UNCHANGED <<target, loaded, made, printed>> /\ Fixed

BugStartFromName ==
  /\ At({"start"}) /\ loaded = NoProject
  /\ IF Existing = {} \/ ~ invoked.services \subseteq ProjectFromName
     THEN Fails /\ UNCHANGED affected
     ELSE affected' = (IF invoked.services = {} THEN Existing ELSE invoked.services) /\ Ends
  /\ UNCHANGED <<target, loaded, made, printed>> /\ Fixed

(* start, from a name: without a container there is no such project, no    *)
(* such service, and no such dependency.                                   *)
StartFromName ==
  /\ At({"start"}) /\ loaded = NoProject
  /\ LET project == ProjectFromName
         chosen  == IF invoked.services = {} THEN project ELSE Closure(invoked.services)
     IN  IF project = {} \/ ~ Closure(chosen) \subseteq project
         THEN Fails /\ UNCHANGED affected
         ELSE affected' = Existing \cap chosen /\ Ends
  /\ UNCHANGED <<target, loaded, made, printed>> /\ Fixed

(* exec works on the container of the service, with the name alone.        *)
Exec ==
  /\ At({"exec"})
  /\ IF invoked.services \subseteq Existing
     THEN affected' = invoked.services /\ Ends
     ELSE Fails /\ UNCHANGED affected
  /\ UNCHANGED <<target, loaded, made, printed>> /\ Fixed

(* config: environments are resolved, platforms not applied.               *)
Config ==
  /\ At({"config"})
  /\ printed' = [s \in loaded |-> Defined(TRUE, FALSE)]
  /\ Ends /\ UNCHANGED <<target, loaded, made, affected>> /\ Fixed

BugHash ==
  /\ At({"hash"})
  /\ printed' = [s \in (IF invoked.services = {} THEN loaded ELSE invoked.services \cap loaded) |->
                   Defined(FALSE, FALSE)]
  /\ Ends /\ UNCHANGED <<target, loaded, made, affected>> /\ Fixed

(* config --hash: platforms are applied, environments not resolved.        *)
Hash ==
  /\ At({"hash"})
  /\ IF invoked.services \subseteq loaded
     THEN /\ printed' = [s \in (IF invoked.services = {} THEN loaded ELSE invoked.services) |->
                           Defined(FALSE, TRUE)]
          /\ Ends
     ELSE Fails /\ UNCHANGED printed
  /\ UNCHANGED <<target, loaded, made, affected>> /\ Fixed

----------------------------------------------------------------------------
(* Between two commands somebody edits the file or removes a container.    *)
Edit ==
  /\ Between /\ commands > 0 /\ ~disturbed
  /\ \/ composeFile' = [composeFile EXCEPT !.broken = TRUE] /\ UNCHANGED made
     \/ composeFile' = [composeFile EXCEPT !.envFile = ~@] /\ UNCHANGED made
     \/ \E c \in made : made' = made \ {c} /\ UNCHANGED composeFile
  /\ disturbed' = TRUE
  /\ invoked' = Idle /\ target' = "" /\ loaded' = NoProject /\ affected' = {}
  /\ printed' = Nothing /\ ending' = "none"
  /\ UNCHANGED <<flags, around, processEnv, commands>>

Next ==
  \/ Choose \/ Invoke \/ WithServices \/ ProjectOrName \/ ToProjectName \/ ToModel
  \/ Up \/ Stop \/ StartProject \/ StartFromName \/ Exec \/ Config \/ Hash \/ Edit

Spec == Init /\ [][Next]_vars

----------------------------------------------------------------------------
(* The name as docs/reference/compose.md has it.                           *)
DocumentedName ==
  IF flags.name THEN "flag"
  ELSE IF around.shell THEN "shell"
  ELSE IF around.dotEnv THEN "dotenv"
  ELSE IF composeFile.name THEN "file"
  ELSE "directory"

(* A command works on the project that its flags and environment name      *)
(* (cmd/compose/compose.go, projectOrName).  Not so when -p and -f are     *)
(* given and the file cannot be loaded.                                    *)
NameIsGiven == target # "" => target = DocumentedName

(* All commands of a session work on one project, whichever way they find  *)
(* its name (projectOrName, toProjectName, ToModel, LoadProject): but for  *)
(* -p with a broken file, and for a work_dir in durablecompose.toml.       *)
SameProject ==
  \/ flags.name /\ flags.files # "none" /\ composeFile.broken
  \/ around.toml = "good" /\ loaded = Services
  \/ NameIsGiven

(* start by name starts what start from the file would, and what has a     *)
(* profile; it is refused only if what it is to start is not there (start, *)
(* projectFromName).  Not so when a container has been removed: the labels *)
(* do not say that a dependency is optional.                               *)
StartsTheSame ==
  (invoked.verb = "start" /\ loaded = NoProject /\ ~disturbed) =>
    /\ ending = "ok" =>
         /\ Existing \cap Selected(invoked.services) \subseteq affected
         /\ affected \subseteq Selected(invoked.services) \cup Profiled
    /\ ending = "err" => Existing = {} \/ ~ invoked.services \subseteq Existing

(* stop stops every container of the services of the project that are      *)
(* enabled, found by the file or by their labels (stop).                   *)
StopsAll ==
  (invoked.verb = "stop" /\ ending = "ok" /\ invoked.services = {}) =>
    Existing \cap Enabled({}) \subseteq affected

(* config --hash tells the containers that up will replace from those it   *)
(* will not: unless the service has an env_file, which is hashed only once *)
(* it is resolved (config.go, runHash).                                    *)
HashIsLabel ==
  (invoked.verb = "hash" /\ ending = "ok" /\ ~composeFile.envFile) =>
    \A c \in made : c.project = target /\ c.service \in DOMAIN printed =>
      (printed[c.service] = c.hash <=> c.hash = Defined(TRUE, TRUE))

LoadingIsRight == SameProject /\ StartsTheSame /\ StopsAll /\ HashIsLabel
===========================================================================
