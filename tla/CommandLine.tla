---------------------------- MODULE CommandLine ---------------------------
(***************************************************************************)
(* From the flags of up and create, the environment and the project to the *)
(* call of the engine's layer (cmd/compose/compose.go, up.go, create.go,   *)
(* options.go): a chain of checks, each of which may refuse, and changes   *)
(* to flags and project that later steps rely on.  (Left out: a negative   *)
(* timeout, an empty selection, services that are not to be attached.)     *)
(***************************************************************************)
EXTENDS Naturals, FiniteSets

VARIABLES
  given,   \* Flags, environment, project
  stage,   \* What has been done
  up,      \* Flags of the session, as they have been changed
  display, \* What decides the display: ansi, mode and writer
  limit,   \* Calls at once: "none", "flag" or "environment"
  services,\* The project: build, build.platforms and platform of each
  agreed,  \* What the user has agreed to
  call     \* What is asked of the layer below

vars == <<given, stage, up, display, limit, services, agreed, call>>

(* web depends on db.                                                      *)
ServiceNames == {"web", "db"}

Session == [detach |-> FALSE, noStart |-> FALSE, wait |-> FALSE, cascadeStop |-> FALSE,
            cascadeFail |-> FALSE, exitCodeFrom |-> "", attach |-> {}, attachDependencies |-> FALSE,
            noAttach |-> {}, watch |-> FALSE, named |-> {}, noDeps |-> FALSE, menu |-> FALSE]

Plain == [build |-> FALSE, platforms |-> {}, platform |-> ""]

Given ==
  [verb |-> "up",
   ansi |-> "unset", noAnsi |-> FALSE, envAnsi |-> "unset", noColor |-> FALSE,
   progress |-> "auto", terminal |-> TRUE, parallel |-> FALSE, envParallel |-> "unset",
   workDir |-> FALSE, projectDir |-> FALSE, menu |-> "unset", envMenu |-> "unset",
   session |-> Session,
   build |-> FALSE, noBuild |-> FALSE, forceRecreate |-> FALSE, noRecreate |-> FALSE,
   recreateDeps |-> FALSE, noInherit |-> FALSE, removeOrphans |-> "unset",
   envRemove |-> FALSE, envIgnore |-> FALSE, pull |-> "unset", scale |-> "",
   project |-> [n \in ServiceNames |-> Plain], defaultPlatform |-> "",
   remote |-> FALSE, remoteIncludes |-> FALSE, variables |-> FALSE, yes |-> FALSE]

None == [op |-> "none"]

Init ==
  /\ given = Given /\ stage = "start" /\ up = Session
  /\ display = [ansi |-> "auto", mode |-> "auto", writer |-> "none"]
  /\ limit = "none" /\ services = [n \in ServiceNames |-> Plain] /\ agreed = {} /\ call = None

(* Some of the flags are given.                                            *)
With(some) == [k \in DOMAIN Given |-> IF k \in DOMAIN some THEN some[k] ELSE Given[k]]

(* Flags that concern the display, the calls and the menu, the session,    *)
(* the creation, orphans, the platforms of images, or a remote file; not   *)
(* all of them at once.                                                    *)
DisplayFlags ==
  [ansi : {"unset", "auto", "never", "always"}, noAnsi : BOOLEAN,
   envAnsi : {"unset", "never", "always"}, noColor : BOOLEAN,
   progress : {"auto", "tty", "plain", "quiet", "json", "bad"}, terminal : BOOLEAN]
CallFlags ==
  [parallel : BOOLEAN, envParallel : {"unset", "set", "bad"}, workDir : BOOLEAN,
   projectDir : BOOLEAN, menu : {"unset", "yes", "no"}, envMenu : {"unset", "yes", "no"},
   terminal : BOOLEAN]
SessionFlags ==
  [session : [detach : BOOLEAN, noStart : BOOLEAN, wait : BOOLEAN, cascadeStop : BOOLEAN,
              cascadeFail : BOOLEAN, exitCodeFrom : {"", "db"}, attach : {{}, {"db"}},
              attachDependencies : BOOLEAN, noAttach : {{}, {"db"}}, watch : BOOLEAN,
              named : {{}, {"web"}}, noDeps : BOOLEAN, menu : {FALSE}]]
CreationFlags ==
  [verb : {"up", "create"}, build : BOOLEAN, noBuild : BOOLEAN, forceRecreate : BOOLEAN,
   noRecreate : BOOLEAN, recreateDeps : BOOLEAN, noInherit : BOOLEAN,
   pull : {"unset", "valid", "bad"}, scale : {"", "web", "gone"}]
OrphanFlags ==
  [verb : {"up", "create"}, removeOrphans : {"unset", "yes", "no"}, envRemove : BOOLEAN,
   envIgnore : BOOLEAN]
PlatformFlags ==
  [project : [ServiceNames -> {Plain} \cup [build : {TRUE}, platforms : SUBSET {"amd", "arm"},
                                            platform : {"", "amd", "arm"}]],
   defaultPlatform : {"", "amd"}]
RemoteFlags ==
  [verb : {"up", "create"}, remote : BOOLEAN, remoteIncludes : BOOLEAN, variables : BOOLEAN,
   yes : BOOLEAN]
Flags == {With(f) : f \in DisplayFlags \cup CallFlags \cup SessionFlags \cup CreationFlags
                            \cup OrphanFlags \cup PlatformFlags \cup RemoteFlags}

(* create has fewer flags.                                                 *)
Parse ==
  /\ stage = "start"
  /\ given' \in {f \in Flags : f.verb = "create" => ~f.recreateDeps /\ ~f.noInherit}
  /\ up' = given'.session /\ services' = given'.project
  /\ stage' = "parsed"
  /\ UNCHANGED <<display, limit, agreed, call>>

Refuse == stage' = "refused"

----------------------------------------------------------------------------
(* PersistentPreRunE: what to print with.  The environment counts when     *)
(* --ansi is not given, even against --no-ansi.                            *)
Ansi ==
  IF given.ansi = "unset" /\ given.envAnsi # "unset" THEN given.envAnsi
  ELSE IF given.noAnsi THEN "never"
  ELSE IF given.ansi = "unset" THEN "auto"
  ELSE given.ansi

Writer(ansi) ==
  CASE given.progress = "auto" -> IF ansi = "never" \/ ~given.terminal THEN "plain" ELSE "full"
    [] given.progress = "tty"  -> "full"
    [] OTHER                   -> given.progress

Mode(ansi) ==
  IF given.progress # "auto" THEN given.progress
  ELSE IF ansi = "never" THEN "plain"
  ELSE IF ansi = "always" THEN "tty"
  ELSE "auto"

ChooseDisplay ==
  /\ stage = "parsed"
  /\ IF \/ given.noAnsi /\ given.ansi \notin {"unset", "auto"}
        \/ given.progress = "tty" /\ Ansi = "never"
        \/ given.progress = "plain" /\ Ansi = "always"
        \/ given.progress = "bad"
     THEN Refuse /\ UNCHANGED display
     ELSE /\ display' = [ansi   |-> IF given.noColor THEN "never" ELSE Ansi,
                         mode   |-> Mode(Ansi),
                         writer |-> Writer(Ansi)]
          /\ stage' = "display"
  /\ UNCHANGED <<given, up, limit, services, agreed, call>>

(* The directory, and how many calls at once.                              *)
ChooseLimit ==
  /\ stage = "display"
  /\ IF (given.workDir /\ given.projectDir) \/ (given.envParallel = "bad" /\ ~given.parallel)
     THEN Refuse /\ UNCHANGED limit
     ELSE /\ limit' = (IF given.parallel THEN "flag"
                       ELSE IF given.envParallel = "set" THEN "environment" ELSE "none")
          /\ stage' = "limit"
  /\ UNCHANGED <<given, up, display, services, agreed, call>>

----------------------------------------------------------------------------
BugImplied == [up EXCEPT !.cascadeStop = @ \/ up.exitCodeFrom # ""]

(* --exit-code-from implies --abort-on-container-exit unless containers    *)
(* that fail stop the others; --wait implies --detach.                     *)
Implied == [up EXCEPT !.cascadeStop = @ \/ (up.exitCodeFrom # "" /\ ~up.cascadeFail),
                      !.detach = @ \/ up.wait]

(* validateFlags; of create only the first and third are checked.          *)
Contradicting ==
  \/ given.build /\ given.noBuild
  \/ given.forceRecreate /\ given.noRecreate
  \/ /\ given.verb = "up"
     /\ \/ Implied.cascadeStop /\ Implied.cascadeFail
        \/ /\ Implied.detach
           /\ \/ Implied.attachDependencies \/ Implied.cascadeStop \/ Implied.cascadeFail
              \/ Implied.attach # {} \/ Implied.watch
        \/ given.noInherit /\ given.noRecreate
        \/ given.recreateDeps /\ given.noRecreate
        \/ given.noBuild /\ Implied.watch

ValidateFlags ==
  /\ stage = "limit"
  /\ IF Contradicting THEN Refuse /\ UNCHANGED up
     ELSE /\ up' = (IF given.verb = "up" THEN Implied ELSE up) /\ stage' = "validated"
  /\ UNCHANGED <<given, display, limit, services, agreed, call>>

(* The environment counts only for up, and only without the flag.          *)
RemoveOrphans ==
  given.removeOrphans = "yes" \/
  (given.verb = "up" /\ given.removeOrphans = "unset" /\ given.envRemove)
IgnoreOrphans == given.verb = "up" /\ given.envIgnore

BugMenu ==
  /\ given.terminal
  /\ given.envMenu = "yes" \/ (given.envMenu = "unset" /\ given.menu # "no")

(* validateNavigationMenu.                                                 *)
Menu ==
  /\ given.terminal
  /\ \/ given.menu = "yes"
     \/ given.menu = "unset" /\ given.envMenu # "no"

(* What up checks once the project is loaded.                              *)
Check ==
  /\ stage = "validated"
  /\ IF given.verb = "up" /\ ((IgnoreOrphans /\ RemoveOrphans) \/
                              (up.attach # {} /\ up.attachDependencies))
     THEN Refuse /\ UNCHANGED up
     ELSE /\ up' = [up EXCEPT !.menu = Menu]
          /\ stage' = IF given.verb = "up" THEN "checked" ELSE "agreed"
  /\ UNCHANGED <<given, display, limit, services, agreed, call>>

(* checksForRemoteStack, which create does not have: the user is asked     *)
(* about remote files when there are remote includes, then about variables.*)
Questions == (IF given.remoteIncludes THEN {"includes"} ELSE {}) \cup
             (IF given.variables THEN {"variables"} ELSE {})
Ask ==
  /\ stage = "checked"
  /\ IF given.remote /\ ~given.yes
     THEN \/ agreed' = Questions /\ stage' = "agreed"
          \/ Questions # {} /\ Refuse /\ UNCHANGED agreed
     ELSE stage' = "agreed" /\ UNCHANGED agreed
  /\ UNCHANGED <<given, up, display, limit, services, call>>

----------------------------------------------------------------------------
BugPlatform(s) ==
  LET platform == IF s.build /\ s.platform = "" THEN given.defaultPlatform ELSE s.platform
  IN  [s EXCEPT !.platform = platform]

(* applyPlatforms for one platform: DOCKER_DEFAULT_PLATFORM stands in, the *)
(* image is built for the platform it is to run on, and of several the     *)
(* builder chooses.                                                        *)
Platform(s) ==
  LET platform == IF s.build /\ s.platform = "" THEN given.defaultPlatform ELSE s.platform
  IN  [s EXCEPT !.platform = platform,
                !.platforms = IF s.build /\ platform # "" THEN {platform}
                              ELSE IF Cardinality(s.platforms) > 1 THEN {} ELSE s.platforms]

Unsupported(s) ==
  LET platform == IF s.platform = "" THEN given.defaultPlatform ELSE s.platform
  IN  s.build /\ platform # "" /\ s.platforms # {} /\ platform \notin s.platforms

(* createOptions.Apply: the pull policy, the platforms, the scales.  The   *)
(* services come in any order, but what is refused is the same.            *)
Apply ==
  /\ stage = "agreed"
  /\ IF given.pull = "bad" \/ (\E n \in ServiceNames : Unsupported(services[n])) \/ given.scale = "gone"
     THEN Refuse /\ UNCHANGED services
     ELSE services' = [n \in ServiceNames |-> Platform(services[n])] /\ stage' = "applied"
  /\ UNCHANGED <<given, up, display, limit, agreed, call>>

(* upOptions.apply, after the loader's choice of services.                 *)
Selected == IF up.noDeps /\ up.named # {} THEN up.named ELSE ServiceNames

SelectServices ==
  /\ stage = "applied"
  /\ IF given.verb = "up" /\ up.exitCodeFrom \notin Selected \cup {""}
     THEN Refuse
     ELSE stage' = "selected"
  /\ UNCHANGED <<given, up, display, limit, services, agreed, call>>

----------------------------------------------------------------------------
RecreateStrategy ==
  IF given.noRecreate THEN "never"
  ELSE IF given.forceRecreate \/ given.noInherit THEN "force"
  ELSE "diverged"
DependenciesRecreateStrategy ==
  IF given.noRecreate THEN "never"
  ELSE IF given.recreateDeps THEN "force"
  ELSE "diverged"

Creation ==
  [builds |-> ~given.noBuild, removeOrphans |-> RemoveOrphans, ignoreOrphans |-> IgnoreOrphans,
   recreate |-> RecreateStrategy, recreateDeps |-> DependenciesRecreateStrategy,
   inherit |-> ~given.noInherit]

(* The services whose output is shown: those of --attach, or those named,  *)
(* or these and what they depend on; without those of --no-attach.         *)
Attached ==
  (IF up.attach # {} THEN up.attach
   ELSE IF up.named = {} \/ up.attachDependencies THEN Selected
   ELSE up.named) \ up.noAttach

OnExit ==
  IF up.cascadeStop THEN "stop" ELSE IF up.cascadeFail THEN "fail" ELSE "ignore"

(* runUp, runCreate.                                                       *)
CallCreate ==
  /\ stage = "selected"
  /\ given.verb = "create" \/ up.noStart
  /\ call' = [op |-> "create", creation |-> Creation]
  /\ stage' = "called"
  /\ UNCHANGED <<given, up, display, limit, services, agreed>>

CallUp ==
  /\ stage = "selected" /\ given.verb = "up" /\ ~up.noStart
  /\ IF ~up.detach /\ ~ up.attach \subseteq Selected
     THEN Refuse /\ UNCHANGED call
     ELSE /\ call' = [op |-> "up", creation |-> Creation,
                      consumer |-> ~up.detach,
                      attachTo |-> IF up.detach THEN {} ELSE Attached,
                      onExit |-> OnExit, exitCodeFrom |-> up.exitCodeFrom,
                      wait |-> up.wait, watch |-> up.watch,
                      menu |-> up.menu /\ display.mode # "plain"]
          /\ stage' = "called"
  /\ UNCHANGED <<given, up, display, limit, services, agreed>>

Next ==
  \/ Parse \/ ChooseDisplay \/ ChooseLimit \/ ValidateFlags \/ Check \/ Ask
  \/ Apply \/ SelectServices \/ CallCreate \/ CallUp

Spec == Init /\ [][Next]_vars

----------------------------------------------------------------------------
(* What up asks for can be done: containers stop each other, or are        *)
(* watched, only while up is attached; the exit code is that of a service  *)
(* that is started; --wait detaches; only services of the project are      *)
(* shown (validateFlags, runUp).                                           *)
SessionIsPossible ==
  call.op = "up" =>
    /\ call.onExit # "ignore" \/ call.watch => call.consumer
    /\ call.exitCodeFrom # "" => call.onExit # "ignore" /\ call.exitCodeFrom \in Selected
    /\ call.wait => ~call.consumer
    /\ call.attachTo \subseteq Selected \ given.session.noAttach

(* Containers that are not to be recreated keep everything, and orphans    *)
(* are not removed and ignored at once (validateFlags, upCommand).         *)
CreationIsPossible ==
  call.op # "none" =>
    /\ call.creation.recreate = "never" => call.creation.inherit /\ ~given.forceRecreate
    /\ ~(call.creation.removeOrphans /\ call.creation.ignoreOrphans)
    /\ given.build => call.creation.builds

(* A flag on the command line wins over its variable in the environment    *)
(* (docs/reference/compose.md, PersistentPreRunE, upCommand).  --no-ansi,  *)
(* which is deprecated, does not.                                          *)
FlagsWin ==
  stage = "called" =>
    /\ given.parallel => limit = "flag"
    /\ given.ansi # "unset" => display.ansi \in {given.ansi, "never"}
    /\ call.op = "up" =>
         /\ given.menu = "no" => ~call.menu
         /\ (given.menu = "yes" /\ given.terminal /\ display.mode # "plain") => call.menu
         /\ given.removeOrphans = "no" => ~call.creation.removeOrphans

(* Every image is built for the platform its service is to run on, which   *)
(* its build supports (applyPlatforms).                                    *)
PlatformsAreRight ==
  stage = "called" =>
    \A n \in ServiceNames :
      LET asked == given.project[n]
          wanted == IF asked.platform # "" THEN asked.platform ELSE given.defaultPlatform
      IN  asked.build =>
            /\ wanted # "" => /\ services[n].platform = wanted
                              /\ services[n].platforms = {wanted}
                              /\ asked.platforms # {} => wanted \in asked.platforms
            /\ Cardinality(services[n].platforms) <= 1
            /\ services[n].platforms \subseteq asked.platforms \cup {wanted}

(* up starts what comes from elsewhere only when the user has agreed       *)
(* (checksForRemoteStack); create does not ask.                            *)
AgreedFirst ==
  (call.op # "none" /\ given.verb = "up" /\ given.remote /\ ~given.yes) => agreed = Questions

CommandLineIsRight ==
  SessionIsPossible /\ CreationIsPossible /\ FlagsWin /\ PlatformsAreRight /\ AgreedFirst
===========================================================================
