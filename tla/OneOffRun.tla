------------------------------ MODULE OneOffRun ------------------------------
(***************************************************************************)
(* compose run: the options and the environment of the command             *)
(* (cmd/compose/run.go), the dependencies, the one-off container and the   *)
(* goroutine that waits for its start to run the post_start hooks          *)
(* (pkg/compose/run.go).  RunStart of the Docker CLI starts the container  *)
(* and attaches to it in one call, which is why the goroutine listens to   *)
(* the engine's events, and these are not kept for who subscribes late.    *)
(***************************************************************************)
EXTENDS Integers, Sequences

VARIABLES
  run,       \* Options of the command and of the service
  main,      \* Where RunOneOffContainer is
  env, caps, \* The variable and the capability as the container will have them
  dependency,\* "none" (not wanted), "wanted", "up" or "ended"
  waited,    \* waitDependencies found it up
  container, \* "none", "created", "running", "exited" or "gone"
  code,      \* Its exit code
  listener,  \* "none", "subscribes", "listens", "hook", "exec" or "done"
  hooked,    \* The hook has run to its end in the running container
  hookErr,   \* What the goroutine sends
  startErr,  \* What RunStart returns: "none", "nil", "code" or "err"
  missed,    \* The start went by before the subscription
  outcome    \* "none", "nil", "code" or "err"

vars == <<run, main, env, caps, dependency, waited, container, code, listener, hooked,
          hookErr, startErr, missed, outcome>>

(* One variable of the environment: the service may set it, -e may, and up *)
(* to two files of --env-from-file do, do not, or cannot be parsed.  One   *)
(* capability, which service and options may add or drop.                  *)
(* Only what concerns the course of the command is combined with itself,   *)
(* and only a plain run with every environment and capability.             *)
Plain == [hooks |-> FALSE, depends |-> FALSE, remove |-> FALSE, detach |-> FALSE, service |-> FALSE,
          cli |-> FALSE, files |-> <<>>, adds |-> {}, drops |-> {}]
EnvFiles == {<<>>} \cup ({"sets", "lacks", "broken"} \X {"sets", "lacks", "broken"})
Runs ==
  {r \in [hooks : BOOLEAN, depends : BOOLEAN, remove : BOOLEAN, detach : BOOLEAN, service : BOOLEAN, cli : BOOLEAN,
          files : EnvFiles, adds : SUBSET {"service", "option"}, drops : SUBSET {"service", "option"}] :
     \/ ~r.service /\ ~r.cli /\ r.files = <<>> /\ r.adds = {} /\ r.drops = {}
     \/ ~r.hooks /\ ~r.depends /\ ~r.remove /\ ~r.detach}

Init ==
  /\ run = Plain
  /\ main = "idle"
  /\ env = "unset" /\ caps = [add |-> FALSE, drop |-> FALSE]
  /\ dependency = "none" /\ waited = FALSE
  /\ container = "none" /\ code = 0
  /\ listener = "none" /\ hooked = FALSE /\ hookErr = "none"
  /\ startErr = "none" /\ missed = FALSE /\ outcome = "none"

Goes(pc)   == main' = pc /\ outcome' = outcome
Fails      == main' = "returned" /\ outcome' = "err"

options    == <<run, env, caps>>
engine     == <<dependency, container, code>>
goroutine  == <<listener, hooked, hookErr, missed>>

----------------------------------------------------------------------------
(* getEnvironment: what -e says, else the first file that says it; a file  *)
(* that cannot be parsed makes it return nothing at all, without an error. *)
Environment(r) ==
  IF \E i \in DOMAIN r.files : r.files[i] = "broken" THEN "unset"
  ELSE IF r.cli THEN "cli"
  ELSE IF \E i \in DOMAIN r.files : r.files[i] = "sets"
       THEN IF r.files[1] = "sets" THEN "first" ELSE "second"
       ELSE "unset"

(* applyRunOptions: it overrides what the service says.                    *)
Override(r) ==
  IF Environment(r) # "unset" THEN Environment(r) ELSE IF r.service THEN "service" ELSE "unset"

(* First what is added is taken from what is dropped, then the other way   *)
(* round: an option to drop wins, and an option wins over the service.     *)
Capabilities(r) ==
  LET added == [add |-> r.adds # {}, drop |-> "service" \in r.drops /\ "option" \notin r.adds]
  IN  IF "option" \in r.drops THEN [add |-> FALSE, drop |-> TRUE] ELSE added

Give ==
  /\ main = "idle"
  /\ run' \in Runs
  /\ dependency' = IF run'.depends THEN "wanted" ELSE "none"
  /\ env' = Override(run') /\ caps' = Capabilities(run')
  /\ Goes("dependencies")
  /\ UNCHANGED <<waited, container, code, goroutine, startErr>>

(* startDependencies: create and start of the project without the service. *)
StartDependencies ==
  /\ main = "dependencies"
  /\ \/ Goes("image") /\ dependency' = IF dependency = "wanted" THEN "up" ELSE dependency
     \/ Fails /\ UNCHANGED dependency
  /\ UNCHANGED <<options, waited, container, code, goroutine, startErr>>

EnsureImage ==
  /\ main = "image"
  /\ Goes("wait") \/ Fails
  /\ UNCHANGED <<options, engine, waited, goroutine, startErr>>

WaitDependencies ==
  /\ main = "wait"
  /\ IF dependency = "ended" THEN Fails ELSE Goes("create")
  /\ waited' = (dependency = "up")
  /\ UNCHANGED <<options, engine, goroutine, startErr>>

CreateContainer ==
  /\ main = "create"
  /\ \/ Goes("inject") /\ container' = "created"
     \/ Fails /\ UNCHANGED container
  /\ UNCHANGED <<options, dependency, code, waited, goroutine, startErr>>

(* Secrets and configs; when that fails the container stays behind.        *)
Inject ==
  /\ main = "inject"
  /\ \/ Goes("start") /\ listener' = IF run.hooks THEN "subscribes" ELSE "none"
     \/ Fails /\ UNCHANGED listener
  /\ UNCHANGED <<options, engine, waited, hooked, hookErr, missed, startErr>>

(* RunStart starts the container; the event reaches who has subscribed.    *)
Start ==
  /\ main = "start"
  /\ container' = "running"
  /\ listener' = IF listener = "listens" THEN "hook" ELSE listener
  /\ missed' = (listener = "subscribes")
  /\ IF run.detach THEN Goes("hooks") /\ startErr' = "nil" ELSE Goes("attached") /\ UNCHANGED startErr
  /\ UNCHANGED <<options, dependency, code, waited, hooked, hookErr>>

StartFails ==
  /\ main = "start"
  /\ startErr' = "err"
  /\ missed' = (listener \in {"subscribes", "listens"})
  /\ Goes("hooks")
  /\ UNCHANGED <<options, engine, waited, listener, hooked, hookErr>>

(* The process ends; or the user detaches with keys, and it goes on.       *)
Attached ==
  /\ main = "attached"
  /\ \/ container \in {"exited", "gone"} /\ startErr' = IF code = 0 THEN "nil" ELSE "code"
     \/ container = "running" /\ startErr' = "nil"
  /\ Goes("hooks")
  /\ UNCHANGED <<options, engine, waited, goroutine>>

----------------------------------------------------------------------------
(* runPostStartHooksOnEvent.                                               *)
Sends(r) == listener' = "done" /\ hookErr' = r

Subscribe ==
  /\ listener = "subscribes"
  /\ listener' = "listens"
  /\ UNCHANGED <<options, engine, waited, main, hooked, hookErr, missed, startErr, outcome>>

EventsFail ==
  /\ listener = "listens"
  /\ Sends("err")
  /\ UNCHANGED <<options, engine, waited, main, hooked, missed, startErr, outcome>>

(* The hook runs if the container still does.                              *)
CreateExec ==
  /\ listener = "hook"
  /\ \/ container = "running" /\ listener' = "exec" /\ UNCHANGED hookErr
     \/ Sends("err")
  /\ UNCHANGED <<options, engine, waited, main, hooked, missed, startErr, outcome>>

(* runWaitExec: the hook exits with a status, or its container ends first; *)
(* when the hook cannot be started or looked at any more it is nil.        *)
WaitExec ==
  /\ listener = "exec"
  /\ \/ container = "running" /\ Sends("nil") /\ hooked' = TRUE
     \/ container # "running" /\ Sends("nil") /\ UNCHANGED hooked
     \/ Sends("err") /\ UNCHANGED hooked
  /\ UNCHANGED <<options, engine, waited, main, missed, startErr, outcome>>

(* Mutant: the error of the hooks is dropped.                              *)
BugOutcome == startErr

(* The error of the hooks counts when there is no other.                   *)
Outcome == IF startErr = "nil" /\ run.hooks THEN hookErr ELSE startErr

(* Mutant: the answer is expected from a goroutine that had no event.      *)
BugHeard == listener = "done" /\ startErr # "none" /\ container = "running"

Heard == ~run.hooks \/ listener = "done"

Return ==
  /\ main = "hooks" /\ Heard
  /\ main' = "returned" /\ outcome' = Outcome
  /\ UNCHANGED <<options, engine, waited, goroutine, startErr>>

(* The processes end when they like.                                       *)
Exit ==
  /\ container = "running"
  /\ container' = IF run.remove THEN "gone" ELSE "exited"
  /\ code' \in {0, 1}
  /\ UNCHANGED <<options, dependency, waited, main, goroutine, startErr, outcome>>

DependencyEnds ==
  /\ dependency = "up" /\ main # "returned"
  /\ dependency' = "ended"
  /\ UNCHANGED <<options, container, code, waited, main, goroutine, startErr, outcome>>

Next ==
  \/ Give \/ StartDependencies \/ EnsureImage \/ WaitDependencies \/ CreateContainer \/ Inject
  \/ Start \/ StartFails \/ Attached \/ Return
  \/ Subscribe \/ EventsFail \/ CreateExec \/ WaitExec
  \/ Exit \/ DependencyEnds

(* The command and its goroutine run; no process need end.                 *)
Fairness ==
  /\ WF_vars(Start \/ StartFails)
  /\ WF_vars(Attached /\ container # "running")
  /\ WF_vars(Return)
  /\ WF_vars(Subscribe) /\ WF_vars(CreateExec \/ WaitExec)

Spec == Init /\ [][Next]_vars /\ Fairness

----------------------------------------------------------------------------
(* Variables keep their types.                                             *)
TypeOK ==
  /\ main \in {"idle", "dependencies", "image", "wait", "create", "inject", "start", "attached", "hooks", "returned"}
  /\ env \in {"unset", "service", "cli", "first", "second"}
  /\ caps \in [add : BOOLEAN, drop : BOOLEAN]
  /\ dependency \in {"none", "wanted", "up", "ended"}
  /\ container \in {"none", "created", "running", "exited", "gone"} /\ code \in {0, 1}
  /\ listener \in {"none", "subscribes", "listens", "hook", "exec", "done"}
  /\ {hookErr, startErr, outcome} \subseteq {"none", "nil", "code", "err"}
  /\ waited \in BOOLEAN /\ hooked \in BOOLEAN /\ missed \in BOOLEAN

(* What compose run reports is what happened: a success means that the     *)
(* container was started after its dependency was seen up, and that its    *)
(* hooks ran to their end unless it ended first; an exit code is the       *)
(* container's.                                                            *)
ReportIsFaithful ==
  /\ outcome = "nil" => /\ container \in {"running", "exited", "gone"}
                        /\ run.hooks => hooked \/ container # "running"
                        /\ run.depends => waited
  /\ outcome = "code" => code # 0 /\ container \in {"exited", "gone"}
  /\ container = "running" /\ run.depends => waited

(* Options win over the service's own settings, whatever both say: -e over *)
(* files over the service, unless a file is broken; --cap-drop over        *)
(* --cap-add over the service.                                             *)
OptionsWin ==
  main # "idle" =>
    /\ "broken" \notin {run.files[i] : i \in DOMAIN run.files} =>
         /\ run.cli => env = "cli"
         /\ ~run.cli /\ (\E i \in DOMAIN run.files : run.files[i] = "sets") => env \in {"first", "second"}
    /\ run.service => env # "unset"
    /\ "option" \in run.drops => caps.drop /\ ~caps.add
    /\ "option" \in run.adds \ run.drops => caps.add /\ ~caps.drop

RunIsRight == TypeOK /\ ReportIsFaithful /\ OptionsWin

(* run returns once its container has ended, or at once when detached,     *)
(* unless the start went by, or failed, while the goroutine was            *)
(* subscribing: then nothing ends its wait (run.go:66).                    *)
RunReturns ==
  (main = "start") ~> (main = "returned" \/ missed \/ (main = "attached" /\ container = "running"))

(* It returns in any case.  (It does not.)                                 *)
RunAlwaysReturns ==
  (main = "start") ~> (main = "returned" \/ (main = "attached" /\ container = "running"))
=============================================================================
