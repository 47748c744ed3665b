---------------------------- MODULE CommandsProofs ----------------------------
(***************************************************************************)
(* Proofs about one-off runs (OneOffRun), and about sweeps (Sweeps), for   *)
(* any containers of the two services and whatever happens to them: the    *)
(* goroutines of a sweep share the variable in which they find their       *)
(* errors.                                                                 *)
(***************************************************************************)
EXTENDS MCCommands, TLAPS

----------------------------------------------------------------------------
(* A one-off run.                                                          *)

Started == {"running", "exited", "gone"}
Early   == {"idle", "dependencies", "image", "wait", "create"}

(* What is known where RunOneOffContainer is.                              *)
Progressed ==
  /\ main \in Early => container = "none"
  /\ main \in {"inject", "start"} => container = "created"
  /\ main = "attached" => container \in Started
  /\ main \in Early \cup {"inject"} => listener = "none"
  /\ main \notin {"hooks", "returned"} => startErr = "none" /\ outcome = "none"
  /\ main = "hooks" => startErr # "none" /\ outcome = "none"
  /\ main = "idle" => run = OneOff!Plain

(* The dependency was up when it was waited for.                           *)
DependencyWaited ==
  run.depends => /\ main = "dependencies" => dependency = "wanted"
                 /\ main \in {"image", "wait"} => dependency \in {"up", "ended"}
                 /\ main \in {"create", "inject", "start", "attached", "hooks"} => waited
                 /\ container # "none" => waited

(* The goroutine has its event only from the start; its nil means that the *)
(* hook has run, or that the container ended.                              *)
HooksFollow ==
  /\ listener \in {"hook", "exec"} => container \in Started
  /\ listener = "done" => hookErr \in {"nil", "err"}
  /\ hookErr \in {"none", "nil", "err"} /\ (hookErr # "none" => listener = "done")
  /\ hookErr = "nil" => container \in Started /\ (hooked \/ container # "running")

(* What RunStart returned.                                                 *)
StartTold ==
  /\ startErr = "nil" => container \in Started
  /\ startErr = "code" => code # 0 /\ container \in {"exited", "gone"}

Reported ==
  /\ outcome = "nil" => container \in Started /\ (run.hooks => hookErr = "nil")
  /\ outcome = "code" => startErr = "code"

(* The environment and the capabilities are those of the options.          *)
Chosen ==
  /\ run \in OneOff!Runs
  /\ main # "idle" => env = OneOff!Override(run) /\ caps = OneOff!Capabilities(run)

RunInv == OneOff!TypeOK /\ Progressed /\ DependencyWaited /\ HooksFollow /\ StartTold /\ Reported /\ Chosen

(* What is chosen is what the options say, whatever the service says.      *)
LEMMA OptionsChosen ==
  ASSUME NEW r \in OneOff!Runs
  PROVE  /\ "broken" \notin {r.files[i] : i \in DOMAIN r.files} =>
              /\ r.cli => OneOff!Override(r) = "cli"
              /\ ~r.cli /\ (\E i \in DOMAIN r.files : r.files[i] = "sets")
                   => OneOff!Override(r) \in {"first", "second"}
         /\ r.service => OneOff!Override(r) # "unset"
         /\ "option" \in r.drops => OneOff!Capabilities(r).drop /\ ~OneOff!Capabilities(r).add
         /\ "option" \in r.adds \ r.drops => OneOff!Capabilities(r).add /\ ~OneOff!Capabilities(r).drop
         /\ OneOff!Override(r) \in {"unset", "service", "cli", "first", "second"}
         /\ OneOff!Capabilities(r) \in [add : BOOLEAN, drop : BOOLEAN]
<1>1. /\ "broken" \notin {r.files[i] : i \in DOMAIN r.files} =>
           /\ r.cli => OneOff!Override(r) = "cli"
           /\ ~r.cli /\ (\E i \in DOMAIN r.files : r.files[i] = "sets")
                => OneOff!Override(r) \in {"first", "second"}
      /\ r.service => OneOff!Override(r) # "unset"
      /\ OneOff!Override(r) \in {"unset", "service", "cli", "first", "second"}
  BY DEF OneOff!Override, OneOff!Environment
<1>2. /\ "option" \in r.drops => OneOff!Capabilities(r).drop /\ ~OneOff!Capabilities(r).add
      /\ "option" \in r.adds \ r.drops => OneOff!Capabilities(r).add /\ ~OneOff!Capabilities(r).drop
      /\ OneOff!Capabilities(r) \in [add : BOOLEAN, drop : BOOLEAN]
  BY DEF OneOff!Capabilities, OneOff!Runs
<1> QED  BY <1>1, <1>2

LEMMA ChosenKept ==
  ASSUME Chosen, UNCHANGED <<run, env, caps>>, main' # "idle" => main # "idle"
  PROVE  Chosen'
<1>1. OneOff!Override(run)' = OneOff!Override(run) /\ OneOff!Capabilities(run)' = OneOff!Capabilities(run)
  BY DEF OneOff!Override, OneOff!Environment, OneOff!Capabilities
<1> QED  BY <1>1 DEF Chosen

LEMMA RunInit == OneOff!Init => RunInv
<1> SUFFICES ASSUME OneOff!Init  PROVE RunInv
  OBVIOUS
<1>1. OneOff!Plain \in OneOff!Runs
  BY DEF OneOff!Runs, OneOff!Plain, OneOff!EnvFiles
<1>2. OneOff!TypeOK
  BY DEF OneOff!Init, OneOff!TypeOK
<1> QED  BY <1>1, <1>2 DEF OneOff!Init, RunInv, Progressed, DependencyWaited, HooksFollow, StartTold, Reported, Chosen,
                      OneOff!Plain

LEMMA GiveStep ==
  ASSUME RunInv, OneOff!Give  PROVE RunInv'
<1>1. run' \in OneOff!Runs /\ env' = OneOff!Override(run') /\ caps' = OneOff!Capabilities(run')
      /\ dependency' \in {"none", "wanted"} /\ main' = "dependencies"
      /\ UNCHANGED <<waited, container, code, listener, hooked, hookErr, missed, startErr, outcome>>
  BY DEF OneOff!Give, OneOff!Goes, OneOff!goroutine
<1>2. env' \in {"unset", "service", "cli", "first", "second"} /\ caps' \in [add : BOOLEAN, drop : BOOLEAN]
  BY <1>1, OptionsChosen
<1>3. OneOff!TypeOK' /\ Chosen'
  BY <1>1, <1>2 DEF OneOff!TypeOK, RunInv, Chosen
<1> QED  BY <1>1, <1>3 DEF RunInv, Progressed, DependencyWaited, HooksFollow, StartTold, Reported,
                     OneOff!Give, OneOff!Goes, OneOff!goroutine, Early, Started, OneOff!TypeOK

LEMMA MainStep ==
  ASSUME RunInv, OneOff!StartDependencies \/ OneOff!EnsureImage \/ OneOff!WaitDependencies \/ OneOff!CreateContainer
                   \/ OneOff!Inject
  PROVE  RunInv'
<1>1. UNCHANGED <<run, env, caps, code, hooked, hookErr, missed, startErr>>
  BY DEF OneOff!StartDependencies, OneOff!EnsureImage, OneOff!WaitDependencies, OneOff!CreateContainer, OneOff!Inject,
         OneOff!options, OneOff!engine, OneOff!goroutine
<1>2. main # "idle" /\ Chosen'
  BY <1>1, ChosenKept DEF RunInv, OneOff!StartDependencies, OneOff!EnsureImage, OneOff!WaitDependencies,
                          OneOff!CreateContainer, OneOff!Inject
<1>w. waited' \in BOOLEAN
  <2>1. CASE OneOff!WaitDependencies
    BY <2>1, Zenon DEF OneOff!WaitDependencies
  <2>2. CASE ~OneOff!WaitDependencies
    BY <2>2 DEF RunInv, OneOff!TypeOK, OneOff!StartDependencies, OneOff!EnsureImage, OneOff!CreateContainer, OneOff!Inject
  <2> QED  BY <2>1, <2>2
<1>3. OneOff!TypeOK'
  BY <1>1, <1>w DEF RunInv, OneOff!TypeOK, OneOff!StartDependencies, OneOff!EnsureImage, OneOff!WaitDependencies,
              OneOff!CreateContainer, OneOff!Inject, OneOff!Goes, OneOff!Fails, OneOff!engine, OneOff!goroutine
<1>4. Progressed' /\ DependencyWaited'
  BY <1>1 DEF RunInv, OneOff!TypeOK, Progressed, DependencyWaited, Early, Started, OneOff!StartDependencies,
              OneOff!EnsureImage, OneOff!WaitDependencies, OneOff!CreateContainer, OneOff!Inject, OneOff!Goes,
              OneOff!Fails, OneOff!engine, OneOff!goroutine
<1>5. HooksFollow' /\ StartTold' /\ Reported'
  BY <1>1 DEF RunInv, OneOff!TypeOK, Progressed, HooksFollow, StartTold, Reported, Early, Started,
              OneOff!StartDependencies, OneOff!EnsureImage, OneOff!WaitDependencies, OneOff!CreateContainer,
              OneOff!Inject, OneOff!Goes, OneOff!Fails, OneOff!engine, OneOff!goroutine
<1> QED  BY <1>2, <1>3, <1>4, <1>5 DEF RunInv

LEMMA RunStartStep ==
  ASSUME RunInv, OneOff!Start \/ OneOff!StartFails \/ OneOff!Attached
  PROVE  RunInv'
<1>1. UNCHANGED <<run, env, caps, code, dependency, waited, hooked, hookErr, outcome>>
  BY DEF OneOff!Start, OneOff!StartFails, OneOff!Attached, OneOff!options, OneOff!engine, OneOff!goroutine, OneOff!Goes
<1>c. main # "idle" /\ Chosen'
  BY <1>1, ChosenKept DEF RunInv, OneOff!Start, OneOff!StartFails, OneOff!Attached
<1>m. missed' \in BOOLEAN
  <2>1. CASE OneOff!Start
    BY <2>1, Zenon DEF OneOff!Start
  <2>2. CASE OneOff!StartFails
    <3> DEFINE Missed == listener \in {"subscribes", "listens"}
    <3>1. missed' = Missed
      BY <2>2 DEF OneOff!StartFails
    <3>2. Missed \in BOOLEAN
      OBVIOUS
    <3> QED  BY <3>1, <3>2
  <2>3. CASE OneOff!Attached
    BY <2>3 DEF RunInv, OneOff!TypeOK, OneOff!Attached, OneOff!goroutine
  <2> QED  BY <2>1, <2>2, <2>3
<1>2. OneOff!TypeOK'
  BY <1>1, <1>m DEF RunInv, OneOff!TypeOK, OneOff!Start, OneOff!StartFails, OneOff!Attached, OneOff!Goes,
              OneOff!engine, OneOff!goroutine
<1>3. Progressed' /\ DependencyWaited'
  BY <1>1 DEF RunInv, OneOff!TypeOK, Progressed, DependencyWaited, Early, Started, OneOff!Start, OneOff!StartFails,
              OneOff!Attached, OneOff!Goes, OneOff!engine, OneOff!goroutine
<1>4. HooksFollow' /\ StartTold' /\ Reported'
  BY <1>1 DEF RunInv, OneOff!TypeOK, Progressed, HooksFollow, StartTold, Reported, Early, Started,
              OneOff!Start, OneOff!StartFails, OneOff!Attached, OneOff!Goes, OneOff!engine, OneOff!goroutine
<1> QED  BY <1>c, <1>2, <1>3, <1>4 DEF RunInv

LEMMA ListenerStep ==
  ASSUME RunInv, OneOff!Subscribe \/ OneOff!EventsFail \/ OneOff!CreateExec \/ OneOff!WaitExec
  PROVE  RunInv'
<1>1. UNCHANGED <<run, env, caps, dependency, container, code, waited, main, missed, startErr, outcome>>
  BY DEF OneOff!Subscribe, OneOff!EventsFail, OneOff!CreateExec, OneOff!WaitExec, OneOff!options, OneOff!engine
<1>c. Chosen'
  BY <1>1, ChosenKept DEF RunInv
<1>h. /\ hooked' \in BOOLEAN /\ hookErr' \in {"none", "nil", "err"} /\ (hooked => hooked')
      /\ hookErr' # hookErr /\ hookErr' = "nil" => listener = "exec" /\ (hooked' \/ container # "running")
  BY DEF RunInv, HooksFollow, OneOff!TypeOK, OneOff!Subscribe, OneOff!EventsFail, OneOff!CreateExec, OneOff!WaitExec,
         OneOff!Sends
<1>l. /\ listener' \in {"listens", "hook", "exec", "done"} /\ listener \notin {"none", "done"}
      /\ listener' = "done" => hookErr' \in {"nil", "err"}
      /\ hookErr' # hookErr => listener' = "done"
      /\ listener' \in {"hook", "exec"} => listener \in {"hook", "exec"}
  BY DEF OneOff!Subscribe, OneOff!EventsFail, OneOff!CreateExec, OneOff!WaitExec, OneOff!Sends
<1>2. OneOff!TypeOK' /\ DependencyWaited' /\ StartTold'
  BY <1>1, <1>h, <1>l DEF RunInv, DependencyWaited, StartTold, OneOff!TypeOK
<1>3. Progressed' /\ HooksFollow' /\ Reported'
  BY <1>1, <1>h, <1>l DEF RunInv, OneOff!TypeOK, Progressed, HooksFollow, Reported, Early, Started
<1> QED  BY <1>c, <1>2, <1>3 DEF RunInv

(* The result of the goroutine counts when there is no other.              *)
LEMMA ReturnStep ==
  ASSUME RunInv, OneOff!Return
  PROVE  RunInv'
<1>1. /\ UNCHANGED <<run, env, caps, dependency, container, code, waited, listener, hooked, hookErr, missed, startErr>>
      /\ main = "hooks" /\ main' = "returned" /\ (run.hooks => listener = "done")
      /\ outcome' = IF startErr = "nil" /\ run.hooks THEN hookErr ELSE startErr
  BY DEF OneOff!Return, OneOff!Heard, OneOff!Outcome, OneOff!options, OneOff!engine, OneOff!goroutine
<1>c. Chosen'
  BY <1>1, ChosenKept DEF RunInv
<1>2. OneOff!TypeOK' /\ DependencyWaited' /\ HooksFollow' /\ StartTold' /\ Progressed'
  BY <1>1 DEF RunInv, DependencyWaited, HooksFollow, StartTold, Progressed, Early, OneOff!TypeOK
<1>3. Reported'
  BY <1>1 DEF RunInv, HooksFollow, StartTold, Reported
<1> QED  BY <1>c, <1>2, <1>3 DEF RunInv

LEMMA EndsStep ==
  ASSUME RunInv, OneOff!Exit \/ OneOff!DependencyEnds
  PROVE  RunInv'
<1>1. UNCHANGED <<run, env, caps, waited, main, listener, hooked, hookErr, missed, startErr, outcome>>
  BY DEF OneOff!Exit, OneOff!DependencyEnds, OneOff!options, OneOff!goroutine
<1>c. Chosen'
  BY <1>1, ChosenKept DEF RunInv
<1>2. OneOff!TypeOK'
  BY <1>1 DEF RunInv, OneOff!TypeOK, OneOff!Exit, OneOff!DependencyEnds
<1>3. Progressed' /\ DependencyWaited' /\ HooksFollow' /\ StartTold' /\ Reported'
  BY <1>1 DEF RunInv, OneOff!TypeOK, Progressed, DependencyWaited, HooksFollow, StartTold, Reported, Early, Started,
              OneOff!Exit, OneOff!DependencyEnds
<1> QED  BY <1>c, <1>2, <1>3 DEF RunInv

LEMMA RunStep ==
  ASSUME RunInv, [OneOff!Next]_(OneOff!vars)
  PROVE  RunInv'
<1>1. CASE UNCHANGED OneOff!vars
  <2>1. Chosen'
    BY <1>1, ChosenKept DEF OneOff!vars, RunInv
  <2>a. UNCHANGED <<run, main, dependency, waited, container, code, listener, hooked, hookErr, startErr, outcome>>
    BY <1>1 DEF OneOff!vars
  <2>2. OneOff!TypeOK'
    BY <1>1 DEF OneOff!vars, RunInv, OneOff!TypeOK
  <2>3. Progressed'
    BY <2>a DEF RunInv, Progressed
  <2>4. DependencyWaited'
    BY <2>a DEF RunInv, DependencyWaited
  <2>5. HooksFollow' 
    BY <2>a DEF RunInv, HooksFollow
  <2>6. StartTold' /\ Reported'
    BY <2>a DEF RunInv, StartTold, Reported
  <2> QED
    BY <2>1, <2>2, <2>3, <2>4, <2>5, <2>6 DEF RunInv
<1> QED
  BY <1>1, GiveStep, MainStep, RunStartStep, ListenerStep, ReturnStep, EndsStep DEF OneOff!Next

(* What compose run reports is what happened, and options win over the     *)
(* service: RunOneOffContainer with runPostStartHooksOnEvent, whatever     *)
(* order the start, its event, the hooks and the end of the container      *)
(* come in.                                                                *)
THEOREM RunIsRightAlways == OneOff!Spec => []RunIsRight
<1>1. RunInv => RunIsRight
  <2> SUFFICES ASSUME RunInv  PROVE RunIsRight
    OBVIOUS
  <2>1. OneOff!ReportIsFaithful
    BY DEF RunInv, OneOff!TypeOK, OneOff!ReportIsFaithful, DependencyWaited, HooksFollow, StartTold, Reported, Started
  <2>2. OneOff!OptionsWin
    BY OptionsChosen DEF RunInv, Chosen, OneOff!OptionsWin
  <2> QED  BY <2>1, <2>2 DEF RunInv, RunIsRight, OneOff!RunIsRight
<1> QED  BY <1>1, RunInit, RunStep, PTL DEF OneOff!Spec

----------------------------------------------------------------------------
(* Sweeps.                                                                 *)

CommandOK ==
  /\ command = None <=> phase = "idle"
  /\ command = None => op = "none" /\ \A c \in Containers : state[c] = "gone"
  /\ command # None => op = command.op \/ (op = "stop" /\ command.op = "rm")
  /\ phase \in {"idle", "list"} => chosen = {} /\ result # "nil"

TasksOK ==
  /\ phase # "sweep" => \A c \in Containers : task[c].pc = "off"
  /\ \A c \in Containers : task[c].pc # "off" => c \in chosen /\ task[c].at \in 1..Len(Calls)

(* What a goroutine has done is told by where it is.                       *)
Swept ==
  \A c \in chosen :
    /\ task[c].pc = "done" => c \in reached \/ c \in skipped \/ (c \in refused /\ Shares)
    /\ task[c].pc = "read" => Shares /\ (~command.hooks \/ task[c].at # 1 => c \in reached \/ c \in refused)
    /\ task[c].pc = "ready" /\ task[c].at = 3 => c \in reached \/ c \in refused

AllDone == phase = "sweep" /\ result = "nil" => \A c \in chosen : task[c].pc = "done"

(* What rm is about had ended when it was inspected.                       *)
Spared == op = "rm" => \A c \in chosen : state[c] \in {"exited", "gone"} \/ c \in revived

SweepInv == TypeOK /\ CommandOK /\ TasksOK /\ Swept /\ AllDone /\ Spared

(* The calls of a goroutine.                                               *)
LEMMA Commanded ==
  ASSUME TypeOK, CommandOK, command # None
  PROVE  /\ command \in Commands /\ command.op \in Kinds /\ command.flag \in BOOLEAN /\ command.hooks \in BOOLEAN
         /\ command.hooks => op \in {"stop", "restart"}
         /\ op \in Kinds \cup {"stop"}
BY DEF TypeOK, CommandOK, Commands

LEMMA CallsShape ==
  ASSUME TypeOK, CommandOK, command # None
  PROVE  \/ ~command.hooks /\ Calls = <<op>> /\ Len(Calls) = 1 /\ Calls[1] = op
         \/ /\ command.hooks /\ op = "stop" /\ Calls = <<"hook", "stop">> /\ Len(Calls) = 2
            /\ Calls[1] = "hook" /\ Calls[2] = "stop"
         \/ /\ command.hooks /\ op = "restart" /\ Calls = <<"hook", "restart", "hook">> /\ Len(Calls) = 3
            /\ Calls[1] = "hook" /\ Calls[2] = "restart" /\ Calls[3] = "hook"
BY Commanded DEF Calls

LEMMA ContainersSplit ==
  /\ \A all : Ours(all) \subseteq Containers
  /\ \A s : Of(s) \subseteq Containers
BY DEF Ours, Listed, Of, Containers

LEMMA SweepInit == Init => SweepInv
<1> SUFFICES ASSUME Init  PROVE SweepInv
  OBVIOUS
<1>1. TypeOK
  <2>1. AllIdle \in [Containers -> [at : 0..3, pc : {"off", "wait", "visited", "ready", "read", "done", "failed"}]]
    BY DEF AllIdle, Idle
  <2>2. 0 \in 0..MaxTroubles
    BY SweepsAssumption
  <2> QED  BY <2>1, <2>2 DEF Init, TypeOK, Live
<1>2. CommandOK
  BY <1>1 DEF Init, CommandOK
<1>3. TasksOK
  BY DEF Init, TasksOK, AllIdle, Idle
<1>4. Swept /\ AllDone /\ Spared
  BY DEF Init, Swept, AllDone, Spared
<1> QED  BY <1>1, <1>2, <1>3, <1>4 DEF SweepInv

LEMMA SweepGive ==
  ASSUME SweepInv, Give  PROVE SweepInv'
<1>1. /\ command = None /\ command' \in Commands /\ phase' = "list"
      /\ state' \in [Containers -> {"running", "paused", "exited"}]
      /\ op' = IF command'.stop THEN "stop" ELSE command'.op
      /\ UNCHANGED <<troubles, revived, found, chosen, dropped, task, err, result, reached, refused, skipped>>
  BY DEF Give
<1>2. command'.op \in Kinds /\ (command'.stop => command'.op = "rm")
  BY <1>1 DEF Commands
<1>3. command' # None
  BY <1>2, SweepsAssumption DEF None
<1>4. TypeOK'
  BY <1>1, <1>2 DEF SweepInv, TypeOK, Live
<1>5. chosen' = {} /\ result' # "nil" /\ phase # "sweep"
  BY <1>1 DEF SweepInv, CommandOK
<1>6. CommandOK'
  BY <1>1, <1>2, <1>3, <1>5 DEF CommandOK
<1>7. TasksOK' /\ Swept' /\ AllDone' /\ Spared'
  BY <1>1, <1>5 DEF SweepInv, TasksOK, Swept, AllDone, Spared
<1> QED  BY <1>4, <1>6, <1>7 DEF SweepInv

(* What others do: a container that had ended and runs was started by them.*)
LEMMA SweepTrouble ==
  ASSUME SweepInv, NEW c \in Containers, Trouble(c)  PROVE SweepInv'
<1>1. /\ command # None /\ result = "none" /\ troubles < MaxTroubles /\ troubles' = troubles + 1
      /\ UNCHANGED <<command, op, phase, found, chosen, dropped, task, err, result, reached, refused, skipped>>
  BY DEF Trouble, sweep
<1>2. PICK s \in {"running", "paused", "exited", "gone"} :
        /\ state' = [state EXCEPT ![c] = s]
        /\ revived' = IF state[c] = "exited" /\ s = "running" THEN revived \cup {c} ELSE revived
        /\ state[c] = "gone" => FALSE
        /\ state[c] = "exited" => s \in {"running", "gone"}
        /\ state[c] \in Live => s # "gone"
  BY DEF Trouble, Live
<1>3. TypeOK'
  BY <1>1, <1>2, SweepsAssumption DEF SweepInv, TypeOK, Live
<1>4. Calls' = Calls /\ Shares' = Shares
  BY <1>1 DEF Calls, Shares
<1>5. CommandOK' /\ TasksOK' /\ Swept' /\ AllDone'
  BY <1>1, <1>4 DEF SweepInv, CommandOK, TasksOK, Swept, AllDone
<1>6. Spared'
  BY <1>1, <1>2 DEF SweepInv, Spared, TypeOK, Live
<1> QED  BY <1>3, <1>5, <1>6 DEF SweepInv

(* Lists and inspections.                                                  *)
LEMMA SweepFinish ==
  ASSUME SweepInv, ListNothing \/ NothingToRemove  PROVE SweepInv'
<1>1. /\ UNCHANGED <<command, op, phase, found, chosen, dropped, state, troubles, revived, task, err, reached, refused, skipped>>
      /\ result' \in {"err", "empty", "nil"} /\ phase \in {"list", "inspect"}
      /\ phase = "list" => result' # "nil"
  BY DEF ListNothing, NothingToRemove, Finish, Inspected, sweep, outside
<1>2. TypeOK'
  BY <1>1 DEF SweepInv, TypeOK
<1>4. Calls' = Calls /\ Shares' = Shares
  BY <1>1 DEF Calls, Shares
<1>5. CommandOK' /\ TasksOK' /\ Swept' /\ AllDone' /\ Spared'
  BY <1>1, <1>4 DEF SweepInv, CommandOK, TasksOK, Swept, AllDone, Spared
<1> QED  BY <1>2, <1>5 DEF SweepInv

LEMMA Launching ==
  ASSUME NEW S, S \subseteq Containers
  PROVE  /\ Launched(S) \in [Containers -> [at : 0..3, pc : {"off", "wait", "visited", "ready", "read", "done", "failed"}]]
         /\ \A c \in Containers : Launched(S)[c].pc # "off" => c \in S /\ Launched(S)[c].at = 1 /\ Launched(S)[c].pc = "wait"
BY DEF Launched, Idle

LEMMA SweepLaunch ==
  ASSUME SweepInv, List \/ Confirm  PROVE SweepInv'
<1>1. /\ UNCHANGED <<command, op, dropped, state, troubles, revived, err, result, reached, refused, skipped>>
      /\ phase \in {"list", "inspect"} /\ phase' \in {"inspect", "sweep"} /\ result # "nil"
  BY DEF List, Confirm, Inspected, sweep, outside, SweepInv, CommandOK
<1>2. chosen' \subseteq Containers /\ found' \subseteq Containers
  <2>a. chosen \subseteq Containers /\ found \subseteq Containers
    BY DEF SweepInv, TypeOK
  <2>1. CASE List
    <3>1. /\ chosen' \in {chosen, Ours(ListsAll)}
          /\ found' \in {found, Ours(TRUE)}
      BY Zenon, <2>1 DEF List
    <3>2. Ours(ListsAll) \subseteq Containers
      BY Zenon, ContainersSplit
    <3>3. Ours(TRUE) \subseteq Containers
      BY Zenon, ContainersSplit
    <3> QED  BY Zenon, <2>a, <3>1, <3>2, <3>3
  <2>2. CASE Confirm
    BY <2>a, <2>2 DEF Confirm
  <2> QED  BY <2>1, <2>2
<1>3. \/ phase' = "inspect" /\ task' = task /\ chosen' = {}
      \/ phase' = "sweep" /\ task' = Launched(chosen') /\ (op = "rm" => chosen' = chosen)
  <2>1. CASE List
    BY <2>1 DEF List, SweepInv, CommandOK
  <2>2. CASE Confirm
    BY <2>2 DEF Confirm, Launched
  <2> QED  BY <2>1, <2>2
<1>4. TypeOK'
  BY <1>1, <1>2, <1>3, Launching DEF SweepInv, TypeOK
<1>5. Calls' = Calls /\ command # None /\ command' # None
  BY <1>1 DEF Calls, SweepInv, CommandOK
<1>6. 1 \in 1..Len(Calls)
  BY <1>5, CallsShape DEF SweepInv
<1>7. CommandOK'
  BY <1>1, <1>5 DEF SweepInv, CommandOK
<1>8. \A c \in Containers : task'[c].pc # "off" => c \in chosen' /\ task'[c].at = 1 /\ task'[c].pc = "wait" /\ phase' = "sweep"
  BY <1>1, <1>2, <1>3, Launching DEF SweepInv, TasksOK
<1>9. TasksOK'
  BY <1>5, <1>6, <1>8 DEF TasksOK
<1>10. Swept' /\ AllDone'
  BY <1>1, <1>2, <1>8 DEF Swept, AllDone
<1>11. Spared'
  BY <1>1, <1>3 DEF SweepInv, Spared
<1> QED  BY <1>4, <1>7, <1>9, <1>10, <1>11 DEF SweepInv

LEMMA SweepInspect ==
  ASSUME SweepInv, NEW c \in Containers, Inspect(c)  PROVE SweepInv'
<1>1. /\ UNCHANGED <<command, op, phase, dropped, state, troubles, revived, task, err, result, reached, refused, skipped>>
      /\ phase = "inspect" /\ found' \subseteq found
      /\ chosen' = chosen \/ (chosen' = chosen \cup {c} /\ state[c] = "exited")
  BY DEF Inspect, Stopped, outside
<1>2. TypeOK'
  BY <1>1 DEF SweepInv, TypeOK
<1>3. CommandOK' /\ AllDone' /\ Spared'
  BY <1>1 DEF SweepInv, CommandOK, AllDone, Spared
<1>4. Calls' = Calls /\ \A d \in chosen' : task[d].pc = "off"
  BY <1>1 DEF Calls, SweepInv, TasksOK, TypeOK
<1>5. TasksOK' /\ Swept'
  BY <1>1, <1>4 DEF SweepInv, TasksOK, Swept
<1> QED  BY <1>2, <1>3, <1>5 DEF SweepInv

LEMMA SweepStopsFirst ==
  ASSUME SweepInv, StopsFirst  PROVE SweepInv'
<1>1. /\ op # command.op /\ op' = command.op /\ phase = "sweep" /\ phase' = "list" /\ result = "none"
      /\ chosen' = {} /\ task' = AllIdle
      /\ reached' = {} /\ refused' = {} /\ skipped' = {} /\ revived' = {}
      /\ UNCHANGED <<command, state, troubles, found, err, result, dropped>>
  BY DEF StopsFirst, AllEnded
<1>2. command # None /\ command.op \in Kinds
  BY <1>1, Commanded DEF SweepInv, CommandOK
<1>3. TypeOK'
  BY <1>1, <1>2 DEF SweepInv, TypeOK, AllIdle, Idle
<1>4. CommandOK'
  BY <1>1, <1>2 DEF CommandOK
<1>5. TasksOK' /\ Swept' /\ AllDone' /\ Spared'
  BY <1>1 DEF TasksOK, Swept, AllDone, Spared, AllIdle, Idle
<1> QED  BY <1>3, <1>4, <1>5 DEF SweepInv

LEMMA SweepReturn ==
  ASSUME SweepInv, Return  PROVE SweepInv'
<1>1. /\ UNCHANGED <<command, op, phase, found, chosen, state, troubles, revived, task, err, reached, refused, skipped>>
      /\ phase = "sweep" /\ \A c \in chosen : Ended(c)
      /\ result' = IF Failed THEN "err" ELSE "nil"
  BY DEF Return, AllEnded, outside
<1>2. dropped' \in BOOLEAN
  BY Zenon DEF Return
<1>3. TypeOK'
  BY <1>1, <1>2 DEF SweepInv, TypeOK
<1>4. Calls' = Calls /\ Shares' = Shares
  BY <1>1 DEF Calls, Shares
<1>5. CommandOK' /\ TasksOK' /\ Swept' /\ Spared'
  BY <1>1, <1>4 DEF SweepInv, CommandOK, TasksOK, Swept, Spared
<1>6. AllDone'
  BY <1>1 DEF AllDone, Failed, Ended
<1> QED  BY <1>3, <1>5, <1>6 DEF SweepInv

----------------------------------------------------------------------------
(* The goroutines of a sweep.                                              *)

(* Steps that are about goroutines only.                                   *)
LEMMA OnlyTasks ==
  ASSUME SweepInv, UNCHANGED <<sweep, outside, result, reached, refused, skipped>>, err' \in BOOLEAN,
         task' \in [Containers -> [at : 0..3, pc : {"off", "wait", "visited", "ready", "read", "done", "failed"}]],
         \E c \in chosen : task[c].pc \notin {"off", "done"},
         \A c \in Containers :
           \/ task'[c] = task[c]
           \/ /\ c \in chosen /\ task'[c].at \in 1..Len(Calls) /\ task'[c].pc # "read"
              /\ task'[c].pc = "done" => c \in reached \/ (c \in refused /\ Shares)
              /\ task'[c].pc = "ready" /\ task'[c].at = 3 => c \in reached \/ c \in refused
  PROVE  SweepInv'
<1>1. UNCHANGED <<command, op, phase, found, chosen, dropped, troubles, revived, state, result>>
  BY DEF sweep, outside
<1>2. TypeOK'
  BY <1>1 DEF SweepInv, TypeOK
<1>3. Calls' = Calls /\ Shares' = Shares
  BY <1>1 DEF Calls, Shares
<1>4. CommandOK' /\ Spared'
  BY <1>1 DEF SweepInv, CommandOK, Spared
<1>5. chosen \subseteq Containers
  BY DEF SweepInv, TypeOK
<1>6. phase = "sweep" /\ result # "nil"
  BY <1>5 DEF SweepInv, TasksOK, AllDone
<1>7. TasksOK' /\ AllDone'
  BY <1>1, <1>3, <1>6 DEF SweepInv, TasksOK, AllDone
<1>8. Swept'
  BY <1>1, <1>3, <1>5 DEF SweepInv, Swept
<1> QED  BY <1>2, <1>4, <1>7, <1>8 DEF SweepInv

(* The visitor of a service begins, or what it waited for has ended.       *)
LEMMA SweepVisit ==
  ASSUME SweepInv, (\E s \in Services : Visit(s) \/ Enter(s)) \/ WaitFails  PROVE SweepInv'
<1>1. PICK s \in Services, pc \in {"ready", "visited", "failed"} :
        /\ Moved(s, pc) /\ UNCHANGED <<sweep, outside, result, reached, refused, skipped>>
        /\ \E c \in chosen \cap Of(s) : task[c].pc \in {"wait", "visited"}
  BY DEF Visit, Enter, WaitFails, Waits, Services
<1>2. err' \in BOOLEAN
  <2>1. err \in BOOLEAN
    BY DEF SweepInv, TypeOK
  <2>2. CASE \E z \in Services : Visit(z)
    BY <2>2, Zenon DEF Visit
  <2>3. CASE ~\E z \in Services : Visit(z)
    BY <2>1, <2>3 DEF Enter, WaitFails
  <2> QED  BY <2>2, <2>3
<1>3. chosen \subseteq Containers /\ command # None
  BY <1>1 DEF SweepInv, TypeOK, CommandOK
<1>4. 1 \in 1..Len(Calls)
  BY <1>3, CallsShape DEF SweepInv
<1>5. task' \in [Containers -> [at : 0..3, pc : {"off", "wait", "visited", "ready", "read", "done", "failed"}]]
  BY <1>1 DEF Moved, SweepInv, TypeOK
<1>6. \A c \in Containers : \/ task'[c] = task[c]
                            \/ c \in chosen /\ task'[c] = [at |-> 1, pc |-> pc]
  BY <1>1 DEF Moved
<1>7. \A c \in Containers : \/ task'[c] = task[c]
                            \/ c \in chosen /\ task'[c].at = 1 /\ task'[c].pc \notin {"read", "done"}
  BY <1>6
<1> QED  BY <1>1, <1>2, <1>4, <1>5, <1>7, OnlyTasks

LEMMA SweepRead ==
  ASSUME SweepInv, NEW c \in Containers, Read(c)  PROVE SweepInv'
<1>1. /\ task[c].pc = "read" /\ UNCHANGED <<sweep, outside, err, result, reached, refused, skipped>>
      /\ task' = [task EXCEPT ![c] = [at |-> IF task[c].at = Len(Calls) \/ err THEN task[c].at ELSE task[c].at + 1,
                                      pc |-> IF err THEN "failed" ELSE IF task[c].at = Len(Calls) THEN "done" ELSE "ready"]]
  BY DEF Read
<1>2. /\ c \in chosen /\ task[c].at \in 1..Len(Calls)
      /\ task \in [Containers -> [at : 0..3, pc : {"off", "wait", "visited", "ready", "read", "done", "failed"}]]
  BY <1>1 DEF SweepInv, TasksOK, TypeOK
<1>3. command # None
  BY <1>2 DEF SweepInv, CommandOK
<1>4. command.hooks \in BOOLEAN /\ Len(Calls) \in 1..3 /\ (Len(Calls) = 1 <=> ~command.hooks)
  <2>1. TypeOK /\ CommandOK
    BY DEF SweepInv
  <2> QED  BY <1>3, <2>1, CallsShape, Commanded
<1>5. /\ Shares
      /\ ~command.hooks \/ task[c].at # 1 => c \in reached \/ c \in refused
  BY <1>1, <1>2 DEF SweepInv, Swept
<1>6. err' \in BOOLEAN
  BY <1>1 DEF SweepInv, TypeOK
<1> DEFINE last == task[c].at = Len(Calls)
<1>a. task'[c] = [at |-> IF last \/ err THEN task[c].at ELSE task[c].at + 1,
                  pc |-> IF err THEN "failed" ELSE IF last THEN "done" ELSE "ready"]
  BY <1>1, <1>2
<1>b. /\ task'[c].at = IF last \/ err THEN task[c].at ELSE task[c].at + 1
      /\ task'[c].pc = IF err THEN "failed" ELSE IF last THEN "done" ELSE "ready"
  BY <1>a
<1>c. task[c].at \in Nat /\ Len(Calls) \in Nat /\ task[c].at <= Len(Calls) /\ task[c].at >= 1 /\ Len(Calls) <= 3
  <2> DEFINE n == Len(Calls)
  <2> DEFINE k == task[c].at
  <2>1. n \in 1..3 /\ k \in 1..n
    BY <1>2, <1>4
  <2> HIDE DEF n, k
  <2>2. k \in Nat /\ n \in Nat /\ k <= n /\ k >= 1 /\ n <= 3
    BY <2>1
  <2> QED  BY <2>2 DEF n, k
<1>7. /\ task'[c].at \in 1..Len(Calls) /\ task'[c].at \in 0..3 /\ task'[c].pc \in {"failed", "done", "ready"}
      /\ task'[c].pc = "done" => last
      /\ task'[c].pc = "ready" => ~last /\ task'[c].at = task[c].at + 1
  BY <1>b, <1>c
<1>8. /\ task'[c].pc = "done" => c \in reached \/ (c \in refused /\ Shares)
      /\ task'[c].pc = "ready" /\ task'[c].at = 3 => c \in reached \/ c \in refused
  <2>1. CASE task'[c].pc = "done"
    <3>1. ~command.hooks \/ task[c].at # 1
      BY <1>4, <1>7, <2>1
    <3> QED  BY <1>5, <2>1, <3>1
  <2>2. CASE task'[c].pc = "ready" /\ task'[c].at = 3
    <3>1. task[c].at # 1
      BY <1>7, <1>c, <2>2
    <3> QED  BY <1>5, <2>2, <3>1
  <2> QED  BY <2>1, <2>2
<1>9. task' \in [Containers -> [at : 0..3, pc : {"off", "wait", "visited", "ready", "read", "done", "failed"}]]
  <2>1. task'[c] \in [at : 0..3, pc : {"off", "wait", "visited", "ready", "read", "done", "failed"}]
    BY <1>a, <1>b, <1>7
  <2> QED  BY <1>1, <1>2, <2>1
<1>10. \A d \in Containers : \/ task'[d] = task[d]
                             \/ /\ d \in chosen /\ task'[d].at \in 1..Len(Calls) /\ task'[d].pc # "read"
                                /\ task'[d].pc = "done" => d \in reached \/ (d \in refused /\ Shares)
                                /\ task'[d].pc = "ready" /\ task'[d].at = 3 => d \in reached \/ d \in refused
  <2>1. \A d \in Containers \ {c} : task'[d] = task[d]
    BY <1>1, <1>2
  <2> QED  BY <1>2, <1>7, <1>8, <2>1
<1> QED  BY <1>1, <1>2, <1>6, <1>9, <1>10, OnlyTasks

(* The call a goroutine makes next, and who makes it.                      *)
CallOf(c) == Calls[task[c].at]
LastOf(c) == task[c].at = Len(Calls)

LEMMA ItsCall ==
  ASSUME SweepInv, NEW c \in Containers, task[c].pc = "ready"
  PROVE  /\ c \in chosen /\ phase = "sweep" /\ result # "nil" /\ command # None
         /\ task[c].at \in 1..3 /\ Len(Calls) \in 1..3 /\ task[c].at <= Len(Calls)
         /\ Len(Calls) = 3 => Shares
         /\ Len(Calls) = 1 <=> ~command.hooks
         /\ CallOf(c) = "hook" <=> command.hooks /\ task[c].at # 2
         /\ CallOf(c) = "hook" /\ LastOf(c) => Shares /\ task[c].at = 3
         /\ CallOf(c) # "hook" => CallOf(c) = op
<1>1. TypeOK /\ CommandOK /\ TasksOK /\ AllDone
  BY DEF SweepInv
<1>2. c \in chosen /\ phase = "sweep" /\ result # "nil" /\ task[c].at \in 1..Len(Calls)
  BY <1>1 DEF TasksOK, AllDone
<1>3. command # None
  BY <1>1, <1>2 DEF CommandOK
<1>4. op \in Kinds \cup {"stop"} /\ op # "hook" /\ command.hooks \in BOOLEAN
  BY <1>1, <1>3, Commanded, SweepsAssumption
<1>5. CASE ~command.hooks
  <2>1. Len(Calls) = 1 /\ Calls[1] = op
    BY <1>1, <1>3, <1>5, CallsShape
  <2>2. task[c].at = 1
    BY <1>2, <2>1
  <2> QED  BY <1>2, <1>3, <1>4, <1>5, <2>1, <2>2 DEF CallOf, LastOf
<1>6. CASE command.hooks /\ op = "stop"
  <2>1. Len(Calls) = 2 /\ Calls[1] = "hook" /\ Calls[2] = "stop"
    BY <1>1, <1>3, <1>6, CallsShape
  <2>2. task[c].at \in {1, 2}
    BY <1>2, <2>1
  <2> QED  BY <1>2, <1>3, <1>6, <2>1, <2>2 DEF CallOf, LastOf
<1>7. CASE command.hooks /\ op = "restart"
  <2>1. Len(Calls) = 3 /\ Calls[1] = "hook" /\ Calls[2] = "restart" /\ Calls[3] = "hook" /\ Shares
    BY <1>1, <1>3, <1>7, CallsShape DEF Shares
  <2>2. task[c].at \in {1, 2, 3}
    BY <1>2, <2>1
  <2> QED  BY <1>2, <1>3, <1>7, <2>1, <2>2 DEF CallOf, LastOf
<1> QED  BY <1>1, <1>3, <1>5, <1>6, <1>7, CallsShape

(* What a call does to its container, and where it leaves its goroutine.   *)
LEMMA CallDoes ==
  ASSUME SweepInv, NEW c \in Containers, Call(c)
  PROVE  /\ task[c].pc = "ready" /\ UNCHANGED <<sweep, result, troubles, revived>> /\ err' \in BOOLEAN
         /\ \/ state' = state
            \/ Accepts(CallOf(c), state[c]) /\ state' = [state EXCEPT ![c] = After(CallOf(c), state[c])]
         /\ \/ /\ skipped' = skipped \cup {c} /\ UNCHANGED <<reached, refused>>
               /\ task' = [task EXCEPT ![c] = [at |-> task[c].at, pc |-> "done"]]
            \/ /\ UNCHANGED skipped
               /\ \/ reached' = reached /\ refused' = refused \cup {c}
                     /\ task' = [task EXCEPT ![c] = [at |-> IF LastOf(c) \/ Shares THEN task[c].at ELSE task[c].at + 1,
                                                     pc |-> IF Shares THEN "read" ELSE "failed"]]
                  \/ reached' = (IF CallOf(c) = "hook" THEN reached ELSE reached \cup {c}) /\ refused' = refused
                     /\ task' = [task EXCEPT ![c] = [at |-> IF LastOf(c) \/ Shares THEN task[c].at ELSE task[c].at + 1,
                                                     pc |-> IF Shares THEN "read" ELSE IF LastOf(c) THEN "done" ELSE "ready"]]
<1>1. PICK failed \in BOOLEAN :
        /\ ~failed => Accepts(CallOf(c), state[c])
        /\ \/ ~failed /\ state' = [state EXCEPT ![c] = After(CallOf(c), @)]
           \/ failed /\ UNCHANGED state
           \/ failed /\ Accepts(CallOf(c), state[c]) /\ state' = [state EXCEPT ![c] = After(CallOf(c), @)]
        /\ IF Skips(c, CallOf(c), failed)
           THEN /\ skipped' = skipped \cup {c}
                /\ task' = [task EXCEPT ![c].pc = "done"]
                /\ UNCHANGED <<err, reached, refused>>
           ELSE /\ task' = [task EXCEPT ![c] = [at |-> IF LastOf(c) \/ Shares THEN @.at ELSE @.at + 1,
                                                pc |-> NextPC(c, LastOf(c), failed)]]
                /\ err' = (Shares /\ failed)
                /\ reached' = IF failed \/ CallOf(c) = "hook" THEN reached ELSE reached \cup {c}
                /\ refused' = IF failed THEN refused \cup {c} ELSE refused
                /\ UNCHANGED skipped
  BY Zenon DEF Call, CallOf, LastOf
<1>2. task[c].pc = "ready" /\ UNCHANGED <<sweep, result, troubles, revived>>
  BY DEF Call
<1>3. err' \in BOOLEAN
  <2>1. err \in BOOLEAN
    BY DEF SweepInv, TypeOK
  <2>2. err' = err \/ err' = (Shares /\ failed)
    BY Zenon, <1>1
  <2> QED  BY Zenon, <2>1, <2>2
<1>4. \/ state' = state
      \/ Accepts(CallOf(c), state[c]) /\ state' = [state EXCEPT ![c] = After(CallOf(c), state[c])]
  BY Zenon, <1>1
<1>5. task[c] \in [at : 0..3, pc : {"off", "wait", "visited", "ready", "read", "done", "failed"}]
  BY DEF SweepInv, TypeOK
<1>6. CASE Skips(c, CallOf(c), failed)
  <2>1. [task[c] EXCEPT !.pc = "done"] = [at |-> task[c].at, pc |-> "done"]
    BY <1>5
  <2>2. skipped' = skipped \cup {c} /\ task' = [task EXCEPT ![c].pc = "done"] /\ UNCHANGED <<reached, refused>>
    BY <1>1, <1>6
  <2> QED  BY <1>2, <1>3, <1>4, <2>1, <2>2
<1>7. CASE ~Skips(c, CallOf(c), failed)
  BY <1>1, <1>2, <1>3, <1>4, <1>7 DEF NextPC
<1> QED  BY <1>6, <1>7

LEMMA SweepCall ==
  ASSUME SweepInv, NEW c \in Containers, Call(c)  PROVE SweepInv'
<1>1. /\ task[c].pc = "ready" /\ err' \in BOOLEAN
      /\ UNCHANGED <<command, op, phase, found, chosen, dropped, result, troubles, revived>>
  BY CallDoes DEF sweep
<1>2. Calls' = Calls /\ Shares' = Shares
  BY <1>1 DEF Calls, Shares
<1> DEFINE Leads(at, pc) ==
      /\ task' = [task EXCEPT ![c] = [at |-> at, pc |-> pc]]
      /\ at <= Len(Calls)
      /\ pc = "done" => c \in reached' \/ c \in skipped'
      /\ pc = "read" => Shares /\ (~command.hooks \/ at # 1 => c \in reached' \/ c \in refused')
      /\ pc = "ready" => at # 3
      /\ reached \subseteq reached' /\ refused \subseteq refused' /\ skipped \subseteq skipped'
      /\ reached' \cup refused' \cup skipped' \subseteq reached \cup refused \cup skipped \cup {c}
<1>3. \E at \in 1..3, pc \in {"done", "read", "failed", "ready"} : Leads(at, pc)
  <2>0. /\ task[c].at \in 1..3 /\ Len(Calls) \in 1..3 /\ task[c].at <= Len(Calls)
        /\ Len(Calls) = 3 => Shares
        /\ CallOf(c) = "hook" => command.hooks /\ task[c].at # 2
        /\ CallOf(c) = "hook" /\ LastOf(c) => Shares
        /\ Shares \in BOOLEAN
    BY <1>1, ItsCall DEF Shares
  <2>1. task[c].at = 3 => c \in reached \/ c \in refused
    BY <1>1, ItsCall DEF SweepInv, Swept
  <2> DEFINE next == IF LastOf(c) \/ Shares THEN task[c].at ELSE task[c].at + 1
  <2>2. next \in 1..3 /\ next <= Len(Calls) /\ (~Shares /\ ~LastOf(c) => next # 3)
    <3> DEFINE k == task[c].at
    <3> DEFINE n == Len(Calls)
    <3>1. /\ k \in 1..3 /\ n \in 1..3 /\ k <= n /\ (n = 3 => Shares)
          /\ next = IF k = n \/ Shares THEN k ELSE k + 1
          /\ LastOf(c) = (k = n)
      BY <2>0 DEF LastOf
    <3> HIDE DEF k, n, next
    <3>2. next \in 1..3 /\ next <= n /\ (~Shares /\ k # n => next # 3)
      BY <3>1
    <3> QED  BY <3>1, <3>2 DEF n
  <2>3. CASE /\ skipped' = skipped \cup {c} /\ UNCHANGED <<reached, refused>>
             /\ task' = [task EXCEPT ![c] = [at |-> task[c].at, pc |-> "done"]]
    <3>1. Leads(task[c].at, "done")
      BY <2>0, <2>3
    <3> QED  BY <2>0, <3>1
  <2>4. CASE /\ UNCHANGED skipped /\ reached' = reached /\ refused' = refused \cup {c}
             /\ task' = [task EXCEPT ![c] = [at |-> next, pc |-> IF Shares THEN "read" ELSE "failed"]]
    <3> DEFINE where == IF Shares THEN "read" ELSE "failed"
    <3>1. where \in {"done", "read", "failed", "ready"}
      OBVIOUS
    <3>2. Leads(next, where)
      BY <2>2, <2>4
    <3> HIDE DEF Leads, next, where
    <3> QED  BY <2>2, <3>1, <3>2
  <2>5. CASE /\ UNCHANGED skipped
             /\ reached' = (IF CallOf(c) = "hook" THEN reached ELSE reached \cup {c}) /\ refused' = refused
             /\ task' = [task EXCEPT ![c] = [at |-> next, pc |-> IF Shares THEN "read" ELSE IF LastOf(c) THEN "done" ELSE "ready"]]
    <3> DEFINE where == IF Shares THEN "read" ELSE IF LastOf(c) THEN "done" ELSE "ready"
    <3>1. where \in {"done", "read", "failed", "ready"}
      OBVIOUS
    <3>2. where = "done" => c \in reached'
      BY <2>0, <2>5
    <3>3. where = "read" => Shares /\ next = task[c].at
      OBVIOUS
    <3>4. where = "read" /\ (~command.hooks \/ next # 1) => c \in reached' \/ c \in refused'
      BY <2>0, <2>1, <2>5, <3>3
    <3>5. where = "ready" => next # 3
      BY <2>2
    <3>6. task' = [task EXCEPT ![c] = [at |-> next, pc |-> where]]
      BY <2>5
    <3>7. /\ reached \subseteq reached' /\ refused \subseteq refused' /\ skipped \subseteq skipped'
          /\ reached' \cup refused' \cup skipped' \subseteq reached \cup refused \cup skipped \cup {c}
      BY <2>5
    <3> HIDE DEF where, next
    <3>8. Leads(next, where)
      BY <2>2, <3>2, <3>3, <3>4, <3>5, <3>6, <3>7
    <3> HIDE DEF Leads
    <3> QED  BY <2>2, <3>1, <3>8
  <2> QED  BY <2>3, <2>4, <2>5, CallDoes
<1>p. PICK at \in 1..3, pc \in {"done", "read", "failed", "ready"} : Leads(at, pc)
  BY <1>3
<1>4. /\ \A d \in Containers \ {c} : task'[d] = task[d]
      /\ task'[c].at = at /\ task'[c].pc = pc
      /\ task' \in [Containers -> [at : 0..3, pc : {"off", "wait", "visited", "ready", "read", "done", "failed"}]]
  BY <1>p DEF SweepInv, TypeOK
<1>a. /\ c \in chosen /\ phase = "sweep" /\ result # "nil" /\ command # None
      /\ CallOf(c) # "hook" => CallOf(c) = op
      /\ op = "rm" => CallOf(c) = "rm"
  <2>1. /\ c \in chosen /\ phase = "sweep" /\ result # "nil" /\ command # None
        /\ CallOf(c) # "hook" => CallOf(c) = op
        /\ CallOf(c) = "hook" => command.hooks
    BY <1>1, ItsCall
  <2>2. command.hooks => op \in {"stop", "restart"}
    BY <2>1, Commanded DEF SweepInv
  <2> QED  BY <2>1, <2>2
<1>b. /\ state' \in [Containers -> Live \cup {"exited", "gone"}]
      /\ \A d \in Containers : state'[d] # state[d] => d = c /\ state'[d] = After(CallOf(c), state[c])
  <2>1. state \in [Containers -> Live \cup {"exited", "gone"}]
    BY DEF SweepInv, TypeOK
  <2>2. After(CallOf(c), state[c]) \in Live \cup {"exited", "gone"}
    BY <2>1 DEF After, Live
  <2>3. state' = state \/ state' = [state EXCEPT ![c] = After(CallOf(c), state[c])]
    BY CallDoes
  <2> QED  BY <2>1, <2>2, <2>3
<1>5. TypeOK'
  <2>1. (reached \cup refused \cup skipped)' \subseteq Containers
    BY <1>p DEF SweepInv, TypeOK
  <2>2. (found \cup chosen \cup reached \cup refused \cup skipped \cup revived)' \subseteq Containers
    BY <1>1, <2>1 DEF SweepInv, TypeOK
  <2> QED  BY <1>1, <1>4, <1>b, <2>2 DEF SweepInv, TypeOK
<1>6. CommandOK'
  BY <1>1, <1>a DEF SweepInv, CommandOK
<1>7. TasksOK' /\ AllDone'
  <2>1. at \in 1..Len(Calls)
    <3>1. Len(Calls) \in 1..3
      BY <1>1, ItsCall
    <3> QED  BY <1>p, <3>1
  <2> QED  BY <1>1, <1>2, <1>4, <1>a, <2>1 DEF SweepInv, TasksOK, AllDone
<1>8. Swept'
  <2>1. \A d \in chosen \ {c} : task'[d] = task[d]
    BY <1>4 DEF SweepInv, TypeOK
  <2>2. \A d \in chosen \ {c} :
          /\ task'[d].pc = "done" => d \in reached' \/ d \in skipped' \/ (d \in refused' /\ Shares)
          /\ task'[d].pc = "read" => Shares /\ (~command.hooks \/ task'[d].at # 1 => d \in reached' \/ d \in refused')
          /\ task'[d].pc = "ready" /\ task'[d].at = 3 => d \in reached' \/ d \in refused'
    BY <1>p, <2>1 DEF SweepInv, Swept
  <2> QED  BY <1>1, <1>2, <1>p, <1>4, <2>2 DEF Swept
<1>9. Spared'
  <2>1. op = "rm" => After(CallOf(c), state[c]) = "gone"
    BY <1>a DEF After
  <2>2. chosen \subseteq Containers
    BY DEF SweepInv, TypeOK
  <2> QED  BY <1>1, <1>b, <2>1, <2>2 DEF SweepInv, Spared
<1> QED  BY <1>5, <1>6, <1>7, <1>8, <1>9 DEF SweepInv

LEMMA SweepStep == SweepInv /\ [Next]_vars => SweepInv'
<1> SUFFICES ASSUME SweepInv, [Next]_vars  PROVE SweepInv'
  OBVIOUS
<1>1. CASE UNCHANGED vars
  <2>1. /\ UNCHANGED <<command, op, phase, state, found, chosen, task, err, result, dropped, troubles,
                       reached, refused, skipped, revived>>
    BY <1>1 DEF vars
  <2>2. Calls' = Calls /\ Shares' = Shares
    BY <2>1 DEF Calls, Shares
  <2>3. TypeOK' /\ CommandOK'
    BY <2>1 DEF SweepInv, TypeOK, CommandOK
  <2>4. TasksOK' /\ Swept' /\ AllDone' /\ Spared'
    BY <2>1, <2>2 DEF SweepInv, TasksOK, Swept, AllDone, Spared
  <2> QED  BY <2>3, <2>4 DEF SweepInv
<1>2. CASE Next
  BY <1>2, SweepGive, SweepFinish, SweepLaunch, SweepVisit, SweepStopsFirst, SweepReturn,
     SweepTrouble, SweepInspect, SweepCall, SweepRead DEF Next
<1> QED  BY <1>1, <1>2

(* Who removes what runs: rm with --force, from those who were revived.    *)
LEMMA Sparing ==
  ASSUME SweepInv, [Next]_vars, NEW c \in Containers, state[c] \in Live, state'[c] = "gone"
  PROVE  command.flag /\ c \in revived
<1>0. state \in [Containers -> Live \cup {"exited", "gone"}] /\ state[c] # "gone" /\ state[c] # "exited"
  BY DEF SweepInv, TypeOK, Live
<1>1. state' # state
  BY <1>0
<1>2. ~Give
  BY DEF Give
<1>3. ASSUME NEW d \in Containers, Trouble(d)  PROVE FALSE
  <2>1. PICK s : state' = [state EXCEPT ![d] = s] /\ (state[d] \in Live => s # "gone")
    BY <1>3 DEF Trouble, Live
  <2> QED  BY <1>0, <2>1
<1>4. ASSUME NEW d \in Containers, Call(d)  PROVE command.flag /\ c \in revived
  <2>1. d = c /\ Accepts(CallOf(c), state[c]) /\ After(CallOf(c), state[c]) = "gone"
    BY <1>0, <1>1, <1>4, CallDoes
  <2>2. CallOf(c) = "rm"
    BY <1>0, <2>1 DEF After
  <2>3. command.flag
    BY <1>0, <2>1, <2>2 DEF Accepts
  <2>4. c \in chosen /\ op = "rm"
    BY <1>4, <2>1, <2>2, CallDoes, ItsCall
  <2> QED  BY <1>0, <2>3, <2>4 DEF SweepInv, Spared
<1>5. CASE UNCHANGED state
  BY <1>1, <1>5
<1>6. \/ UNCHANGED state \/ Give
      \/ \E d \in Containers : Trouble(d) \/ Call(d)
  BY DEF Next, vars, ListNothing, NothingToRemove, Finish, List, Confirm, WaitFails, StopsFirst, Return,
         Visit, Enter, Inspect, Read, outside
<1> QED  BY <1>2, <1>3, <1>4, <1>5, <1>6

(* A sweep that reports success has made its call on every container it    *)
(* was about, or a shared error was lost or a hook could not be run        *)
(* (pause.go:80, restart.go:92, down.go:309); and what runs is removed     *)
(* only by rm --force, when others started it after it was inspected       *)
(* (remove.go:69): for any containers, and any troubles.                   *)
THEOREM SweepsAreHonestAlways == Spec => SweepsAreHonest
<1>1. Init => SweepInv
  BY SweepInit
<1>2. SweepInv /\ [Next]_vars => SweepInv'
  BY SweepStep
<1>3. SweepInv => TypeOK /\ SuccessMeansSwept
  BY DEF SweepInv, AllDone, Swept, SuccessMeansSwept
<1>4. SweepInv /\ [Next]_vars =>
        [\A c \in Containers : state[c] \in Live /\ state'[c] = "gone" => command.flag /\ c \in revived]_vars
  BY Sparing
<1> QED  BY <1>1, <1>2, <1>3, <1>4, PTL DEF Spec, SweepsAreHonest, RunningIsSpared
=============================================================================
