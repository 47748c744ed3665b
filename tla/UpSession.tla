----------------------------- MODULE UpSession -----------------------------
(***************************************************************************)
(* The attached part of "up" (pkg/compose/up.go), from the point where the *)
(* containers are created and the signal channel is registered.  The main  *)
(* goroutine attaches, starts the containers and waits for a group of      *)
(* goroutines: the handler of signals and keys, the monitor of the         *)
(* engine's events (monitor.go), the stop passes and the kill they ask     *)
(* for.  They share two contexts (the command's, which AdaptCmd cancels on *)
(* a signal, and globalCtx, its child), errs, exitCode, and err, which two *)
(* of them write without a lock.                                           *)
(*                                                                         *)
(* The engine runs the containers and tells the monitor of starts and      *)
(* ends, in order, from the moment it subscribes.  The walks that order    *)
(* start and stop and the waits for dependencies are the subject of        *)
(* GraphTraversal and ServiceStart: here any order is possible.            *)
(***************************************************************************)
EXTENDS Integers, Sequences, FiniteSets

CONSTANTS Containers,    \* The containers of projects, each its own service
          ExitCodes,     \* What containers exit with by themselves, and
          StopCodes,     \* when they are stopped or killed
          MaxTroubles    \* Bound: signals, restarts and calls of the engine that fail

ASSUME CodesAssumption == ExitCodes \cup StopCodes \subseteq Nat
ASSUME MaxTroublesAssumption == MaxTroubles \in Nat

VARIABLES
  st,                  \* st[c]: the container in the engine
  events,              \* Events the monitor has still to read
  silent,              \* Containers that do not run and whose end the monitor is not told
  passed,              \* Containers that ended, or that a stop pass went to, before start is over
  revived,             \* Containers a command started afterwards
  firstCode,           \* The exit code of the first end told of the container of exitFrom, or -1
  project,             \* The containers of the project
  watches,             \* Start.AttachTo, the containers to monitor
  onExit,              \* Start.OnExit: "ignore", "stop" or "fail"
  exitFrom,            \* Start.ExitCodeFrom, or "nobody"
  menu,                \* The navigation menu reads the keyboard
  signals,             \* Signals in signalChan
  adapt,               \* The goroutine of AdaptCmd: "waits", "told" or "done"
  ctxDone,             \* The command's context is done
  cancelled,           \* cancel() was called on globalCtx
  handler,             \* Where the handler of signals is
  stop,                \* stop[k]: the stop pass for a signal, and for the first exit
  kill,                \* The kill
  monitor,             \* Where the monitor is, or how it ended
  watched,             \* The monitor's variable containers
  captured,            \* The exit code of exitFrom was captured
  main,                \* Where the main goroutine is
  toStart,             \* Containers start has still to start
  err, errs,           \* The variable err is not nil; errs is not empty
  exitCode,
  result,              \* What Up returned: "none", "nil", "code" or "err"
  budget,              \* Troubles still to come
  restarted, faulty    \* A container was restarted, not by start; a call failed

engine   == <<st, events, silent, passed, revived, firstCode>>
options  == <<project, watches, onExit, exitFrom>>
contexts == <<ctxDone, cancelled, adapt>>
handling == <<handler, signals, menu>>
passes   == <<stop, kill>>
watching == <<monitor, watched, captured>>
mains    == <<main, toStart, result>>
outcome  == <<err, errs, exitCode>>
bounds   == <<budget, restarted, faulty>>
vars     == <<engine, options, contexts, handling, passes, watching, mains, outcome, bounds>>

Live(c)  == st[c] \in {"running", "restarting"}
None     == [pc |-> "none", todo |-> {}]
Pass     == [pc |-> "going", todo |-> project]
Done     == [pc |-> "done", todo |-> {}]

Init ==
  /\ project \in (SUBSET Containers) \ {{}}
  /\ watches \in (SUBSET project) \ {{}}
  /\ st \in [project -> {"created", "running", "exited"}]
  /\ events = <<>> /\ silent = {c \in project : ~Live(c)}
  /\ passed = {} /\ revived = {} /\ firstCode = -1
  /\ onExit \in {"ignore", "stop", "fail"}
  /\ exitFrom \in watches \cup {"nobody"}
  /\ exitFrom # "nobody" => onExit # "ignore"
  /\ menu \in BOOLEAN
  /\ signals = 0 /\ adapt = "waits" /\ ctxDone = FALSE /\ cancelled = FALSE
  /\ handler = "select"
  /\ stop = [k \in {"signal", "exit"} |-> None] /\ kill = None
  /\ monitor = "none" /\ watched = {} /\ captured = FALSE
  /\ main = "attach" /\ toStart = {}
  /\ err = FALSE /\ errs = FALSE /\ exitCode = 0 /\ result = "none"
  /\ budget \in 0..MaxTroubles /\ restarted = FALSE /\ faulty = FALSE

globalDone   == ctxDone \/ cancelled
first        == stop["signal"] = None   \* The handler has not begun the teardown
isTerminated == ~first
onceExit     == stop["exit"] = None     \* No container has exited, as OnExit counts
Trouble      == budget > 0 /\ budget' = budget - 1
Fault        == Trouble /\ faulty' = TRUE

----------------------------------------------------------------------------
(* The engine: containers start and end, and the monitor is told so when   *)
(* it has subscribed.                                                      *)
Told       == monitor = "loop"
Over       == main = "returned"   \* What happens then is not followed
StartingUp == main \in {"attach", "start", "starting"}

Tell(c, action, code) ==
  events' = IF Told THEN Append(events, [c |-> c, action |-> action, code |-> code]) ELSE events

PassedBy(c) == passed' = IF StartingUp THEN passed \cup {c} ELSE passed

Starts(c) ==
  /\ st' = [st EXCEPT ![c] = "running"]
  /\ silent' = silent \ {c}
  /\ Tell(c, "start", 0)
  /\ UNCHANGED <<passed, firstCode>>

(* The container ends with a code, for good or to be restarted.            *)
Ends(c, code, to) ==
  /\ st' = [st EXCEPT ![c] = to]
  /\ Tell(c, "die", code)
  /\ silent' = IF Told \/ to = "restarting" THEN silent ELSE silent \cup {c}
  /\ firstCode' = IF Told /\ c = exitFrom /\ firstCode = -1 THEN code ELSE firstCode
  /\ PassedBy(c)
  /\ UNCHANGED revived

(* Stopping a container between two runs need not be told.                 *)
Halts(c) ==
  \/ ~Live(c) /\ PassedBy(c) /\ UNCHANGED <<st, events, silent, revived, firstCode>>
  \/ Live(c) /\ \E code \in StopCodes : Ends(c, code, "exited")
  \/ /\ st[c] = "restarting"
     /\ st' = [st EXCEPT ![c] = "exited"]
     /\ silent' = silent \cup {c}
     /\ PassedBy(c)
     /\ UNCHANGED <<events, revived, firstCode>>

Compose == <<options, contexts, handling, passes, watching, mains, outcome>>

Exit(c) ==
  /\ ~Over /\ st[c] = "running"
  /\ \E code \in ExitCodes :
       \/ Ends(c, code, "exited") /\ UNCHANGED <<budget, restarted>>
       \/ Ends(c, code, "restarting") /\ Trouble /\ restarted' = TRUE
  /\ UNCHANGED <<Compose, faulty>>

PolicyRestarts(c) ==
  /\ ~Over /\ st[c] = "restarting"
  /\ Starts(c)
  /\ UNCHANGED <<Compose, revived, bounds>>

(* Somebody else starts a container.                                       *)
OthersStart(c) ==
  /\ ~Over /\ st[c] = "exited"
  /\ Trouble /\ restarted' = TRUE
  /\ Starts(c)
  /\ revived' = revived \cup {c}
  /\ UNCHANGED <<Compose, faulty>>

----------------------------------------------------------------------------
(* Contexts and signals.  A handler blocked in its select takes the case   *)
(* that first becomes ready, one that comes to it takes any that is; when  *)
(* it takes globalCtx.Done it returns.                                     *)
Wake(taken) == handler' = IF handler = "blocked" THEN taken ELSE handler

(* cancel() of globalCtx, by a goroutine other than the handler.           *)
Cancel == cancelled' = TRUE /\ Wake("returned")

(* SIGINT or SIGTERM goes to both channels; a full one drops it.           *)
Signal ==
  /\ ~Over /\ Trouble
  /\ adapt' = IF adapt = "waits" THEN "told" ELSE adapt
  /\ Wake("signal")
  /\ signals' = IF handler = "blocked" \/ signals = 2 THEN signals ELSE signals + 1
  /\ UNCHANGED <<engine, options, ctxDone, cancelled, menu, passes, watching, mains, outcome, restarted, faulty>>

AdaptCmd ==
  /\ ~Over /\ adapt = "told" /\ adapt' = "done"
  /\ ctxDone' = TRUE
  /\ Wake("ctx")
  /\ UNCHANGED <<engine, options, cancelled, signals, menu, passes, watching, mains, outcome, bounds>>

----------------------------------------------------------------------------
(* The handler of signals and keys.                                        *)
Ready == {taken \in {"returned", "ctx", "signal"} :
            \/ taken = "returned" /\ globalDone
            \/ taken = "ctx" /\ ctxDone /\ first
            \/ taken = "signal" /\ signals > 0}

Select ==
  /\ handler = "select"
  /\ handler' \in IF Ready = {} THEN {"blocked"} ELSE Ready
  /\ signals' = IF handler' = "signal" THEN signals - 1 ELSE signals
  /\ UNCHANGED <<engine, options, contexts, menu, passes, watching, mains, outcome, bounds>>

(* HandleKeyEvents: 'd' detaches, Ctrl-C sends to the handler itself, any  *)
(* other key keeps it busy.                                                *)
HandleKeyEvents ==
  /\ menu /\ handler = "blocked" /\ handler' = "select"
  /\ \/ cancelled' = TRUE /\ UNCHANGED <<menu, signals, budget>>
     \/ /\ Trouble
        /\ menu' = FALSE
        /\ signals' = signals + 1
        /\ UNCHANGED cancelled
     \/ UNCHANGED <<cancelled, menu, signals, budget>>
  /\ UNCHANGED <<engine, options, ctxDone, adapt, passes, watching, mains, outcome, restarted, faulty>>

GracefulTeardown ==
  /\ handler \in {"ctx", "signal"} /\ first
  /\ stop' = [stop EXCEPT !["signal"] = Pass]
  /\ handler' = "select"
  /\ menu' = (menu /\ handler = "ctx")
  /\ UNCHANGED <<engine, options, contexts, signals, kill, watching, mains, outcome, bounds>>

SecondSignal ==
  /\ handler = "signal" /\ ~first
  /\ kill' = Pass
  /\ handler' = "returned"
  /\ UNCHANGED <<engine, options, contexts, signals, menu, stop, watching, mains, outcome, bounds>>

----------------------------------------------------------------------------
(* A stop pass lists the containers and stops each, in a context that is   *)
(* never done.  It writes err and appends what it reads back, which may be *)
(* what start wrote in between.                                            *)
Stopper == <<options, contexts, handling, kill, watching, mains, exitCode, restarted>>

StopContainer(k, c) ==
  /\ stop[k].pc = "going" /\ c \in stop[k].todo
  /\ Halts(c)
  /\ stop' = [stop EXCEPT ![k].todo = @ \ {c}]
  /\ UNCHANGED <<Stopper, err, errs, budget, faulty>>

\* Variant: the pass gets globalCtx, without context.WithoutCancel.
BugStopReturns(k) ==
  /\ stop[k].pc = "going" /\ (globalDone \/ stop[k].todo = {})
  /\ err' = globalDone /\ errs' = (errs \/ globalDone)
  /\ stop' = [stop EXCEPT ![k] = Done]
  /\ UNCHANGED <<engine, Stopper, budget, faulty>>

StopReturns(k) ==
  /\ stop[k].pc = "going"
  /\ \E failed \in BOOLEAN :
       /\ IF failed THEN Fault ELSE stop[k].todo = {} /\ UNCHANGED <<budget, faulty>>
       /\ \/ err' = failed /\ errs' = (errs \/ failed)
          \/ main = "check" /\ errs' = (errs \/ err) /\ UNCHANGED err
  /\ stop' = [stop EXCEPT ![k] = Done]
  /\ UNCHANGED <<engine, Stopper>>

(* The kill: the first call that fails cancels the others; a container     *)
(* that does not run any more is a conflict, which is ignored.             *)
Killer == <<options, contexts, handling, stop, watching, mains, err, exitCode, restarted>>

KillContainer(c) ==
  /\ kill.pc = "going" /\ c \in kill.todo
  /\ Halts(c)
  /\ kill' = [kill EXCEPT !.todo = IF Live(c) THEN @ \ {c} ELSE {}]
  /\ UNCHANGED <<Killer, errs, budget, faulty>>

KillReturns ==
  /\ kill.pc = "going"
  /\ \/ kill.todo = {} /\ UNCHANGED <<errs, budget, faulty>>
     \/ Fault /\ errs' = TRUE
  /\ kill' = Done
  /\ UNCHANGED <<engine, Killer>>

----------------------------------------------------------------------------
(* The monitor lists the containers, then subscribes, then reads events    *)
(* until it watches no container; then globalCtx is cancelled.             *)
Monitor == <<options, ctxDone, adapt, signals, menu, kill, mains, err, restarted>>

MonitorLists ==
  /\ monitor = "list" /\ ~globalDone
  /\ watched' = watches
  /\ monitor' = "subscribe"
  /\ UNCHANGED <<engine, Monitor, handler, cancelled, captured, exitCode, stop, errs, budget, faulty>>

Subscribe ==
  /\ monitor = "subscribe" /\ monitor' = "loop"
  /\ UNCHANGED <<engine, Monitor, handler, cancelled, watched, captured, exitCode, stop, errs, budget, faulty>>

(* Once its context is done it may find that, or the error the stream of   *)
(* events ends with.                                                       *)
MonitorReturns ==
  /\ \/ monitor = "loop" /\ watched = {} /\ monitor' = "over" /\ UNCHANGED <<errs, budget, faulty>>
     \/ monitor = "loop" /\ watched # {} /\ globalDone /\ monitor' = "returned" /\ UNCHANGED <<errs, budget, faulty>>
     \/ /\ monitor = "list" \/ (monitor = "loop" /\ watched # {})
        /\ monitor' = "returned" /\ errs' = TRUE
        /\ IF globalDone THEN UNCHANGED <<budget, faulty>> ELSE Fault
  /\ Cancel
  /\ events' = <<>>
  /\ UNCHANGED <<st, silent, passed, revived, firstCode, Monitor, watched, captured, exitCode, stop>>

(* An end counts only if the container does not run when it is inspected;  *)
(* the listeners hear of every end, first that of OnExit, then that of     *)
(* ExitCodeFrom.                                                           *)
BugEnded(e)  == e.action = "die"   \* Variant: the container is not inspected.
Ended(e)     == e.action = "die" /\ ~Live(e.c)
Triggers(e)  == e.action = "die" /\ onceExit /\ onExit # "ignore" /\ ~(onExit = "fail" /\ e.code = 0)
BugIsChosen(e) == e.action = "die" /\ e.c = exitFrom   \* Variant: without once.
IsChosen(e)  == e.action = "die" /\ ~captured /\ e.c = exitFrom
CodeAfter(e) == IF Triggers(e) \/ IsChosen(e) THEN e.code ELSE exitCode

MonitorHears ==
  /\ monitor = "loop" /\ watched # {} /\ events # <<>>
  /\ events' = Tail(events)
  /\ LET e == Head(events) IN
       IF e.c \notin watches
       THEN UNCHANGED <<watched, captured, exitCode, stop>>
       ELSE /\ watched' = IF e.action = "start" THEN watched \cup {e.c}
                          ELSE IF Ended(e) THEN watched \ {e.c} ELSE watched
            /\ exitCode' = CodeAfter(e)
            /\ captured' = (captured \/ IsChosen(e))
            /\ stop' = IF Triggers(e) THEN [stop EXCEPT !["exit"] = Pass] ELSE stop
  /\ UNCHANGED <<st, silent, passed, revived, firstCode, Monitor, handler, cancelled, monitor, errs, budget, faulty>>

----------------------------------------------------------------------------
(* The main goroutine.                                                     *)
Main == <<options, ctxDone, adapt, signals, menu, passes, watched, captured, exitCode, errs, restarted>>

Attach ==
  /\ main = "attach"
  /\ \/ ~globalDone /\ main' = "start" /\ monitor' = "list" /\ UNCHANGED <<handler, cancelled, budget, faulty>>
     \/ /\ main' = "drain" /\ Cancel
        /\ IF globalDone THEN UNCHANGED <<budget, faulty>> ELSE Fault
        /\ UNCHANGED monitor
  /\ UNCHANGED <<engine, Main, toStart, result, err>>

(* start goes on whether globalCtx is done or not.                         *)
StartLists ==
  /\ main = "start" /\ main' = "starting"
  /\ toStart' = {c \in project : st[c] # "running"}
  /\ UNCHANGED <<engine, Main, handler, cancelled, monitor, result, err, budget, faulty>>

StartContainer(c) ==
  /\ main = "starting" /\ c \in toStart
  /\ toStart' = toStart \ {c}
  /\ IF st[c] = "running" THEN UNCHANGED engine
     ELSE Starts(c) /\ revived' = revived \cup ({c} \cap passed)
  /\ UNCHANGED <<Main, handler, cancelled, monitor, main, result, err, budget, faulty>>

(* start fails with the engine, or waiting for a dependency that does not  *)
(* run any more.                                                           *)
StartReturns ==
  /\ main \in {"start", "starting"} /\ main' = "check"
  /\ \/ main = "starting" /\ toStart = {} /\ err' = FALSE /\ UNCHANGED <<budget, faulty>>
     \/ Fault /\ err' = TRUE
     \/ /\ main = "starting" /\ toStart # {} /\ \E c \in project \ toStart : ~Live(c)
        /\ err' = TRUE /\ UNCHANGED <<budget, faulty>>
  /\ toStart' = {} /\ passed' = {}
  /\ UNCHANGED <<st, events, silent, revived, firstCode, Main, handler, cancelled, monitor, result>>

Check ==
  /\ main = "check"
  /\ IF err /\ ~isTerminated
     THEN main' = "drain" /\ Cancel
     ELSE main' = "wait" /\ UNCHANGED <<handler, cancelled>>
  /\ UNCHANGED <<engine, Main, monitor, toStart, result, err, budget, faulty>>

GroupEmpty ==
  /\ handler = "returned"
  /\ monitor \in {"none", "over", "returned"}
  /\ \A pass \in {stop["signal"], stop["exit"], kill} : pass.pc # "going"

Return ==
  /\ main \in {"wait", "drain"} /\ GroupEmpty
  /\ main' = "returned"
  /\ result' = IF main = "drain" THEN "err" ELSE IF exitCode # 0 THEN "code" ELSE IF errs THEN "err" ELSE "nil"
  /\ UNCHANGED <<engine, Main, handler, cancelled, monitor, toStart, err, budget, faulty>>

----------------------------------------------------------------------------
Next ==
  \/ \E c \in project :
       \/ Exit(c) \/ PolicyRestarts(c) \/ OthersStart(c)
       \/ StartContainer(c) \/ KillContainer(c)
  \/ \E k \in {"signal", "exit"}, c \in project : StopContainer(k, c)
  \/ \E k \in {"signal", "exit"} : StopReturns(k)
  \/ KillReturns
  \/ Signal \/ AdaptCmd
  \/ Select \/ HandleKeyEvents \/ GracefulTeardown \/ SecondSignal
  \/ MonitorLists \/ Subscribe \/ MonitorReturns \/ MonitorHears
  \/ Attach \/ StartLists \/ StartReturns \/ Check \/ Return

Spec == Init /\ [][Next]_vars

----------------------------------------------------------------------------
(* Type invariant: goroutines that exist do so in order.                   *)
TypeOK ==
  /\ st \in [project -> {"created", "running", "restarting", "exited"}]
  /\ silent \subseteq {c \in project : ~Live(c)}
  /\ passed \cup revived \subseteq project
  /\ firstCode \in ExitCodes \cup StopCodes \cup {-1}
  /\ signals \in 0..2 /\ budget \in 0..MaxTroubles
  /\ handler \in {"select", "blocked", "ctx", "signal", "returned"}
  /\ ctxDone <=> adapt = "done"
  /\ handler = "blocked" => ~globalDone /\ signals = 0
  /\ kill # None => ~first /\ handler = "returned"
  /\ \A pass \in {stop["signal"], stop["exit"], kill} :
       pass \in {None, Done} \/ (pass.pc = "going" /\ pass.todo \subseteq project)
  /\ monitor \in {"none", "list", "subscribe", "loop", "over", "returned"}
  /\ events # <<>> => monitor = "loop"
  /\ watched \subseteq watches
  /\ main \in {"attach", "start", "starting", "check", "wait", "drain", "returned"}
  /\ (main = "attach") => monitor = "none"
  /\ toStart # {} => main = "starting"
  /\ {err, errs, captured, menu, ctxDone, cancelled, restarted, faulty} \subseteq BOOLEAN
  /\ result \in {"none", "nil", "code", "err"}
  /\ (result # "none") <=> main = "returned"

(* When the monitor has read all it was told, it watches the containers    *)
(* that run, restarting ones included, and no others but those that never  *)
(* started or ended before it could be told: up neither ends while one     *)
(* runs nor goes on, as far as the monitor can know, when none does        *)
(* (monitor.Start, "return after termination").                            *)
WatchesWhatRuns ==
  monitor = "loop" /\ events = <<>> =>
    /\ {c \in watches : Live(c)} \subseteq watched
    /\ \A c \in watched : Live(c) \/ c \in silent

(* The monitor ends by itself only when no container it watches runs or is *)
(* restarted by its policy, whatever it was late to hear; only one that    *)
(* ended and was started again by a command may run.                       *)
EndsWhenNoneRuns ==
  [][monitor = "loop" /\ monitor' = "over" => \A c \in watches : ~Live(c) \/ c \in revived]_vars

(* Variables keep their types, the monitor watches what runs, and it ends  *)
(* only when nothing it watches runs any more.                             *)
MonitorFollows == [](TypeOK /\ WatchesWhatRuns) /\ EndsWhenNoneRuns

(* A stop pass leaves no container running when up returns, although       *)
(* globalCtx and the command's context may be done from its first step,    *)
(* the pass of the first exit and a kill run beside it and containers are  *)
(* about to be restarted: if no call fails and none is started after it    *)
(* was passed, by somebody else or by start, which is not stopped.         *)
StopStopsAll ==
  main = "returned" /\ ~faulty /\ revived = {} /\ (\E k \in DOMAIN stop : stop[k] = Done) =>
    \A c \in project : ~Live(c)

(* With --abort-on-container-exit, which --exit-code-from implies, the     *)
(* exit code is that of the first end of the container it names, whichever *)
(* container ended first and triggered the stop, and however often it was  *)
(* restarted, once the monitor has ended by itself.                        *)
ChosenExitCode ==
  main = "returned" /\ monitor = "over" /\ exitFrom # "nobody" /\ onExit = "stop" /\ firstCode # -1 =>
    /\ exitCode = firstCode
    /\ result = "nil" => firstCode = 0
    /\ result = "code" => firstCode # 0

(* "If the process is interrupted using SIGINT (ctrl + C) or SIGTERM, the  *)
(* containers are stopped": when up returns after the teardown for a       *)
(* signal, if no call failed, no container was restarted, 'd' was not      *)
(* pressed and up was not over before.                                     *)
SignalStops ==
  main = "returned" /\ isTerminated /\ ~faulty /\ ~restarted /\ ~menu /\ monitor # "over" =>
    \A c \in project : ~Live(c)
=============================================================================
