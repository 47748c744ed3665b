------------------------------ MODULE Terminal ------------------------------
(***************************************************************************)
(* The terminal during up: first the progress of what is built, pulled,    *)
(* created and started (cmd/display/tty.go, pkg/compose/progress.go), then *)
(* the menu, whose key w starts and stops a watch of the files             *)
(* (cmd/formatter/shortcut.go, Watcher in pkg/compose/watch.go, the loop   *)
(* of up.go).                                                              *)
(*                                                                         *)
(* Progress is printed by a goroutine on the ticks of a timer, under the   *)
(* mutex that the events take, too.  Each start of a watch is a goroutine; *)
(* starts and stops take another mutex, and the watches report their end   *)
(* on one channel without room.                                            *)
(***************************************************************************)
EXTENDS Naturals

CONSTANTS Resources,  \* What progress is shown for
          MaxPresses  \* Bound: presses of the key

VARIABLES
  cancelled, \* The context of the command
  mtx,       \* The writer's mutex is held, by Done
  ticker,    \* "off", "ticking" or "stopped"
  suspended, \* ... because of a build
  painter,   \* The goroutine of Start: "select", "print" or "gone"
  main,      \* Where Run is: "work", "print", "lock", "send", "menu"
  task,      \* Last event of every resource
  shown,     \* ... as on the terminal
  late,      \* Resources whose last event came between the last print and the lock of Done
  watching,  \* The menu's Watching
  presses,   \* Presses so far
  mx,        \* The mutex of Watcher is held: by a start, by a stop, or "free"
  stopFn,    \* The watch that stopFn cancels, 0 for nil
  starter,   \* The goroutines of the starts
  watch,     \* The watches
  result,    \* What a watch sends to errCh, or would
  loop,      \* The loop of up
  detached,  \* The global context is cancelled
  hasty      \* The key was pressed while a start was under way

progress == <<mtx, ticker, suspended, painter, main, task, shown, late>>
menu     == <<watching, presses, mx, stopFn, starter, watch, result, loop, detached, hasty>>
vars     == <<cancelled, progress, menu>>

(* Watch 1 is that of up --watch, the others come from the key.            *)
Watches == 1..(MaxPresses + 1)

Events == {"none", "building", "done"}

ProgressInit ==
  /\ mtx = FALSE /\ ticker = "ticking" /\ suspended = FALSE
  /\ painter = "select" /\ main = "work"
  /\ task = [r \in Resources |-> "none"] /\ shown = task /\ late = {}

MenuInit ==
  /\ watching \in BOOLEAN
  /\ presses = 0 /\ mx = "free" /\ stopFn = 0
  /\ starter = [w \in Watches |-> IF w = 1 /\ watching THEN "lock" ELSE "none"]
  /\ watch = [w \in Watches |-> "none"]
  /\ result = [w \in Watches |-> "nil"]
  /\ loop = "select" /\ detached = FALSE /\ hasty = FALSE

Init == ProgressInit /\ MenuInit /\ cancelled = FALSE

Cancel ==
  /\ ~cancelled
  /\ cancelled' = TRUE
  /\ UNCHANGED <<progress, menu>>

----------------------------------------------------------------------------
(* Progress.                                                               *)

Quiet == UNCHANGED <<cancelled, menu>>

(* On: events that come after the operation are printed at once, the       *)
(* others on the next tick.  A build takes the terminal for itself until   *)
(* the next event.                                                         *)
On(r, event) ==
  /\ ~mtx
  /\ event # task[r]
  /\ task' = [task EXCEPT ![r] = event]
  /\ shown' = IF main = "menu" THEN [shown EXCEPT ![r] = event] ELSE shown
  /\ late' = IF main = "lock" THEN late \cup {r} ELSE late \ {r}
  /\ ticker' = IF event = "building" THEN "stopped" ELSE IF suspended THEN "ticking" ELSE ticker
  /\ suspended' = (event = "building")
  /\ UNCHANGED <<mtx, painter, main>>
  /\ Quiet

Tick ==
  /\ painter = "select"
  /\ ticker = "ticking"
  /\ painter' = "print"
  /\ UNCHANGED <<mtx, ticker, suspended, main, task, shown, late>>
  /\ Quiet

Paint ==
  /\ painter = "print"
  /\ ~mtx
  /\ shown' = task
  /\ painter' = "select"
  /\ UNCHANGED <<mtx, ticker, suspended, main, task, late>>
  /\ Quiet

PainterLeaves ==
  /\ painter = "select"
  /\ cancelled
  /\ painter' = "gone"
  /\ ticker' = "stopped"
  /\ UNCHANGED <<mtx, suspended, main, task, shown, late>>
  /\ Quiet

(* The function of Run returns; goroutines of its own may still go on when *)
(* it failed.                                                              *)
WorkEnds ==
  /\ main = "work"
  /\ main' = "print"
  /\ UNCHANGED <<mtx, ticker, suspended, painter, task, shown, late>>
  /\ Quiet

(* Mutant: only the ticks print.                                           *)
BugDonePrints ==
  /\ main = "print"
  /\ ~mtx
  /\ main' = "lock"
  /\ UNCHANGED <<mtx, ticker, suspended, painter, task, shown, late>>
  /\ Quiet

DonePrints ==
  /\ main = "print"
  /\ ~mtx
  /\ shown' = task
  /\ main' = "lock"
  /\ UNCHANGED <<mtx, ticker, suspended, painter, task, late>>
  /\ Quiet

DoneLocks ==
  /\ main = "lock"
  /\ ~mtx
  /\ mtx' = TRUE
  /\ ticker' = "stopped"
  /\ main' = "send"
  /\ UNCHANGED <<suspended, painter, task, shown, late>>
  /\ Quiet

(* Mutant: the operation ends when the context does.                       *)
BugDoneSends ==
  /\ main = "send"
  /\ cancelled
  /\ mtx' = FALSE
  /\ main' = "menu"
  /\ UNCHANGED <<ticker, suspended, painter, task, shown, late>>
  /\ Quiet

(* The send needs the goroutine at its select.                             *)
DoneSends ==
  /\ main = "send"
  /\ painter = "select"
  /\ painter' = "gone"
  /\ mtx' = FALSE
  /\ main' = "menu"
  /\ UNCHANGED <<ticker, suspended, task, shown, late>>
  /\ Quiet

----------------------------------------------------------------------------
(* The menu.                                                               *)

Rest == UNCHANGED <<cancelled, progress>>
AtMenu == main = "menu"

(* Watching is tested, and a start left to a goroutine.                    *)
PressKey ==
  /\ AtMenu
  /\ loop = "select"
  /\ presses < MaxPresses
  /\ presses' = presses + 1
  /\ hasty' = (hasty \/ \E w \in Watches : starter[w] # "none")
  /\ IF watching
     THEN loop' = "stop" /\ UNCHANGED starter
     ELSE starter' = [starter EXCEPT ![presses' + 1] = "lock"] /\ UNCHANGED loop
  /\ UNCHANGED <<watching, mx, stopFn, watch, result, detached>>
  /\ Rest

(* Start holds the mutex while watchFn copies the initial files.           *)
StartLocks(w) ==
  /\ AtMenu
  /\ starter[w] = "lock"
  /\ mx = "free"
  /\ mx' = "start"
  /\ stopFn' = w
  /\ starter' = [starter EXCEPT ![w] = "start"]
  /\ UNCHANGED <<watching, presses, watch, result, loop, detached, hasty>>
  /\ Rest

StartsWatch(w) ==
  /\ starter[w] = "start"
  /\ mx' = "free"
  /\ watch' = [watch EXCEPT ![w] = "on"]
  /\ starter' = [starter EXCEPT ![w] = "started"]
  /\ UNCHANGED <<watching, presses, stopFn, result, loop, detached, hasty>>
  /\ Rest

(* stopFn stays; a failed start of up --watch ends the session.            *)
StartFails(w) ==
  /\ starter[w] = "start"
  /\ mx' = "free"
  /\ watch' = [watch EXCEPT ![w] = "sends"]
  /\ result' = [result EXCEPT ![w] = "error"]
  /\ starter' = [starter EXCEPT ![w] = "none"]
  /\ detached' = (detached \/ w = 1)
  /\ UNCHANGED <<watching, presses, stopFn, loop, hasty>>
  /\ Rest

(* Mutant: only the watch of up --watch is on the menu.                    *)
BugSetWatching(w) ==
  /\ starter[w] = "started"
  /\ starter' = [starter EXCEPT ![w] = "none"]
  /\ UNCHANGED <<watching, presses, mx, stopFn, watch, result, loop, detached, hasty>>
  /\ Rest

SetWatching(w) ==
  /\ starter[w] = "started"
  /\ watching' = (watching \/ w # 1)
  /\ starter' = [starter EXCEPT ![w] = "none"]
  /\ UNCHANGED <<presses, mx, stopFn, watch, result, loop, detached, hasty>>
  /\ Rest

(* A watch ends because it is cancelled, in the middle of a batch perhaps, *)
(* or because the notifier fails.                                          *)
WatchEnds(w) ==
  /\ watch[w] \in {"on", "cancelled"}
  /\ watch' = [watch EXCEPT ![w] = "sends"]
  /\ result' \in {[result EXCEPT ![w] = r] : r \in {"nil", "error"}}
  /\ UNCHANGED <<watching, presses, mx, stopFn, starter, loop, detached, hasty>>
  /\ Rest

(* Mutant: stopFn is not reset.                                            *)
BugStopLocksAgain ==
  /\ loop \in {"stop", "final stop"}
  /\ mx = "free"
  /\ IF stopFn = 0
     THEN /\ watching' = FALSE
          /\ loop' = IF loop = "stop" THEN "select" ELSE "returned"
          /\ UNCHANGED <<mx, watch>>
     ELSE /\ mx' = "stop"
          /\ watch' = [watch EXCEPT ![stopFn] = IF @ = "on" THEN "cancelled" ELSE @]
          /\ loop' = IF loop = "stop" THEN "receive" ELSE "final receive"
          /\ UNCHANGED watching
  /\ UNCHANGED <<stopFn, presses, starter, result, detached, hasty>>
  /\ Rest

(* Stop, from the key or because the session ends.                         *)
StopLocks ==
  /\ loop \in {"stop", "final stop"}
  /\ mx = "free"
  /\ IF stopFn = 0
     THEN /\ watching' = FALSE
          /\ loop' = IF loop = "stop" THEN "select" ELSE "returned"
          /\ UNCHANGED <<mx, stopFn, watch>>
     ELSE /\ mx' = "stop"
          /\ watch' = [watch EXCEPT ![stopFn] = IF @ = "on" THEN "cancelled" ELSE @]
          /\ stopFn' = 0
          /\ loop' = IF loop = "stop" THEN "receive" ELSE "final receive"
          /\ UNCHANGED watching
  /\ UNCHANGED <<presses, starter, result, detached, hasty>>
  /\ Rest

(* The result of any watch that sends; an error leaves Watching on.        *)
StopReceives(w) ==
  /\ loop \in {"receive", "final receive"}
  /\ watch[w] = "sends"
  /\ watch' = [watch EXCEPT ![w] = "gone"]
  /\ mx' = "free"
  /\ watching' = IF result[w] = "nil" THEN FALSE ELSE watching
  /\ loop' = IF loop = "receive" THEN "select" ELSE "returned"
  /\ UNCHANGED <<presses, stopFn, starter, result, detached, hasty>>
  /\ Rest

Detach ==
  /\ AtMenu
  /\ loop = "select"
  /\ detached' = TRUE
  /\ loop' = "final stop"
  /\ UNCHANGED <<watching, presses, mx, stopFn, starter, watch, result, hasty>>
  /\ Rest

(* Mutant: only the watch stopFn cancels ends with the session.            *)
BugDetachReachesWatch(w) ==
  /\ detached \/ cancelled
  /\ watch[w] = "on" /\ stopFn = w
  /\ watch' = [watch EXCEPT ![w] = "cancelled"]
  /\ UNCHANGED <<watching, presses, mx, stopFn, starter, result, loop, detached, hasty>>
  /\ Rest

(* Watches have the global context.                                        *)
DetachReachesWatch(w) ==
  /\ detached \/ cancelled
  /\ watch[w] = "on"
  /\ watch' = [watch EXCEPT ![w] = "cancelled"]
  /\ UNCHANGED <<watching, presses, mx, stopFn, starter, result, loop, detached, hasty>>
  /\ Rest

PrintProgress ==
  \/ \E r \in Resources, event \in Events \ {"none"} : On(r, event)
  \/ Tick \/ Paint \/ PainterLeaves \/ WorkEnds
Hand == DonePrints \/ DoneLocks \/ DoneSends
Stop == StopLocks \/ \E w \in Watches : StopReceives(w)
Goroutine(w) ==
  StartLocks(w) \/ StartsWatch(w) \/ StartFails(w) \/ SetWatching(w) \/ DetachReachesWatch(w)
    \/ (watch[w] = "cancelled" /\ WatchEnds(w))

Next ==
  \/ Cancel \/ PrintProgress \/ Hand \/ PressKey \/ Detach \/ Stop
  \/ \E w \in Watches : Goroutine(w) \/ WatchEnds(w)

(* Goroutines run, a start of a watch returns, a cancelled watch ends (see *)
(* Watch), and the loop sees that its context is cancelled.                *)
Fairness ==
  /\ WF_vars(Hand) /\ WF_vars(Paint) /\ WF_vars(Stop)
  /\ WF_vars(Detach /\ detached)
  /\ \A w \in Watches : WF_vars(Goroutine(w))

Spec == Init /\ [][Next]_vars /\ Fairness

----------------------------------------------------------------------------
(* Variables keep their types.                                             *)
TypeOK ==
  /\ ticker \in {"ticking", "stopped"} /\ painter \in {"select", "print", "gone"}
  /\ mtx = (main = "send")
  /\ task \in [Resources -> Events] /\ shown \in [Resources -> Events]
  /\ stopFn \in Watches \cup {0} /\ presses \in 0..MaxPresses
  /\ (mx = "stop") = (loop \in {"receive", "final receive"})
  /\ (mx = "start") = (\E w \in Watches : starter[w] = "start")

(* When the operation is done the terminal shows the last event of every   *)
(* resource, but what a leftover goroutine reported after the last print.  *)
LastEventShown == AtMenu => \A r \in Resources : r \in late \/ shown[r] = task[r]

(* The goroutine waits, to print, for the mutex that Done holds, and Done  *)
(* for the goroutine to receive.                                           *)
DoneIsStuck == main = "send" /\ painter = "print"

(* Done returns, unless the goroutine had a tick when Done took the mutex, *)
(* or the command is cancelled; nothing else can keep it.                  *)
DoneReturns == (main = "print") ~> (AtMenu \/ cancelled \/ DoneIsStuck)

(* pkg/api/event.go, EventProcessor: "Done is triggered as a Compose       *)
(* operation completed".  It notifies, then, and returns, at least when    *)
(* nobody cancels the command.                                             *)
DoneAlwaysReturns == (main = "print") ~> (AtMenu \/ cancelled)

(* cmd/display/tty.go, Start: "interrupted", after which Done is still     *)
(* called: it returns all the same.                                        *)
DoneReturnsInterrupted == (main = "print") ~> AtMenu

Live(w) == watch[w] = "on" /\ ~detached /\ ~cancelled

(* The menu never says that watch is off while a watch goes on, and there  *)
(* is never more than one, unless the key is pressed before a start has    *)
(* ended.                                                                  *)
NoHiddenWatch ==
  ~hasty /\ (\A w \in Watches : starter[w] = "none") =>
    /\ \A v, w \in Watches : Live(v) /\ Live(w) => v = w
    /\ ~watching => \A w \in Watches : ~Live(w)

(* Variables keep their types; the last state of a resource is on the      *)
(* screen when the menu comes, and no watch goes on that the menu does not *)
(* show.                                                                   *)
NothingHidden == TypeOK /\ LastEventShown /\ NoHiddenWatch

(* Stop finds a watch that reports its end, however many were started, and *)
(* failed, before.                                                         *)
StopReturns == (loop \in {"stop", "final stop"}) ~> (loop \in {"select", "returned"})

(* Done of the progress display and Stop of the watcher wait for another   *)
(* goroutine while they hold a mutex.  Stop returns; Done does, too, or is *)
(* stuck with the goroutine that prints, or the command is cancelled.      *)
NobodyHangs == DoneReturns /\ StopReturns

(* All watches end with the session, the ones no stop can reach, too.      *)
DetachEndsWatches == detached ~> (\A w \in Watches : watch[w] # "on")
=============================================================================
