------------------------------ MODULE MCWatch -------------------------------
(***************************************************************************)
(* Two files of one service, watched under rules that lie next to each     *)
(* other; or, in other behaviors, the terminal: its progress, or its menu, *)
(* where watches are started and stopped.                                  *)
(***************************************************************************)
EXTENDS Watch

CONSTANTS source, manifest,
          Resources, MaxPresses \* Terminal

ASSUME PressesAssumption == MaxPresses \in Nat

VARIABLES
  part,
  mtx, ticker, suspended, painter, main, task, shown, late,
  watching, presses, mx, stopFn, starter, watch, result, loop, detached, hasty

watchVars    == <<config, user, engine, notify, watcher, batch, toDelete, dropped, failures>>
terminalVars == <<mtx, ticker, suspended, painter, main, task, shown, late,
                  watching, presses, mx, stopFn, starter, watch, result, loop, detached, hasty>>

Term == INSTANCE Terminal

MCRuleChoices ==
  { [f \in Files |-> IF f = source THEN pair[1] ELSE pair[2]] : pair \in {
      <<{"sync"}, {"rebuild"}>>,
      <<{"sync", "restart"}, {"sync", "exec"}>>,
      <<{"sync", "rebuild"}, {"restart"}>>,
      <<{"sync", "exec", "restart"}, {"rebuild"}>>} }

(* The part that is not chosen is over from the start.                     *)
NoWatch ==
  /\ rules = [f \in Files |-> {"sync"}] /\ initial = FALSE
  /\ host = [f \in Files |-> 1] /\ image = host /\ content = host /\ taken = host
  /\ running = TRUE /\ edits = 0 /\ cancelled = FALSE /\ failures = 0
  /\ notified = {} /\ held = {} /\ seen = {} /\ batch = {} /\ toDelete = {}
  /\ changed = {} /\ dropped = {}
  /\ watcher = "failed" /\ debouncer = "closed"

NoProgress ==
  /\ mtx = FALSE /\ ticker = "stopped" /\ suspended = FALSE
  /\ painter = "gone" /\ main = "menu"
  /\ task = [r \in Resources |-> "done"] /\ shown = task /\ late = {}

NoMenu ==
  /\ watching = FALSE /\ presses = MaxPresses /\ mx = "free" /\ stopFn = 0
  /\ starter = [w \in Term!Watches |-> "none"] /\ watch = starter
  /\ result = [w \in Term!Watches |-> "nil"]
  /\ loop = "returned" /\ detached = FALSE /\ hasty = FALSE

MCInit ==
  /\ part \in {"watch", "progress", "menu"}
  /\ IF part = "watch"    THEN Init ELSE NoWatch
  /\ IF part = "progress" THEN Term!ProgressInit ELSE NoProgress
  /\ IF part = "menu"     THEN Term!MenuInit ELSE NoMenu

MCNext ==
  \/ part = "watch" /\ Next /\ UNCHANGED <<part, terminalVars>>
  \/ part = "progress" /\ Term!Next /\ UNCHANGED <<part, watchVars>>
  \/ part = "menu" /\ Term!Next /\ UNCHANGED <<part, watchVars, Term!progress>>

MCSpec ==
  MCInit /\ [][MCNext]_<<part, vars, terminalVars>> /\ Fairness /\ Term!Fairness

(* Nothing is left unshown, no watch goes on unseen (Terminal).            *)
NothingHidden == Term!NothingHidden

(* Done returns or is stuck with the goroutine that prints, Stop returns   *)
(* (tty.go:185, watch.go:110).                                             *)
NobodyHangs == Term!NobodyHangs

(* All watches end with the session.                                       *)
DetachEndsWatches == Term!DetachEndsWatches
=============================================================================
