------------------------------- MODULE Sweeps -------------------------------
(***************************************************************************)
(* The commands that list the containers of a project and then make a call *)
(* for each, in goroutines of an errgroup: pause, unpause, stop, kill, rm, *)
(* restart and wait (pkg/compose, the files of these names, hook.go and    *)
(* containers.go).  Two services: web may depend on db.  The containers go *)
(* on living, and other commands act on them, in the meantime.             *)
(***************************************************************************)
EXTENDS Integers, Sequences

CONSTANTS Web, Db,     \* Containers of the two services
          Kinds,       \* Commands that may be given
          MaxTroubles  \* Bound: things that happen to containers from outside

ASSUME SweepsAssumption ==
  /\ Web \cap Db = {} /\ MaxTroubles \in Nat
  /\ Kinds \subseteq {"pause", "unpause", "kill", "stop", "rm", "restart", "wait"}

Services   == {"web", "db"}
Containers == Web \cup Db
Service(c) == IF c \in Web THEN "web" ELSE "db"
Of(s)      == IF s = "web" THEN Web ELSE Db

VARIABLES
  command,   \* What was asked for
  op,        \* The sweep under way: rm --stop makes two
  phase,     \* "idle", "list", "inspect" or "sweep"
  state,     \* Containers in the engine
  found,     \* The containers listed, for rm those still to be inspected
  chosen,    \* The containers the sweep is about
  task,      \* Per container: its call, and where its goroutine is
  err,       \* The err of unPause or restart, which their goroutines share
  result,    \* "none", then "nil", "err" or "empty"
  dropped,   \* wait has removed the project
  troubles,
  reached, refused, skipped, \* Containers whose call succeeded, failed, was left out
  revived    \* Containers others started since the sweep began

outside == <<state, troubles, revived>>
sweep   == <<command, op, phase, found, chosen, dropped>>
vars    == <<command, op, phase, state, found, chosen, task, err, result, dropped, troubles,
             reached, refused, skipped, revived>>

(* Fields: flag is --all of kill, --force of rm, --down-project of wait,   *)
(* --no-deps of restart; stop is --stop of rm; hooks are the pre_stop and  *)
(* post_start hooks of the services; depends is what web waits for.        *)
Commands ==
  {k \in [op : Kinds, services : {{}, {"web"}, {"db"}, Services}, flag : BOOLEAN, stop : BOOLEAN,
          hooks : BOOLEAN, depends : {"nothing", "started", "healthy"}] :
     /\ k.op = "wait" => k.services # {}
     /\ k.services = Services => k.op = "wait"
     /\ k.flag => k.op \in {"kill", "rm", "wait", "restart"}
     /\ k.stop => k.op = "rm"
     /\ k.hooks => k.op \in {"stop", "restart"}
     /\ k.depends # "nothing" => k.op \in {"stop", "restart"}}
None == [op |-> "none", services |-> {}, flag |-> FALSE, stop |-> FALSE, hooks |-> FALSE,
         depends |-> "nothing"]

Live    == {"running", "paused"}
Idle    == [at |-> 0, pc |-> "off"]
AllIdle == [c \in Containers |-> Idle]

Init ==
  /\ command = None /\ op = "none" /\ phase = "idle"
  /\ state = [c \in Containers |-> "gone"]
  /\ found = {} /\ chosen = {} /\ reached = {} /\ refused = {} /\ skipped = {} /\ revived = {}
  /\ task = AllIdle
  /\ err = FALSE
  /\ result = "none"
  /\ dropped = FALSE
  /\ troubles = 0

----------------------------------------------------------------------------
(* What others do to a container while the command is under way.           *)
Trouble(c) ==
  /\ command # None /\ result = "none"
  /\ troubles < MaxTroubles /\ troubles' = troubles + 1
  /\ \E s \in {"running", "paused", "exited", "gone"} \ {state[c]} :
       /\ CASE state[c] = "running" -> s \in {"paused", "exited"}
            [] state[c] = "paused"  -> s \in {"running", "exited"}
            [] state[c] = "exited"  -> s \in {"running", "gone"}
            [] OTHER                -> FALSE
       /\ state' = [state EXCEPT ![c] = s]
       /\ revived' = IF state[c] = "exited" /\ s = "running" THEN revived \cup {c} ELSE revived
  /\ UNCHANGED <<sweep, task, err, result, reached, refused, skipped>>

(* restart keeps of depends_on what says restart (here: everything) and    *)
(* adds the dependents of the services that are named.                     *)
Named ==
  IF command.services = {} THEN Services
  ELSE IF command.op = "restart" /\ ~command.flag /\ command.depends # "nothing"
            /\ "db" \in command.services
       THEN Services ELSE command.services

(* getContainers: running ones only, or all.                               *)
Listed(all) == {c \in Containers : state[c] \in Live \/ (all /\ state[c] = "exited")}
Ours(all)   == {c \in Listed(all) : Service(c) \in Named}
ListsAll    == op \in {"stop", "rm", "restart"} \/ (op = "kill" /\ command.flag)

Give ==
  /\ command = None
  /\ command' \in Commands
  /\ state' \in [Containers -> {"running", "paused", "exited"}]
  /\ op' = IF command'.stop THEN "stop" ELSE command'.op
  /\ phase' = "list"
  /\ UNCHANGED <<troubles, revived, found, chosen, dropped, task, err, result, reached, refused, skipped>>

Finish(r) == result' = r /\ UNCHANGED <<sweep, outside, task, err, reached, refused, skipped>>

Launched(cs) == [c \in Containers |-> IF c \in cs THEN [at |-> 1, pc |-> "wait"] ELSE Idle]

(* The sweep begins with a list; kill and wait want it not to be empty.    *)
ListNothing ==
  /\ phase = "list" /\ result = "none"
  /\ Ours(ListsAll) = {} /\ (op \in {"kill", "rm", "wait"})
  /\ Finish(IF op = "wait" THEN "err" ELSE "empty")

List ==
  /\ phase = "list"
  /\ Ours(ListsAll) # {} \/ op \notin {"kill", "rm", "wait"}
  /\ IF op = "rm"
     THEN phase' = "inspect" /\ found' = Ours(TRUE) /\ UNCHANGED <<chosen, task>>
     ELSE phase' = "sweep" /\ chosen' = Ours(ListsAll) /\ task' = Launched(chosen') /\ UNCHANGED found
  /\ UNCHANGED <<command, op, dropped, outside, err, result, reached, refused, skipped>>

(* rm inspects each container, because the list may be old; paused ones    *)
(* are running.                                                            *)
Stopped(c) == state[c] = "exited"

Inspect(c) ==
  /\ phase = "inspect" /\ c \in found
  /\ found' = found \ {c}
  /\ chosen' = IF Stopped(c) THEN chosen \cup {c} ELSE chosen
  /\ UNCHANGED <<command, op, phase, dropped, outside, task, err, result, reached, refused, skipped>>

(* rm asks unless forced: what is removed is what was inspected.           *)
Inspected == phase = "inspect" /\ found = {} /\ result = "none"

Confirm ==
  /\ Inspected /\ chosen # {}
  /\ phase' = "sweep"
  /\ task' = Launched(chosen)
  /\ UNCHANGED <<command, op, found, chosen, dropped, outside, err, result, reached, refused, skipped>>

NothingToRemove ==
  /\ Inspected
  /\ \/ chosen = {} /\ Finish("empty")
     \/ chosen # {} /\ ~command.flag /\ Finish("nil")  \* declined

----------------------------------------------------------------------------
(* The calls of a goroutine, one after the other.                          *)
Calls ==
  IF ~command.hooks THEN <<op>>
  ELSE IF op = "stop" THEN <<"hook", "stop">> ELSE <<"hook", "restart", "hook">>

Shares == op \in {"unpause", "restart"}

(* The containers of the errgroup c is in: stop and restart have one for   *)
(* each service.  An error in it cancels the context of the others.        *)
Group(c)     == IF op \in {"stop", "restart"} THEN chosen \cap Of(Service(c)) ELSE chosen
Cancelled(c) == \E d \in Group(c) : task[d].pc = "failed"

Over(s)      == \A c \in chosen \cap Of(s) : task[c].pc = "done"

(* The walk over the services: dependents stop first, and restart last,    *)
(* when what they wait for is as they want it.                             *)
Turn(s) ==
  command.depends # "nothing" =>
    /\ op = "stop" /\ s = "db" => Over("web")
    /\ op = "restart" /\ s = "web" /\ Named = Services =>
         Over("db") /\ (command.depends = "healthy" => \A d \in chosen \cap Db : state[d] = "running")

Moved(s, pc) == task' = [c \in Containers |-> IF c \in chosen \cap Of(s) THEN [at |-> 1, pc |-> pc] ELSE task[c]]
Waits(s)     == \E c \in chosen \cap Of(s) : task[c].pc = "wait"

(* The visitor of restart writes what waitDependencies returned to the     *)
(* shared err before it tests it.                                          *)
Visit(s) ==
  /\ Waits(s) /\ Turn(s)
  /\ Moved(s, IF op = "restart" THEN "visited" ELSE "ready")
  /\ err' = (op # "restart" /\ err)
  /\ UNCHANGED <<sweep, outside, result, reached, refused, skipped>>

Enter(s) ==
  /\ \E c \in chosen \cap Of(s) : task[c].pc = "visited"
  /\ Moved(s, IF err THEN "failed" ELSE "ready")
  /\ UNCHANGED <<sweep, outside, err, result, reached, refused, skipped>>

(* waitDependencies gives up when the dependency has ended.                *)
WaitFails ==
  /\ op = "restart" /\ command.depends = "healthy" /\ Named = Services
  /\ Waits("web") /\ Over("db") /\ \E d \in chosen \cap Db : state[d] \in {"exited", "gone"}
  /\ Moved("web", "visited")
  /\ err' = TRUE
  /\ UNCHANGED <<sweep, outside, result, reached, refused, skipped>>

(* What the engine does: ContainerPause and so on.                         *)
Accepts(call, s) ==
  CASE call = "pause"   -> s = "running"
    [] call = "unpause" -> s = "paused"
    [] call = "kill"    -> s \in Live
    [] call = "rm"      -> s = "exited" \/ (s \in Live /\ command.flag)
    [] call = "hook"    -> s = "running"
    [] call = "wait"    -> s \notin Live
    [] OTHER            -> s # "gone"
After(call, s) ==
  CASE call = "pause"              -> "paused"
    [] call \in {"unpause", "restart"} -> "running"
    [] call \in {"kill", "stop"}   -> "exited"
    [] call = "rm"                 -> "gone"
    [] OTHER                       -> s

(* A stop leaves a container alone when its hook cannot be run in it.      *)
Skips(c, call, failed) == call = "hook" /\ op = "stop" /\ failed /\ state[c] # "running"

(* Mutant: a refusal by the engine is taken for success, as not found may  *)
(* be.                                                                     *)
BugNextPC(c, last, failed) == IF last THEN "done" ELSE "ready"

(* Where the goroutine is after a call: where err is shared it is written  *)
(* first and looked at later.                                              *)
NextPC(c, last, failed) ==
  IF Shares THEN "read" ELSE IF failed THEN "failed" ELSE IF last THEN "done" ELSE "ready"

(* A call; one whose context is cancelled may fail, after the engine has   *)
(* done its work or before.  A hook may also exit with an error.           *)
Call(c) ==
  LET call == Calls[task[c].at]
      last == task[c].at = Len(Calls)
  IN  /\ task[c].pc = "ready"
      /\ call = "wait" => state[c] \notin Live \/ Cancelled(c)
      /\ \E failed \in BOOLEAN :
           /\ ~failed => Accepts(call, state[c])
           /\ failed => ~Accepts(call, state[c]) \/ call = "hook" \/ state[c] = "gone" \/ Cancelled(c)
           /\ \/ ~failed /\ state' = [state EXCEPT ![c] = After(call, @)]
              \/ failed /\ UNCHANGED state
              \/ failed /\ Accepts(call, state[c]) /\ call # "hook" /\ state' = [state EXCEPT ![c] = After(call, @)]
           /\ IF Skips(c, call, failed)
              THEN /\ skipped' = skipped \cup {c}
                   /\ task' = [task EXCEPT ![c].pc = "done"]
                   /\ UNCHANGED <<err, reached, refused>>
              ELSE /\ task' = [task EXCEPT ![c] = [at |-> IF last \/ Shares THEN @.at ELSE @.at + 1,
                                                   pc |-> NextPC(c, last, failed)]]
                   /\ err' = (Shares /\ failed)
                   /\ reached' = IF failed \/ call = "hook" THEN reached ELSE reached \cup {c}
                   /\ refused' = IF failed THEN refused \cup {c} ELSE refused
                   /\ UNCHANGED skipped
      /\ UNCHANGED <<sweep, result, troubles, revived>>

(* The goroutine tests err: what it finds may be of another one.           *)
Read(c) ==
  LET last == task[c].at = Len(Calls)
  IN  /\ task[c].pc = "read"
      /\ task' = [task EXCEPT ![c] = [at |-> IF last \/ err THEN @.at ELSE @.at + 1,
                                      pc |-> IF err THEN "failed" ELSE IF last THEN "done" ELSE "ready"]]
      /\ UNCHANGED <<sweep, outside, err, result, reached, refused, skipped>>

(* Mutant: visitors an error kept from starting are waited for.            *)
BugEnded(c) == task[c].pc \in {"done", "failed"}

(* The last goroutine of the last visitor has returned.                    *)
Ended(c) ==
  \/ task[c].pc \in {"done", "failed"}
  \/ command.depends # "nothing" /\ task[c].pc = "wait"
       /\ \E d \in chosen : Service(d) # Service(c) /\ task[d].pc = "failed"
            /\ Service(c) = IF op = "stop" THEN "db" ELSE "web"
AllEnded == phase = "sweep" /\ result = "none" /\ \A c \in chosen : Ended(c)
Failed   == \E c \in chosen : task[c].pc = "failed"

StopsFirst ==
  /\ AllEnded /\ ~Failed /\ op # command.op
  /\ op' = command.op /\ phase' = "list"
  /\ chosen' = {} /\ task' = AllIdle
  /\ reached' = {} /\ refused' = {} /\ skipped' = {} /\ revived' = {}
  /\ UNCHANGED <<command, state, troubles, found, err, result, dropped>>

(* wait --down-project removes the project when all it waited for ended.   *)
Return ==
  /\ AllEnded /\ (Failed \/ op = command.op)
  /\ result' = IF Failed THEN "err" ELSE "nil"
  /\ dropped' = (op = "wait" /\ command.flag /\ ~Failed)
  /\ UNCHANGED <<command, op, phase, found, chosen, outside, task, err, reached, refused, skipped>>

Next ==
  \/ Give \/ ListNothing \/ List \/ Confirm \/ NothingToRemove \/ WaitFails \/ StopsFirst \/ Return
  \/ \E s \in Services : Visit(s) \/ Enter(s)
  \/ \E c \in Containers : Trouble(c) \/ Inspect(c) \/ Call(c) \/ Read(c)

(* The command's goroutines run; that containers end, or that anything     *)
(* happens from outside, is not assumed.                                   *)
Fairness ==
  /\ WF_vars(ListNothing \/ List \/ Confirm \/ NothingToRemove \/ WaitFails \/ StopsFirst \/ Return)
  /\ \A s \in Services : WF_vars(Visit(s) \/ Enter(s))
  /\ \A c \in Containers : WF_vars(Inspect(c) \/ Call(c) \/ Read(c))

Spec == Init /\ [][Next]_vars /\ Fairness

----------------------------------------------------------------------------
(* Variables keep their types.                                             *)
TypeOK ==
  /\ command \in Commands \cup {None} /\ op \in Kinds \cup {"none", "stop"}
  /\ phase \in {"idle", "list", "inspect", "sweep"}
  /\ state \in [Containers -> Live \cup {"exited", "gone"}]
  /\ found \cup chosen \cup reached \cup refused \cup skipped \cup revived \subseteq Containers
  /\ task \in [Containers -> [at : 0..3, pc : {"off", "wait", "visited", "ready", "read", "done", "failed"}]]
  /\ err \in BOOLEAN /\ dropped \in BOOLEAN /\ troubles \in 0..MaxTroubles
  /\ result \in {"none", "nil", "err", "empty"}

(* A command that reports success has done its call on every container it  *)
(* was about, however the goroutines and what happened from outside mixed. *)
(* Two exceptions: the goroutines of unpause and of restart share a        *)
(* variable for their errors (pause.go:80, restart.go:92), so that one     *)
(* failure may be lost; and a stop passes over a container that was not    *)
(* running when its pre_stop hook should (down.go:309).                    *)
SuccessMeansSwept ==
  result = "nil" /\ phase = "sweep" =>
    \A c \in chosen : c \in reached \/ c \in skipped \/ (c \in refused /\ Shares)

(* A container that runs is removed only by rm --force, and only if it was *)
(* started between its inspection and its removal (remove.go:69).          *)
RunningIsSpared ==
  [][\A c \in Containers : state[c] \in Live /\ state'[c] = "gone" => command.flag /\ c \in revived]_vars

(* Sweeps report what they did, and removal spares what runs.              *)
SweepsAreHonest == [](TypeOK /\ SuccessMeansSwept) /\ RunningIsSpared

(* Every sweep returns, but for wait, and for a restart whose dependency   *)
(* is neither running nor ended: waitDependencies has no timeout there.    *)
SweepsReturn ==
  (phase # "idle" /\ op # "wait") ~>
    (result # "none" \/ (command.depends = "healthy" /\ \E d \in Db : state[d] = "paused"))

(* docs/reference/compose_wait.md: --down-project "Drops project when the  *)
(* first container stops".                                                 *)
DropsAtFirstExit ==
  (op = "wait" /\ command.flag /\ (\E c \in chosen : state[c] = "exited")) ~> (dropped \/ result = "err")
=============================================================================
