---------------------------- MODULE RawProcess ----------------------------
(***************************************************************************)
(* Processes outside containers (pkg/process/process.go).  A Process runs  *)
(* its command with sh -c in a process group of its own, under the context *)
(* given to Start; a goroutine waits for it and records how it ended; Stop *)
(* sends SIGTERM to the shell, and SIGKILL after a timeout, and waits for  *)
(* that goroutine.  A ProcessManager starts and stops the processes it     *)
(* holds one after the other.                                              *)
(*                                                                         *)
(* Callers run concurrently.  What Start, Add, Remove and the recording    *)
(* goroutine do under a mutex is one step; Stop gives its mutex back       *)
(* before it signals.  Names are taken modulo case, as Add compares them.  *)
(* Start looks at the context and starts the shell in one step.            *)
(***************************************************************************)
EXTENDS Integers

CONSTANTS Processes,     \* Objects made by NewProcess, with different names
          Callers,       \* Goroutines that call the API
          MaxCalls       \* Bound: calls of the API

ASSUME MaxCallsAssumption == MaxCalls \in Nat

VARIABLES
  managed,   \* The processes of the manager
  piped,     \* Output goes to a writer that is no file, through a pipe cmd.Wait waits for
  ctxDone,   \* The context given to Start is done
  state,     \* state[p]: p.State
  cmd,       \* cmd[p]: p.cmd is "nil", "unstarted" (p.cmd.Process is nil) or "started"
  shell,     \* shell[p]: the shell in the system
  children,  \* children[p]: what the shell started and that holds its output pipe
  waiter,    \* waiter[p]: where waitForProcess is
  stopped,   \* stopped[p]: p.stopCh is closed
  calls,     \* Calls so far, some of them maybe before
  call       \* call[c]: the call of caller c

process == <<state, cmd, shell, children, waiter, stopped>>
rawVars == <<managed, piped, ctxDone, process, calls, call>>

States   == {"starting", "running", "stopped", "failed"}
Alive(p)  == shell[p] = "running"
Reaped(p) == waiter[p] \in {"copy", "record", "done"}

(* A call: what it is, the processes it has still to go to, the one it is  *)
(* at, and where; whether it met an error; the processes it found started; *)
(* its result.                                                             *)
NoCall == [op |-> "none", todo |-> {}, at |-> "none", pc |-> "idle", failed |-> FALSE, found |-> {}, result |-> "none"]
Call(op, todo) == [NoCall EXCEPT !.op = op, !.todo = todo, !.pc = "next"]

RawInit ==
  /\ managed \in SUBSET Processes
  /\ piped \in BOOLEAN
  /\ ctxDone = FALSE
  /\ state = [p \in Processes |-> "starting"]
  /\ cmd = [p \in Processes |-> "nil"]
  /\ shell = [p \in Processes |-> "none"]
  /\ children = [p \in Processes |-> "none"]
  /\ waiter = [p \in Processes |-> "none"]
  /\ stopped = [p \in Processes |-> FALSE]
  /\ calls \in 0..MaxCalls
  /\ call = [c \in Callers |-> NoCall]

----------------------------------------------------------------------------
Counted == calls < MaxCalls /\ calls' = calls + 1

(* The manager.                                                            *)
Add(p) ==
  /\ p \notin managed
  /\ managed' = managed \cup {p}
  /\ Counted
  /\ UNCHANGED <<piped, ctxDone, process, call>>

Remove(p) ==
  /\ p \in managed
  /\ managed' = managed \ {p}
  /\ Counted
  /\ UNCHANGED <<piped, ctxDone, process, call>>

(* Start and Stop of one process, StartAll and StopAll of those the        *)
(* manager has now.                                                        *)
Begins(c) ==
  /\ call[c].pc \in {"idle", "returned"}
  /\ Counted
  /\ \/ \E p \in Processes, op \in {"Start", "Stop"} : call' = [call EXCEPT ![c] = Call(op, {p})]
     \/ \E op \in {"StartAll", "StopAll"} : call' = [call EXCEPT ![c] = Call(op, managed)]
  /\ UNCHANGED <<managed, piped, ctxDone, process>>

(* A call is done with a process, for good or with an error.               *)
Done(c, p, error) ==
  call' = [call EXCEPT ![c] = [call[c] EXCEPT
             !.todo   = call[c].todo \ {p},
             !.at     = "none",
             !.pc     = "next",
             !.failed = call[c].failed \/ error,
             !.found  = IF cmd[p] = "started" THEN call[c].found \cup {p} ELSE call[c].found]]

CallGoes(c, pc) == call' = [call EXCEPT ![c].pc = pc]

Returns(c) ==
  /\ call[c].pc = "next"
  /\ call[c].todo = {}
  /\ call' = [call EXCEPT ![c] = [call[c] EXCEPT !.pc = "returned",
                                              !.result = IF call[c].failed THEN "err" ELSE "nil"]]
  /\ UNCHANGED <<managed, piped, calls, ctxDone, process>>

----------------------------------------------------------------------------
(* Start.                                                                  *)
Starting(c, p) == call[c].pc = "next" /\ call[c].op \in {"Start", "StartAll"} /\ p \in call[c].todo

(* The context is done, or the process has been started before.            *)
Refused(p) == ctxDone \/ cmd[p] = "started" \/ state[p] = "running"

StartRefused(c, p) ==
  /\ Starting(c, p)
  /\ Refused(p)
  /\ Done(c, p, TRUE)
  /\ UNCHANGED <<managed, piped, calls, ctxDone, process>>

StartFails(c, p) ==
  /\ Starting(c, p)
  /\ ~Refused(p)
  /\ cmd' = [cmd EXCEPT ![p] = "unstarted"]
  /\ state' = [state EXCEPT ![p] = "failed"]
  /\ Done(c, p, TRUE)
  /\ UNCHANGED <<managed, piped, calls, ctxDone, shell, children, waiter, stopped>>

StartSucceeds(c, p) ==
  /\ Starting(c, p)
  /\ ~Refused(p)
  /\ cmd' = [cmd EXCEPT ![p] = "started"]
  /\ state' = [state EXCEPT ![p] = "running"]
  /\ shell' = [shell EXCEPT ![p] = "running"]
  /\ children' = [children EXCEPT ![p] = "none"]
  /\ waiter' = [waiter EXCEPT ![p] = "wait"]
  /\ stopped' = [stopped EXCEPT ![p] = FALSE]
  /\ Done(c, p, FALSE)
  /\ UNCHANGED <<managed, piped, calls, ctxDone>>

----------------------------------------------------------------------------
(* Stop.                                                                   *)
Stopping(c, p) == call[c].pc = "next" /\ call[c].op \in {"Stop", "StopAll"} /\ p \in call[c].todo

Running(p) == state[p] \in {"running", "starting"}

(* Not started or ended already: an error of Stop, which StopAll drops.    *)
StopNotRunning(c, p) ==
  /\ Stopping(c, p)
  /\ cmd[p] # "started" \/ ~Running(p)
  /\ Done(c, p, call[c].op = "Stop")
  /\ UNCHANGED <<managed, piped, calls, ctxDone, process>>

StopBegins(c, p) ==
  /\ Stopping(c, p)
  /\ cmd[p] = "started" /\ Running(p)
  /\ call' = [call EXCEPT ![c] = [call[c] EXCEPT !.at = p, !.pc = "terminate"]]
  /\ UNCHANGED <<managed, piped, calls, ctxDone, process>>

Ended(p, how) == shell' = [shell EXCEPT ![p] = IF Alive(p) THEN how ELSE @]

(* SIGTERM.  os.ErrProcessDone, when the shell has been reaped, is a       *)
(* success at once; a shell that handles the signal ends later or never.   *)
StopTerminates(c, p) ==
  /\ call[c].pc = "terminate" /\ call[c].at = p
  /\ IF Reaped(p)
     THEN Done(c, p, FALSE) /\ UNCHANGED shell
     ELSE CallGoes(c, "await") /\ (UNCHANGED shell \/ Ended(p, "exit 1"))
  /\ UNCHANGED <<managed, piped, calls, ctxDone, state, cmd, children, waiter, stopped>>

BugStopKills(c, p) ==
  /\ call[c].pc = "await" /\ call[c].at = p
  /\ Ended(p, "exit 1")
  /\ Done(c, p, FALSE)
  /\ UNCHANGED <<managed, piped, calls, ctxDone, state, cmd, children, waiter, stopped>>

(* The timeout: SIGKILL, which an ended shell does not mind.               *)
StopKills(c, p) ==
  /\ call[c].pc = "await" /\ call[c].at = p
  /\ Ended(p, "exit 1")
  /\ CallGoes(c, "killed")
  /\ UNCHANGED <<managed, piped, calls, ctxDone, state, cmd, children, waiter, stopped>>

StopSucceeds(c, p) ==
  /\ call[c].pc \in {"await", "killed"} /\ call[c].at = p
  /\ stopped[p]
  /\ Done(c, p, FALSE)
  /\ UNCHANGED <<managed, piped, calls, ctxDone, process>>

----------------------------------------------------------------------------
(* waitForProcess: the shell is reaped, then the output read to its end,   *)
(* then the end is recorded.                                               *)
Reap(p) ==
  /\ waiter[p] = "wait"
  /\ shell[p] \in {"exit 0", "exit 1"}
  /\ waiter' = [waiter EXCEPT ![p] = "copy"]
  /\ UNCHANGED <<managed, piped, calls, ctxDone, state, cmd, shell, children, stopped, call>>

EndOfOutput(p) ==
  /\ waiter[p] = "copy"
  /\ piped => children[p] # "running"
  /\ waiter' = [waiter EXCEPT ![p] = "record"]
  /\ UNCHANGED <<managed, piped, calls, ctxDone, state, cmd, shell, children, stopped, call>>

BugClosed(p) == shell[p] = "exit 0"

(* The channel is closed whatever the exit status.                         *)
Closed(p) == TRUE

RecordEnd(p) ==
  /\ waiter[p] = "record"
  /\ waiter' = [waiter EXCEPT ![p] = "done"]
  /\ state' = [state EXCEPT ![p] = IF shell[p] = "exit 0" THEN "stopped" ELSE "failed"]
  /\ stopped' = [stopped EXCEPT ![p] = Closed(p)]
  /\ UNCHANGED <<managed, piped, calls, ctxDone, cmd, shell, children, call>>

----------------------------------------------------------------------------
(* The system.  SIGTERM and SIGKILL reach the shell only.                  *)
ShellEnds(p) ==
  /\ Alive(p)
  /\ Ended(p, "exit 0") \/ Ended(p, "exit 1")
  /\ UNCHANGED <<managed, piped, calls, ctxDone, state, cmd, children, waiter, stopped, call>>

ShellForks(p) ==
  /\ Alive(p)
  /\ piped
  /\ children' = [children EXCEPT ![p] = "running"]
  /\ UNCHANGED <<managed, piped, calls, ctxDone, state, cmd, shell, waiter, stopped, call>>

ChildrenEnd(p) ==
  /\ children[p] = "running"
  /\ children' = [children EXCEPT ![p] = "none"]
  /\ UNCHANGED <<managed, piped, calls, ctxDone, state, cmd, shell, waiter, stopped, call>>

CancelContext ==
  /\ ~ctxDone
  /\ ctxDone' = TRUE
  /\ UNCHANGED <<managed, piped, calls, process, call>>

(* exec.CommandContext kills the shell when the context is done.           *)
ContextKills(p) ==
  /\ ctxDone
  /\ Alive(p)
  /\ Ended(p, "exit 1")
  /\ UNCHANGED <<managed, piped, calls, ctxDone, state, cmd, children, waiter, stopped, call>>

Caller(c) ==
  \/ Returns(c)
  \/ \E p \in Processes :
       \/ StartRefused(c, p) \/ StartFails(c, p) \/ StartSucceeds(c, p)
       \/ StopNotRunning(c, p) \/ StopBegins(c, p)
       \/ StopTerminates(c, p) \/ StopKills(c, p) \/ StopSucceeds(c, p)

Waiter(p) == Reap(p) \/ EndOfOutput(p) \/ RecordEnd(p)

System(p) == ShellEnds(p) \/ ShellForks(p) \/ ChildrenEnd(p)

RawNext ==
  \/ \E p \in Processes : Add(p) \/ Remove(p) \/ Waiter(p) \/ System(p) \/ ContextKills(p)
  \/ \E c \in Callers : Begins(c) \/ Caller(c)
  \/ CancelContext

RawSpec == RawInit /\ [][RawNext]_rawVars

(* Calls and goroutines go on when they can, timeouts pass and the system  *)
(* kills; the shell and its children need never end by themselves.         *)
RawFairness ==
  /\ \A c \in Callers : WF_rawVars(Caller(c))
  /\ \A p \in Processes : WF_rawVars(Waiter(p)) /\ WF_rawVars(ContextKills(p))

RawFairSpec == RawSpec /\ RawFairness

----------------------------------------------------------------------------
CallRecord ==
  [op     : {"none", "Start", "Stop", "StartAll", "StopAll"},
   todo   : SUBSET Processes,
   at     : Processes \cup {"none"},
   pc     : {"idle", "next", "terminate", "await", "killed", "returned"},
   failed : BOOLEAN,
   found  : SUBSET Processes,
   result : {"none", "nil", "err"}]

CallOK == call \in [Callers -> CallRecord]

ProcessOK ==
  /\ managed \subseteq Processes
  /\ piped \in BOOLEAN /\ ctxDone \in BOOLEAN
  /\ state \in [Processes -> States]
  /\ cmd \in [Processes -> {"nil", "unstarted", "started"}]
  /\ shell \in [Processes -> {"none", "running", "exit 0", "exit 1"}]
  /\ children \in [Processes -> {"none", "running"}]
  /\ waiter \in [Processes -> {"none", "wait", "copy", "record", "done"}]
  /\ calls \in Nat

StagesOK ==
  \A p \in Processes :
    /\ (waiter[p] = "none") <=> (cmd[p] # "started")
    /\ Running(p) /\ cmd[p] = "started" <=> waiter[p] \in {"wait", "copy", "record"}

StoppedOK == stopped = [p \in Processes |-> waiter[p] = "done"]

(* Type invariant: where the goroutine is, the shell and the recorded      *)
(* state belong together.                                                  *)
RawTypeOK == ProcessOK /\ StagesOK /\ StoppedOK /\ CallOK

(* When Stop or StopAll has returned nil, the shell of every process it    *)
(* found started has ended and has been reaped, whoever else was starting, *)
(* stopping or cancelling.                                                 *)
StopMeansReaped ==
  \A c \in Callers :
    call[c].op \in {"Stop", "StopAll"} /\ call[c].result = "nil" =>
      \A p \in call[c].found : Reaped(p) /\ ~Alive(p)

(* No shell outlives the context it was started with, although Start may   *)
(* be at it when the context is cancelled.                                 *)
NoShellOutlivesContext == ctxDone ~> [](\A p \in Processes : ~Alive(p))

Stops(c) == call[c].pc \in {"terminate", "await", "killed"}

(* Stop gives up waiting after its timeout and kills, so it returns        *)
(* whatever the command does.                                              *)
StopReturns == \A c \in Callers : Stops(c) ~> ~Stops(c)

(* It does when cmd.Wait has no pipe to read.                              *)
StopReturnsUnlessPiped == \A c \in Callers : Stops(c) /\ ~piped ~> ~Stops(c)

(* Variables keep their types, and a nil of Stop or StopAll means that the *)
(* shells they found running have been waited for (Stop, waitForProcess).  *)
ShellsAreReaped == RawTypeOK /\ StopMeansReaped

(* No shell outlives the context for ever, and Stop returns.               *)
ShellsEndAndStopReturns == NoShellOutlivesContext /\ StopReturnsUnlessPiped
=============================================================================
