--------------------------- MODULE MCRawProcess ---------------------------
(***************************************************************************)
(* Callers that start and stop processes, one by one or all of them, while *)
(* the processes end, fork and ignore signals: two new processes and two   *)
(* calls, or one that is new and one that has ended, and more calls.       *)
(***************************************************************************)
EXTENDS RawProcess

NewInit == RawInit /\ managed = Processes /\ calls = MaxCalls - 2

EndedInit(p) ==
  /\ managed = Processes
  /\ piped \in BOOLEAN
  /\ ctxDone = FALSE
  /\ state = [r \in Processes |-> IF r = p THEN "stopped" ELSE "starting"]
  /\ cmd = [r \in Processes |-> IF r = p THEN "started" ELSE "nil"]
  /\ shell = [r \in Processes |-> IF r = p THEN "exit 0" ELSE "none"]
  /\ children = [r \in Processes |-> "none"]
  /\ waiter = [r \in Processes |-> IF r = p THEN "done" ELSE "none"]
  /\ stopped = [r \in Processes |-> r = p]
  /\ calls = 0
  /\ call = [c \in Callers |-> NoCall]

MCInit == NewInit \/ EndedInit(CHOOSE p \in Processes : TRUE)

MCSpec == MCInit /\ [][RawNext]_rawVars /\ RawFairness
=============================================================================
