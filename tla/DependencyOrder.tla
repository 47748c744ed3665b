-------------------------- MODULE DependencyOrder --------------------------
(***************************************************************************)
(* What InDependencyOrder and InReverseDependencyOrder promise             *)
(* (pkg/compose/dependencies.go): a function is applied to every service   *)
(* of a project, to a service only once it has succeeded for all the       *)
(* services in before[s].  Going up, before[s] is what s depends on; going *)
(* down, it is what depends on s.  How the order is obtained (goroutines,  *)
(* a channel, an errgroup) is the business of GraphTraversal.              *)
(***************************************************************************)

CONSTANT Services       \* The services of the project

VARIABLES before,       \* before[s]: services to be done before s, never changes
          phase,        \* phase[s]: "waiting", "active", "ok" or "failed"
          cancelled,    \* The caller's context is done
          verdict       \* What the call returned: "none", "nil" or "err"

vars == <<before, phase, cancelled, verdict>>

Phases == {"waiting", "active", "ok", "failed"}

Init ==
  /\ before \in [Services -> SUBSET Services]
  /\ phase = [s \in Services |-> "waiting"]
  /\ cancelled = FALSE
  /\ verdict = "none"

(* The function is applied to s: all that comes before s has succeeded.    *)
Begin(s) ==
  /\ verdict = "none"
  /\ phase[s] = "waiting"
  /\ \A t \in before[s] : phase[t] = "ok"
  /\ phase' = [phase EXCEPT ![s] = "active"]
  /\ UNCHANGED <<before, cancelled, verdict>>

(* The function returns for s, with or without an error.                   *)
Finish(s) ==
  /\ phase[s] = "active"
  /\ \E p \in {"ok", "failed"} : phase' = [phase EXCEPT ![s] = p]
  /\ UNCHANGED <<before, cancelled, verdict>>

Cancel ==
  /\ ~cancelled
  /\ cancelled' = TRUE
  /\ UNCHANGED <<before, phase, verdict>>

(* The call returns once nothing is active: an error if some service       *)
(* failed, nil if all succeeded or if the caller gave up.                  *)
Return ==
  /\ verdict = "none"
  /\ \A s \in Services : phase[s] # "active"
  /\ \/ /\ \E s \in Services : phase[s] = "failed"
        /\ verdict' = "err"
     \/ /\ \A s \in Services : phase[s] # "failed"
        /\ cancelled \/ \A s \in Services : phase[s] = "ok"
        /\ verdict' = "nil"
  /\ UNCHANGED <<before, phase, cancelled>>

Next ==
  \/ \E s \in Services : Begin(s) \/ Finish(s)
  \/ Cancel
  \/ Return

Spec == Init /\ [][Next]_vars

=============================================================================
