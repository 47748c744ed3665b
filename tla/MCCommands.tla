----------------------------- MODULE MCCommands -----------------------------
(***************************************************************************)
(* One command in each behavior: a sweep over the containers of a project, *)
(* or a one-off run.                                                       *)
(***************************************************************************)
EXTENDS Sweeps

VARIABLES run, main, env, caps, dependency, waited, container, code, listener, hooked,
          hookErr, startErr, missed, outcome

runVars == <<run, main, env, caps, dependency, waited, container, code, listener, hooked,
             hookErr, startErr, missed, outcome>>

OneOff == INSTANCE OneOffRun

MCInit == Init /\ OneOff!Init

MCNext ==
  \/ main = "idle" /\ Next /\ UNCHANGED runVars
  \/ command = None /\ OneOff!Next /\ UNCHANGED vars

MCSpec == MCInit /\ [][MCNext]_<<vars, runVars>> /\ Fairness /\ OneOff!Fairness

(* What compose run reports is what happened (run.go:44).                  *)
RunIsRight == OneOff!RunIsRight

(* A sweep returns, and compose run when its container has ended           *)
(* (run.go:79).                                                            *)
CommandsReturn == SweepsReturn /\ OneOff!RunReturns
=============================================================================
