------------------------------- MODULE Models -------------------------------
(***************************************************************************)
(* ensureModels (pkg/compose/model.go): before containers are created, the *)
(* models of a project are pulled if they are not there and configured,    *)
(* and the services that use them get their variables, all by goroutines   *)
(* of one group.  All share one variable for the error of a pull.          *)
(***************************************************************************)
EXTENDS Naturals, FiniteSets

CONSTANT Models

VARIABLES
  local,      \* Models the runner has
  certs,      \* There is a directory with the keys of the engine
  listed,     \* What ListModels says it has; nothing, if it fails
  pulls,      \* Models that can be pulled
  modelStep,  \* "none", "list", "run" and "done"
  goroutine,  \* Where the goroutine for a model is
  outcome,    \* What its pull has returned
  err,        \* The err of ensureModels
  failed,     \* A goroutine has failed: the others are cancelled
  configured, \* Whether a model is: "no", "yes", "refused", "cancelled"
  urls,       \* SetModelVariables: "none", "set", "failed", "cancelled"
  ensured     \* What ensureModels returns

vars == <<local, certs, listed, pulls, modelStep, goroutine, outcome, err, failed, configured,
          urls, ensured>>

Init ==
  /\ local = {} /\ certs = FALSE /\ listed = {} /\ pulls = {} /\ modelStep = "none"
  /\ goroutine = [m \in Models |-> "idle"] /\ outcome = [m \in Models |-> FALSE]
  /\ err = FALSE /\ failed = FALSE /\ configured = [m \in Models |-> "no"] /\ urls = "none"
  /\ ensured = "none"

(* newModelAPI: it needs the plugin, and the keys of the engine, written   *)
(* for the commands to come.                                               *)
Begin ==
  /\ modelStep = "none"
  /\ local' \in SUBSET Models /\ pulls' \in SUBSET Models
  /\ certs' \in BOOLEAN
  /\ modelStep' = "list"
  /\ UNCHANGED <<listed, goroutine, outcome, err, failed, configured, urls, ensured>>

CannotBegin ==
  /\ modelStep = "none"
  /\ certs' \in BOOLEAN \* Some keys are written, one is not
  /\ modelStep' = "done" /\ ensured' = "err"
  /\ UNCHANGED <<local, listed, pulls, goroutine, outcome, err, failed, configured, urls>>

(* ListModels; that it fails is not noticed, but by the next one.          *)
List ==
  /\ modelStep = "list"
  /\ listed' \in {local, {}}
  /\ err' = (listed' # local)
  /\ modelStep' = "run"
  /\ UNCHANGED <<local, certs, pulls, goroutine, outcome, failed, configured, urls, ensured>>

Goto(m, g) == goroutine' = [goroutine EXCEPT ![m] = g]
Runs == modelStep = "run" /\ ensured = "none"

(* SetModelVariables: status, then the variables of all services.          *)
SetModelVariables ==
  /\ Runs /\ urls = "none"
  /\ \/ urls' = "set" /\ ~failed /\ UNCHANGED failed
     \/ urls' = (IF failed THEN "cancelled" ELSE "failed") /\ failed' = TRUE
  /\ UNCHANGED <<local, certs, listed, pulls, modelStep, goroutine, outcome, err, configured, ensured>>

StartModel(m) ==
  /\ Runs /\ goroutine[m] = "idle"
  /\ Goto(m, IF m \in listed THEN "configure" ELSE "pull")
  /\ UNCHANGED <<local, certs, listed, pulls, modelStep, outcome, err, failed, configured, urls, ensured>>

(* PullModel.  (Its last event says pulled whether or not it was.)         *)
PullModel(m) ==
  /\ Runs /\ goroutine[m] = "pull"
  /\ \/ /\ m \in pulls /\ ~failed
        /\ local' = local \cup {m} /\ outcome' = [outcome EXCEPT ![m] = TRUE]
     \/ /\ m \notin pulls \/ failed
        /\ UNCHANGED <<local, outcome>>
  /\ Goto(m, "assign")
  /\ UNCHANGED <<certs, listed, pulls, modelStep, err, failed, configured, urls, ensured>>

(* err = mdlAPI.PullModel(...), where err is shared.                       *)
Assign(m) ==
  /\ Runs /\ goroutine[m] = "assign"
  /\ err' = ~outcome[m]
  /\ Goto(m, "check")
  /\ UNCHANGED <<local, certs, listed, pulls, modelStep, outcome, failed, configured, urls, ensured>>

(* Mutant: whether the pull has failed is not looked at.                   *)
BugPullFailed(m) == FALSE

(* if err != nil { return err }                                            *)
PullFailed(m) == err

CheckPull(m) ==
  /\ Runs /\ goroutine[m] = "check"
  /\ IF PullFailed(m) THEN failed' = TRUE /\ Goto(m, "failed")
     ELSE Goto(m, "configure") /\ UNCHANGED failed
  /\ UNCHANGED <<local, certs, listed, pulls, modelStep, outcome, err, configured, urls, ensured>>

(* ConfigureModel runs a command; what it does with a model that is not    *)
(* there is up to the plugin.                                              *)
ConfigureModel(m) ==
  /\ Runs /\ goroutine[m] = "configure"
  /\ \/ /\ ~failed
        /\ configured' = [configured EXCEPT ![m] = "yes"] /\ Goto(m, "done")
        /\ UNCHANGED failed
     \/ /\ failed' = TRUE /\ Goto(m, "failed")
        /\ configured' = [configured EXCEPT ![m] = IF failed THEN "cancelled" ELSE "refused"]
  /\ UNCHANGED <<local, certs, listed, pulls, modelStep, outcome, err, urls, ensured>>

(* eg.Wait: an error, if a goroutine has returned one; then Close.         *)
Ensured ==
  /\ Runs /\ urls # "none" /\ \A m \in Models : goroutine[m] \in {"done", "failed"}
  /\ ensured' = IF failed THEN "err" ELSE "nil"
  /\ modelStep' = "done"
  /\ certs' = FALSE
  /\ UNCHANGED <<local, listed, pulls, goroutine, outcome, err, failed, configured, urls>>

Next ==
  \/ Begin \/ CannotBegin \/ List \/ SetModelVariables \/ Ensured
  \/ \E m \in Models : StartModel(m) \/ PullModel(m) \/ Assign(m) \/ CheckPull(m) \/ ConfigureModel(m)

Spec == Init /\ [][Next]_vars

----------------------------------------------------------------------------
(* Variables keep their types.                                             *)
TypeOK ==
  /\ goroutine \in [Models -> {"idle", "pull", "assign", "check", "configure", "done", "failed"}]
  /\ configured \in [Models -> {"no", "yes", "refused", "cancelled"}]
  /\ listed \subseteq Models /\ certs \in BOOLEAN /\ urls \in {"none", "set", "failed", "cancelled"}
  /\ ensured \in {"none", "nil", "err"}

(* On success every model is configured and the services know where; the   *)
(* models are there, unless the failure of a pull was hidden by that of    *)
(* another, that succeeded meanwhile.                                      *)
ReadyOnSuccess ==
  ensured = "nil" =>
    /\ \A m \in Models : configured[m] = "yes"
    /\ urls = "set"
    /\ Models \ local # {} => \E m \in Models : outcome[m]

(* An error is never made up, neither by the shared variable nor by the    *)
(* cancellation of the others: the first failure is that of a command.     *)
ErrorsAreReal ==
  ensured = "err" /\ urls # "none" =>
    \/ urls = "failed" \/ \E m \in Models : configured[m] = "refused"
    \/ \E m \in Models \ listed : m \notin pulls /\ ~outcome[m]

(* Keys are left only by a project whose models were not looked at.        *)
KeysAreRemoved == modelStep = "done" /\ certs => urls = "none" /\ ensured = "err"

ModelsAreRight == TypeOK /\ ReadyOnSuccess /\ ErrorsAreReal /\ KeysAreRemoved

(* "`cleanup` func MUST be called after child process completion to        *)
(* enforce removal of cert files" (pkg/compose/shellout.go:52).  (It is    *)
(* not when they could not all be written.)                                *)
NoKeysLeft == modelStep = "done" => ~certs
=============================================================================
