--------------------------- MODULE MCConvergence ---------------------------
(***************************************************************************)
(* Commands that change the configuration, the scale and the policy in     *)
(* every way, one after the other.                                         *)
(***************************************************************************)
EXTENDS Convergence, TLC

(* The commands wanted no more than one replica and never forced it to be  *)
(* recreated, and one that failed or was killed was run again, as it was.  *)
VARIABLE oneReplica

Plain(w) == w.scale <= 1 /\ w.policy # "force"

Retried == phase = "failed" => want' = want

MCInit == Init /\ oneReplica = TRUE
MCNext == Next /\ oneReplica' = (oneReplica /\ (commands' # commands => Plain(want') /\ Retried))
MCSpec == MCInit /\ [][MCNext]_<<vars, oneReplica>>

(* One replica is reconciled from any state a command leaves: one that is  *)
(* run again after it failed or was killed between any two calls of        *)
(* recreateContainer, and that meets no fault itself, succeeds.            *)
OneReplicaHeals == oneReplica => RetryHeals

(* A nil of the command means a converged service, and one replica heals   *)
(* from whatever an earlier command left.                                  *)
Reconciled == Converged /\ OneReplicaHeals

ConfigsAreAlike == Permutations(Configs)
=============================================================================
