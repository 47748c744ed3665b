-------------------------- MODULE MCServiceStart --------------------------
(***************************************************************************)
(* Two services, web and db, web depending on db in every way.  db has     *)
(* containers in every state an earlier command may have left them in; web *)
(* is new, has one container and no health check.                          *)
(***************************************************************************)
EXTENDS ServiceStart

CONSTANTS web, db, DbReplicas, DbHealthcheck

MCInit ==
  /\ \E c \in Conditions \cup {"none"} :
       condition = [s \in Services |-> [d \in Services |->
                      IF s = web /\ d = db THEN c ELSE "none"]]
  /\ required \in SUBSET {<<web, db>>}
  /\ healthcheck = IF DbHealthcheck THEN {db} ELSE {}
  /\ replicas \in {[s \in Services |-> IF s = web THEN 1 ELSE n] : n \in DbReplicas}
  /\ scaledToZero \in SUBSET {s \in Services : replicas[s] = 0}
  /\ Init
  /\ status[web][1] = "created"

MCSpec == MCInit /\ [][Next]_vars
MCFairSpec == MCSpec /\ Fairness
=============================================================================
