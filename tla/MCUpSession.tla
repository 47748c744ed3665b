---------------------------- MODULE MCUpSession ----------------------------
(***************************************************************************)
(* Projects of one container and three troubles, with every option for     *)
(* exits, and of two containers, alike, and one trouble, with a menu or    *)
(* --exit-code-from; new or running before up attaches.  Or logs, which    *)
(* has a monitor too, for two containers and two troubles.                 *)
(***************************************************************************)
EXTENDS UpSession, TLC

CONSTANTS Logged, Picked   \* Containers and Odd of Logs

ASSUME TroublesOfLogs == MaxTroubles \in Nat \ {0}

VARIABLES asked, at, life, runs, said, reader, listening, followed, news, untold, interrupted,
          broken, troubles, answer

logVars == <<asked, at, life, runs, said, reader, listening, followed, news, untold, interrupted,
             broken, troubles, answer>>

Logging == INSTANCE Logs WITH Containers <- Logged, Odd <- Picked, MaxTroubles <- MaxTroubles - 1,
                              monitor <- listening, watched <- followed

VARIABLE command  \* "up" or "logs"

Alone == Cardinality(project) = 1

MCInit ==
  /\ Init /\ Logging!Init
  /\ \A c \in project : st[c] = "created" \/ (st[c] = "running" /\ (Alone \/ menu))
  /\ menu = (onExit = "ignore")
  /\ budget = IF Alone THEN 3 ELSE 1
  /\ watches = project \/ menu
  /\ exitFrom # "nobody" <=> onExit = "stop"
  /\ onExit = "fail" => Alone
  /\ command \in {"up", "logs"}
  /\ command = "logs" => Alone /\ onExit = "fail" /\ \A c \in project : st[c] = "created"

MCNext ==
  \/ command = "up" /\ Next /\ UNCHANGED <<command, logVars>>
  \/ command = "logs" /\ Logging!Next /\ UNCHANGED <<command, vars>>

MCSpec == MCInit /\ [][MCNext]_<<vars, command, logVars>>

(* Logs shows what containers say, once, and ends with them (logs.go:33).  *)
LogsAreRight == command = "logs" => Logging!LogsAreRight

(* With --index only that container is shown (cmd/compose/logs.go:64).     *)
OnlyTheIndex == Logging!OnlyTheIndex

ContainersAreAlike == Permutations(Containers)
=============================================================================
