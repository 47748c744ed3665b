----------------------------- MODULE Providers ------------------------------
(***************************************************************************)
(* Services run by providers (pkg/compose/plugins.go): for up and down     *)
(* compose runs a command for each, reads its messages, waits for it, and  *)
(* gives the variables it has set to the services that depend on it.  The  *)
(* walk visits db and mq concurrently; web, a container, may depend on     *)
(* them: up creates it after them, down removes it before.  (The command   *)
(* that tells a provider's metadata, which may hang, is left out.)         *)
(***************************************************************************)
EXTENDS Naturals, Sequences

CONSTANT MaxMessages \* Bound: messages of the command for db; mq sends one

Provided == {"db", "mq"}
Options  == {"size", "name"}
NoChild  == "none"

VARIABLES
  command,     \* "up" or "down"
  dependsOn,   \* What web depends on
  metadata,    \* What the command says it takes: known and required options
  given,       \* The options of db, as given
  args,        \* and as passed
  pc,          \* Where the visit of a service is
  child,       \* Its command
  pipe,        \* Messages written and not yet read
  sent,        \* Messages written
  variables,   \* Variables set: how many
  environment, \* What web gets of whom
  web,         \* The container of web
  stop,        \* Why no more visits are begun: "", "failed", "interrupted"
  result

vars == <<command, dependsOn, metadata, given, args, pc, child, pipe, sent, variables,
          environment, web, stop, result>>
task == <<command, dependsOn, metadata, given>>

NoMetadata == [known |-> {"none"}, required |-> {}] \* None, or none that can be read

Init ==
  /\ command = "none" /\ dependsOn = {} /\ metadata = NoMetadata /\ given = {} /\ args = {}
  /\ pc = [p \in Provided |-> "idle"] /\ child = [p \in Provided |-> NoChild]
  /\ pipe = [p \in Provided |-> <<>>] /\ sent = [p \in Provided |-> 0]
  /\ variables = [p \in Provided |-> 0] /\ environment = [p \in Provided |-> 0]
  /\ web = "none" /\ stop = "" /\ result = "none"

(* Metadata are not combined with what mq does.                            *)
Given ==
  /\ command = "none"
  /\ command' \in {"up", "down"}
  /\ dependsOn' \in SUBSET Provided
  /\ given' \in SUBSET Options
  /\ \/ metadata' = NoMetadata
     \/ \E known \in SUBSET Options, required \in SUBSET Options :
          required \subseteq known /\ metadata' = [known |-> known, required |-> required]
  /\ metadata' = NoMetadata \/ dependsOn' = {"db"}
  /\ given' = {"size"} \/ metadata' # NoMetadata
  /\ web' = IF command' = "down" THEN "created" ELSE "none"
  /\ UNCHANGED <<args, pc, child, pipe, sent, variables, environment, stop, result>>

Running == command # "none" /\ result = "none"

(* A failed visit keeps the walk from beginning others.                    *)
Fail(p) ==
  /\ pc' = [pc EXCEPT ![p] = "failed"]
  /\ stop' = IF stop = "" THEN "failed" ELSE stop

(* up gives the command the context of the walk, which ends with the first *)
(* failure; down gives it its own.                                         *)
ContextDone == stop = "interrupted" \/ (stop = "failed" /\ command = "up")

----------------------------------------------------------------------------
(* setupPluginCommand: options the metadata do not know are not passed.    *)
NoneKnown == metadata = NoMetadata
Missing(p) == p = "db" /\ ~NoneKnown /\ ~(metadata.required \subseteq given)
Passed == IF NoneKnown THEN given ELSE given \cap metadata.known

Turn(p) == command = "up" \/ p \notin dependsOn \/ (web = "removed" /\ stop = "")

Visit(p) ==
  /\ Running /\ pc[p] = "idle" /\ Turn(p)
  /\ \/ /\ ~Missing(p) /\ ~ContextDone
        /\ pc' = [pc EXCEPT ![p] = "reading"]
        /\ child' = [child EXCEPT ![p] = "running"]
        /\ args' = IF p = "db" THEN Passed ELSE args
        /\ UNCHANGED stop
     \/ Fail(p) /\ UNCHANGED <<child, args>> \* No such command, or it cannot be started
  /\ UNCHANGED <<task, pipe, sent, variables, environment, web, result>>

(* A visitor reads the services of the project without the lock, which the *)
(* Go runtime may notice ("concurrent map read and map write").            *)
Throw ==
  /\ Running /\ \E p \in Provided : pc[p] = "writing"
  /\ \E p \in Provided : pc[p] = "idle" /\ Turn(p)
  /\ result' = "fatal"
  /\ UNCHANGED <<task, args, pc, child, pipe, sent, variables, environment, web, stop>>

(* The command: what it prints, and how it ends.  A message that makes no  *)
(* sense is handled as an error is.                                        *)
Say(p, m) ==
  /\ child[p] = "running" /\ sent[p] < (IF p = "db" THEN MaxMessages ELSE 1)
  /\ sent' = [sent EXCEPT ![p] = @ + 1]
  /\ pipe' = [pipe EXCEPT ![p] = IF pc[p] = "reading" THEN Append(@, m) ELSE @]
  /\ UNCHANGED <<task, args, pc, child, variables, environment, web, stop, result>>

Exit(p) ==
  /\ child[p] = "running"
  /\ child' = [child EXCEPT ![p] = "succeeded"] \/ child' = [child EXCEPT ![p] = "failed"]
  /\ UNCHANGED <<task, args, pc, pipe, sent, variables, environment, web, stop, result>>

Killed(p) ==
  /\ child[p] = "running" /\ ContextDone
  /\ child' = [child EXCEPT ![p] = "failed"]
  /\ UNCHANGED <<task, args, pc, pipe, sent, variables, environment, web, stop, result>>

(* executePlugin.  After an error, or a message that is none, it returns   *)
(* at once and does not wait for the command.                              *)
Read(p) ==
  /\ pc[p] = "reading" /\ pipe[p] # <<>>
  /\ pipe' = [pipe EXCEPT ![p] = Tail(@)]
  /\ CASE Head(pipe[p]) = "info"   -> UNCHANGED <<pc, stop, variables>>
       [] Head(pipe[p]) = "setenv" -> /\ variables' = [variables EXCEPT ![p] = @ + 1]
                                      /\ UNCHANGED <<pc, stop>>
       [] OTHER                    -> Fail(p) /\ UNCHANGED variables
  /\ UNCHANGED <<task, args, child, sent, environment, web, result>>

(* At the end of its output it waits for the command.                      *)
Wait(p) ==
  /\ pc[p] = "reading" /\ pipe[p] = <<>> /\ child[p] \in {"succeeded", "failed"}
  /\ child' = [child EXCEPT ![p] = "reaped"]
  /\ IF child[p] = "succeeded" THEN pc' = [pc EXCEPT ![p] = "ended"] /\ UNCHANGED stop
     ELSE Fail(p)
  /\ UNCHANGED <<task, args, pipe, sent, variables, environment, web, result>>

----------------------------------------------------------------------------
(* Mutant: every service gets the variables.                               *)
BugDependents(p) == TRUE

(* runPlugin: the services that depend on it, whose variables it then sets *)
(* under the lock.                                                         *)
Dependents(p) == p \in dependsOn

Lock(p) ==
  /\ Running /\ pc[p] = "ended" /\ \A q \in Provided : pc[q] # "writing"
  /\ pc' = [pc EXCEPT ![p] = IF Dependents(p) THEN "writing" ELSE "done"]
  /\ UNCHANGED <<task, args, child, pipe, sent, variables, environment, web, stop, result>>

Write(p) ==
  /\ Running /\ pc[p] = "writing"
  /\ environment' = [environment EXCEPT ![p] = variables[p]]
  /\ pc' = [pc EXCEPT ![p] = "done"]
  /\ UNCHANGED <<task, args, child, pipe, sent, variables, web, stop, result>>

VisitWeb ==
  /\ Running /\ stop = ""
  /\ \/ /\ command = "up" /\ web = "none"
        /\ \A p \in dependsOn : pc[p] = "done"
        /\ web' = "created"
     \/ command = "down" /\ web = "created" /\ web' = "removed"
  /\ UNCHANGED <<task, args, pc, child, pipe, sent, variables, environment, stop, result>>

(* The user, or a signal.                                                  *)
Interrupt ==
  /\ Running /\ stop = ""
  /\ stop' = "interrupted"
  /\ UNCHANGED <<task, args, pc, child, pipe, sent, variables, environment, web, result>>

Finish ==
  /\ Running
  /\ \/ /\ stop # ""
        /\ \A p \in Provided : pc[p] \in {"idle", "failed", "done"}
        /\ result' = "err"
     \/ /\ stop = ""
        /\ \A p \in Provided : pc[p] = "done"
        /\ web = IF command = "up" THEN "created" ELSE "removed"
        /\ result' = "nil"
  /\ UNCHANGED <<task, args, pc, child, pipe, sent, variables, environment, web, stop>>

Next ==
  \/ Given \/ VisitWeb \/ Interrupt \/ Finish \/ Throw
  \/ \E p \in Provided :
       Visit(p) \/ Exit(p) \/ Killed(p) \/ Read(p) \/ Wait(p) \/ Lock(p) \/ Write(p)
         \/ \E m \in {"info", "setenv", "error"} : Say(p, m)

Spec == Init /\ [][Next]_vars

----------------------------------------------------------------------------
(* Variables keep their types.                                             *)
TypeOK ==
  /\ pc \in [Provided -> {"idle", "reading", "ended", "writing", "done", "failed"}]
  /\ child \in [Provided -> {NoChild, "running", "succeeded", "failed", "reaped"}]
  /\ \A p \in Provided : variables[p] + Len(pipe[p]) <= sent[p] /\ environment[p] <= variables[p]
  /\ args \subseteq Options /\ result \in {"none", "nil", "err", "fatal"}

(* When up creates web, all it depends on has succeeded, and web has the   *)
(* variables they have set, and no others.                                 *)
VariablesArrive ==
  command = "up" /\ web = "created" =>
    \A p \in Provided :
      environment[p] = IF p \in dependsOn THEN variables[p] ELSE 0
DependenciesDone ==
  command = "up" /\ web = "created" =>
    \A p \in dependsOn : pc[p] = "done" /\ child[p] = "reaped"

(* A resource a container depends on is not released before it is gone.    *)
ReleasedLast ==
  command = "down" /\ web = "created" => \A p \in dependsOn : child[p] = NoChild

(* No command outlives the one that ran it, but one that has reported an   *)
(* error: it is left alone, and by down not even killed.                   *)
Outlives(p) == result \in {"nil", "err"} /\ child[p] \notin {NoChild, "reaped"}
OnlyReportersAreLeft == \A p \in Provided : Outlives(p) => pc[p] = "failed" /\ sent[p] > 0
SuccessIsClean == result = "nil" => \A p \in Provided : child[p] = "reaped"

(* Required options are passed, and none the command does not know.        *)
OptionsArePassed ==
  child["db"] # NoChild /\ ~NoneKnown =>
    metadata.required \subseteq args /\ args \subseteq metadata.known

(* A crash takes a service with a dependent, and another one visited late. *)
OnlyRacesCrash ==
  result = "fatal" => \E p \in Provided : pc[p] = "writing" /\ p \in dependsOn

ProvidersAreRight ==
  /\ TypeOK /\ VariablesArrive /\ DependenciesDone /\ ReleasedLast
  /\ OnlyReportersAreLeft /\ SuccessIsClean /\ OptionsArePassed /\ OnlyRacesCrash
=============================================================================
