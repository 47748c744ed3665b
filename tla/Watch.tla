------------------------------- MODULE Watch -------------------------------
(***************************************************************************)
(* watch (pkg/compose/watch.go) over the files of one service: what is     *)
(* saved on the host is noticed by the notifier (pkg/watch/                *)
(* watcher_naive.go), gathered by the debouncer (pkg/watch/debounce.go)    *)
(* and handled batch by batch: the service is built again, the files are   *)
(* copied into its container (internal/sync/tar.go), the container is      *)
(* restarted and its hooks run, as the rules that match the files say.     *)
(*                                                                         *)
(* Four goroutines pass the changes on over channels without room: the     *)
(* notifier's, the debouncer's, the one of watchEvents, and the caller,    *)
(* who may cancel at any time.  The user saves files all the while.        *)
(***************************************************************************)
EXTENDS Naturals, FiniteSets

CONSTANTS Files,       \* Files of the host that some rule matches
          RuleChoices, \* Functions from Files to the actions of the rules that match
          MaxEdits,    \* Bound: files saved or deleted
          MaxFailures  \* Bound: calls of the engine that fail

Actions == {"rebuild", "sync", "restart", "exec"}

(* "sync+restart" and "sync+exec" are two of these; exec does not come     *)
(* without sync.                                                           *)
RuleSets == {A \in SUBSET Actions : A # {} /\ ("exec" \in A => "sync" \in A)}

ASSUME BoundsAssumption == MaxEdits \in Nat /\ MaxFailures \in Nat
ASSUME RulesAssumption == RuleChoices \subseteq [Files -> RuleSets]

VARIABLES
  rules,      \* Actions of the rules that match a file
  initial,    \* The rules with sync have initial_sync
  host,       \* Versions of the files on the host, 0 for a file that is not there
  edits,      \* Files saved or deleted so far
  image,      \* Versions in the image, as of its last build
  content,    \* Versions in the container
  taken,      \* Versions the container's process, or its hooks, have last taken up
  running,    \* The container runs
  notified,   \* Files with an event in the queue of fsnotify
  held,       \* Files with an event the notifier's loop is about to pass on: one or none
  debouncer,  \* "select", "send" or "closed"
  seen,       \* The debouncer's set
  watcher,    \* Where watch, then the goroutine of watchEvents, is
  batch,      \* The batch that is handled
  toDelete,   \* What the sync found missing on the host
  cancelled,  \* The context is cancelled
  changed,    \* Files saved or deleted since the notifier listens
  dropped,    \* Files of batches that failed, and that have been in no batch since
  failures    \* Calls failed so far

engine == <<image, content, taken, running>>
user   == <<host, edits, changed>>
config == <<rules, initial>>
notify == <<notified, held, debouncer, seen>>
vars   == <<config, user, engine, notify, watcher, batch, toDelete, cancelled, dropped, failures>>

With(action, S) == {f \in S : action \in rules[f]}

Init ==
  /\ rules \in RuleChoices
  /\ initial \in BOOLEAN
  /\ host = [f \in Files |-> 1]
  /\ \E version \in {0, 1} : image = [f \in Files |-> version]
  /\ content = image
  /\ taken = image
  /\ running = TRUE
  /\ edits = 0
  /\ notified = {} /\ held = {} /\ debouncer = "select" /\ seen = {}
  /\ watcher = "initial sync"
  /\ batch = {} /\ toDelete = {}
  /\ cancelled = FALSE
  /\ changed = {} /\ dropped = {}
  /\ failures = 0

Listening == watcher \notin {"initial sync", "start", "failed"}

----------------------------------------------------------------------------
(* The user.  fsnotify has an event once the notifier has been started.    *)

Edit(f) ==
  /\ edits < MaxEdits
  /\ edits' = edits + 1
  /\ \E version \in {0, edits + 2} :
       /\ version # host[f]
       /\ host' = [host EXCEPT ![f] = version]
  /\ IF Listening
     THEN notified' = notified \cup {f} /\ changed' = changed \cup {f}
     ELSE UNCHANGED <<notified, changed>>
  /\ UNCHANGED <<config, engine, held, debouncer, seen, watcher, batch, toDelete, cancelled, dropped, failures>>

Cancel ==
  /\ ~cancelled
  /\ cancelled' = TRUE
  /\ UNCHANGED <<config, user, engine, notify, watcher, batch, toDelete, dropped, failures>>

----------------------------------------------------------------------------
(* watch: initial files, then the notifier and the goroutine.              *)

Copied(S) == [f \in Files |-> IF f \in S /\ host[f] # 0 THEN host[f] ELSE content[f]]

(* initialSyncFiles: what is newer than the image.  isSync does not know   *)
(* sync+exec, so of the files with such a rule only those that another one *)
(* with sync matches, too.                                                 *)
InitialSync ==
  /\ watcher = "initial sync"
  /\ \E also \in SUBSET With("exec", Files) :
       LET synced == (With("sync", Files) \ With("exec", Files)) \cup also
       IN  content' = IF initial THEN Copied({f \in synced : host[f] > image[f]}) ELSE content
  /\ watcher' = "start"
  /\ UNCHANGED <<config, user, image, taken, running, notify, batch, toDelete, cancelled, dropped, failures>>

StartWatching ==
  /\ watcher = "start"
  /\ watcher' = "select"
  /\ UNCHANGED <<config, user, engine, notify, batch, toDelete, cancelled, dropped, failures>>

----------------------------------------------------------------------------
(* The notifier and the debouncer.                                         *)

Rest == UNCHANGED <<config, user, engine, toDelete, cancelled, dropped, failures>>

(* The loop takes an event of fsnotify, until watchEvents has returned and *)
(* closed it, and blocks until the debouncer has taken it over.            *)
Notice(f) ==
  /\ f \in notified
  /\ held = {}
  /\ watcher # "returned"
  /\ notified' = notified \ {f}
  /\ held' = {f}
  /\ UNCHANGED <<debouncer, seen, watcher, batch>>
  /\ Rest

(* Mutant: the new event takes the place of those gathered before.        *)
BugGather ==
  /\ debouncer = "select"
  /\ held # {}
  /\ seen' = held
  /\ held' = {}
  /\ UNCHANGED <<notified, debouncer, watcher, batch>>
  /\ Rest

Gather ==
  /\ debouncer = "select"
  /\ held # {}
  /\ seen' = seen \cup held
  /\ held' = {}
  /\ UNCHANGED <<notified, debouncer, watcher, batch>>
  /\ Rest

(* The ticker fires, after half a second without events.                   *)
Tick ==
  /\ debouncer = "select"
  /\ seen # {}
  /\ debouncer' = "send"
  /\ UNCHANGED <<notified, held, seen, watcher, batch>>
  /\ Rest

(* The send of the batch: both sides are there.  While watchEvents handles *)
(* a batch the debouncer takes no events.                                  *)
TakeBatch ==
  /\ debouncer = "send"
  /\ watcher = "select"
  /\ batch' = seen
  /\ seen' = {}
  /\ debouncer' = "select"
  /\ watcher' = "rebuild"
  /\ UNCHANGED <<notified, held>>
  /\ Rest

DebouncerStops ==
  /\ debouncer = "select"
  /\ cancelled
  /\ debouncer' = "closed"
  /\ UNCHANGED <<notified, held, seen, watcher, batch>>
  /\ Rest

(* Mutant: the context is looked at when a batch comes.                    *)
BugWatcherReturns ==
  /\ watcher = "select"
  /\ debouncer = "send"
  /\ cancelled
  /\ watcher' = "returned"
  /\ UNCHANGED <<notify, batch>>
  /\ Rest

(* ctx.Done, or the debouncer has closed its channel.                      *)
WatcherReturns ==
  /\ watcher = "select"
  /\ cancelled
  /\ watcher' = "returned"
  /\ UNCHANGED <<notify, batch>>
  /\ Rest

----------------------------------------------------------------------------
(* handleWatchBatch.                                                       *)

Handling == UNCHANGED <<config, user, notify, cancelled>>

(* The rest of the batch is left out; a cancelled watch ends here.         *)
BatchFails ==
  /\ watcher' = IF cancelled THEN "returned" ELSE "select"
  /\ dropped' = dropped \cup batch
  /\ batch' = {}
  /\ toDelete' = {}
  /\ Handling

(* Calls fail by themselves, or because the context is cancelled.          *)
Failure ==
  \/ failures < MaxFailures /\ failures' = failures + 1
  \/ cancelled /\ UNCHANGED failures

CallFails ==
  /\ \/ watcher \in {"create", "copy"}
     \/ watcher \in Actions /\ With(watcher, batch) # {}
  /\ Failure
  /\ BatchFails
  /\ UNCHANGED engine

InitialSyncFails ==
  /\ watcher = "initial sync"
  /\ initial
  /\ Failure
  /\ watcher' = "failed"
  /\ UNCHANGED <<config, user, engine, notify, batch, toDelete, cancelled, dropped>>

Goes(next) ==
  /\ watcher' = next
  /\ UNCHANGED <<batch, dropped, failures>>
  /\ Handling

(* rebuild: a build of what is on the host now, for a rule that asks so.   *)
Build ==
  /\ watcher = "rebuild"
  /\ IF With("rebuild", batch) = {}
     THEN Goes("sync") /\ UNCHANGED image
     ELSE Goes("create") /\ image' = host
  /\ UNCHANGED <<content, taken, running, toDelete>>

(* Without the files that were copied into the container before.           *)
Recreate ==
  /\ watcher = "create"
  /\ content' = image
  /\ running' = FALSE
  /\ Goes("start container")
  /\ UNCHANGED <<image, taken, toDelete>>

(* A start that fails is logged, and the batch goes on.                    *)
StartAgain ==
  /\ watcher = "start container"
  /\ watcher' = "sync"
  /\ \/ /\ running' = TRUE
        /\ taken' = content
        /\ UNCHANGED failures
     \/ Failure /\ UNCHANGED <<running, taken>>
  /\ UNCHANGED <<batch, dropped, toDelete, image, content>>
  /\ Handling

(* Mutant: a file that is gone is left to the copy.                        *)
BugSyncStat ==
  /\ watcher = "sync"
  /\ IF With("sync", batch) = {} THEN Goes("restart") ELSE Goes("delete")
  /\ UNCHANGED <<engine, toDelete>>

(* Tar.Sync looks at every file once to tell deletions from copies.        *)
SyncStat ==
  /\ watcher = "sync"
  /\ IF With("sync", batch) = {}
     THEN Goes("restart") /\ UNCHANGED toDelete
     ELSE Goes("delete") /\ toDelete' = {f \in With("sync", batch) : host[f] = 0}
  /\ UNCHANGED engine

(* rm is run in the container; its failure does not keep Sync from copying *)
(* but is the batch's in the end.                                          *)
SyncDelete ==
  /\ watcher = "delete"
  /\ \/ /\ toDelete = {} \/ running
        /\ Goes("copy")
        /\ content' = [f \in Files |-> IF f \in toDelete THEN 0 ELSE content[f]]
     \/ /\ toDelete # {} /\ ~running
        /\ Goes("copy and fail")
        /\ UNCHANGED content
  /\ UNCHANGED <<image, taken, running, toDelete>>

DeleteFails ==
  /\ watcher = "delete"
  /\ toDelete # {} /\ running
  /\ Failure
  /\ watcher' = "copy and fail"
  /\ UNCHANGED <<batch, dropped, engine, toDelete>>
  /\ Handling

(* Mutant: the copy ends the batch.                                        *)
BugSyncCopyEnds ==
  /\ watcher \in {"copy", "copy and fail"}
  /\ content' = Copied(With("sync", batch) \ toDelete)
  /\ toDelete' = {}
  /\ Goes("exec")
  /\ UNCHANGED <<image, taken, running>>

(* The archive is written from the files as they are by now, without those *)
(* that have gone meanwhile.                                               *)
SyncCopy ==
  /\ watcher \in {"copy", "copy and fail"}
  /\ content' = Copied(With("sync", batch) \ toDelete)
  /\ IF watcher = "copy"
     THEN Goes("restart") /\ toDelete' = {}
     ELSE BatchFails /\ UNCHANGED failures
  /\ UNCHANGED <<image, taken, running>>

RestartContainer ==
  /\ watcher = "restart"
  /\ IF With("restart", batch) = {}
     THEN UNCHANGED <<taken, running>>
     ELSE taken' = content /\ running' = TRUE
  /\ Goes("exec")
  /\ UNCHANGED <<image, content, toDelete>>

(* In the containers that run.                                             *)
ExecHooks ==
  /\ watcher = "exec"
  /\ taken' = IF With("exec", batch) # {} /\ running THEN content ELSE taken
  /\ watcher' = "select"
  /\ dropped' = dropped \ batch
  /\ batch' = {}
  /\ UNCHANGED <<image, content, running, toDelete, failures>>
  /\ Handling

HandleBatch ==
  \/ Build \/ Recreate \/ StartAgain \/ SyncStat \/ SyncDelete \/ SyncCopy
  \/ RestartContainer \/ ExecHooks

Next ==
  \/ \E f \in Files : Edit(f) \/ Notice(f)
  \/ Cancel \/ InitialSync \/ StartWatching
  \/ Gather \/ Tick \/ TakeBatch \/ DebouncerStops \/ WatcherReturns
  \/ HandleBatch \/ DeleteFails \/ CallFails \/ InitialSyncFails

(* Goroutines run, the ticker fires, and calls to the engine return.       *)
Fairness ==
  /\ WF_vars(InitialSync) /\ WF_vars(StartWatching)
  /\ WF_vars(\E f \in Files : Notice(f)) /\ WF_vars(Gather) /\ WF_vars(Tick)
  /\ WF_vars(TakeBatch) /\ WF_vars(DebouncerStops) /\ WF_vars(WatcherReturns)
  /\ WF_vars(HandleBatch)

Spec == Init /\ [][Next]_vars /\ Fairness

----------------------------------------------------------------------------
Versions == 0..(MaxEdits + 2)

(* Variables keep their types.                                             *)
TypeOK ==
  /\ rules \in [Files -> RuleSets]
  /\ host \in [Files -> Versions] /\ image \in [Files -> Versions]
  /\ content \in [Files -> Versions] /\ taken \in [Files -> Versions]
  /\ notified \subseteq Files /\ held \subseteq Files /\ seen \subseteq Files
  /\ batch \subseteq Files /\ toDelete \subseteq batch /\ dropped \subseteq Files
  /\ debouncer \in {"select", "send", "closed"}

Quiet == watcher = "select" /\ notified = {} /\ held = {} /\ seen = {} /\ ~cancelled

(* Once all is quiet every file that was saved or deleted under watch, and *)
(* is not in a batch that failed, is in the container as it is on the      *)
(* host, whatever else of the service was built, copied or saved meanwhile.*)
ContentArrives ==
  Quiet => \A f \in (changed \ dropped) : {"sync", "rebuild"} \cap rules[f] # {} => content[f] = host[f]

(* And what was to be taken up by a new container, a restart or a hook has *)
(* been, in the version that is in the container.                          *)
ContentTakenUp ==
  Quiet /\ running => \A f \in (changed \ dropped) :
    {"rebuild", "restart", "exec"} \cap rules[f] # {} => taken[f] = content[f]

(* Variables keep their types, and once everything is quiet containers     *)
(* have the files as they are on the host, and what needs a restart, a     *)
(* rebuild or a hook to take them up has done so.                          *)
ContainerFollows == TypeOK /\ ContentArrives /\ ContentTakenUp

(* Every change gets into a batch, unless the watch is cancelled.          *)
ChangesAreHandled ==
  \A f \in Files : (f \in notified) ~> (cancelled \/ f \in batch)

(* A cancelled watch comes to its end, wherever it was.                    *)
WatchEnds == cancelled ~> watcher \in {"returned", "failed"}
=============================================================================
