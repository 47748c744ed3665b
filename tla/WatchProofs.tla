----------------------------- MODULE WatchProofs -----------------------------
(***************************************************************************)
(* Proofs about what runs beside the containers of an up: watch (Watch),   *)
(* for every set of files and rules, any number of edits and of calls that *)
(* fail; the terminal (Terminal), for every set of resources and any       *)
(* number of presses; and raw processes (RawProcess), for any number of    *)
(* processes, of callers and of calls.                                     *)
(***************************************************************************)
EXTENDS MCWatch, RawProcess, TLAPS

Outside  == {"initial sync", "start", "failed"}
Idle     == Outside \cup {"select", "returned"}
Syncing  == {"delete", "copy", "copy and fail"}
AfterStart   == {"sync", "restart", "exec"} \cup Syncing
AfterRebuild == {"start container"} \cup AfterStart

Typed ==
  /\ TypeOK
  /\ edits \in 0..MaxEdits
  /\ changed \subseteq Files
  /\ running \in BOOLEAN
  /\ watcher \in Idle \cup {"rebuild", "create"} \cup AfterRebuild
  /\ watcher \in Outside => changed = {}
  /\ watcher \in Idle => batch = {}
  /\ watcher \notin Syncing => toDelete = {}

----------------------------------------------------------------------------
(* A file that was saved is on its way to a batch, in the batch that is    *)
(* handled, or settled.  What the steps of the batch may rely on is that a *)
(* file was saved again, and then is on its way, or is on the host as it   *)
(* was when the step before looked.                                        *)

Waiting == notified \cup held \cup seen
Due     == changed \ (dropped \cup batch)

Current(version, f) == f \in Waiting \/ version[f] = host[f]
TakenUp(f)          == f \in Waiting \/ ~running \/ taken[f] = content[f]

Copies(f) == {"sync", "rebuild"} \cap rules[f] # {}
Takes(f)  == {"rebuild", "restart", "exec"} \cap rules[f] # {}

Settled   == \A f \in Due : Copies(f) => Current(content, f)
Built     == watcher = "create" => \A f \in Files : Current(image, f)
Rebuilt   == watcher \in AfterRebuild => \A f \in With("rebuild", batch) : Current(content, f)
ToldApart ==
  watcher \in Syncing =>
    /\ toDelete \subseteq With("sync", batch)
    /\ \A f \in With("sync", batch) : f \in Waiting \/ (f \in toDelete <=> host[f] = 0)
Deleted   == watcher = "copy" => \A f \in toDelete : Current(content, f)
Synced    == watcher \in {"restart", "exec"} => \A f \in With("sync", batch) : Current(content, f)

ContentInv == Settled /\ Built /\ Rebuilt /\ ToldApart /\ Deleted /\ Synced

SettledTaken   == \A f \in Due : Takes(f) => TakenUp(f)
Stopped        == watcher = "start container" => ~running
RebuiltTaken   == watcher \in AfterStart => \A f \in With("rebuild", batch) : TakenUp(f)
RestartedTaken == watcher = "exec" => \A f \in With("restart", batch) : TakenUp(f)

TakenInv == SettledTaken /\ Stopped /\ RebuiltTaken /\ RestartedTaken

Inv == Typed /\ ContentInv /\ TakenInv

----------------------------------------------------------------------------
(* Steps outside a batch: the user, the notifier, the debouncer.           *)

LEMMA RulesKept ==
  ASSUME UNCHANGED rules
  PROVE  \A f, action, S : /\ With(action, S)' = With(action, S')
                           /\ (Copies(f)' <=> Copies(f)) /\ (Takes(f)' <=> Takes(f))
BY DEF With, Copies, Takes

(* A file that is not on its way afterwards was not before, and has not    *)
(* been saved.                                                             *)
LEMMA OnTheWay ==
  ASSUME Inv, Typed', UNCHANGED <<rules, engine, watcher, batch, toDelete, dropped>>,
         Waiting \subseteq Waiting', changed' \subseteq changed \cup Waiting',
         \A f \in Files : f \in Waiting' \/ host'[f] = host[f]
  PROVE  Inv'
<1>1. UNCHANGED <<rules, image, content, taken, running, watcher, batch, toDelete, dropped>>
  BY DEF engine
<1>2. batch \subseteq Files /\ toDelete \subseteq Files /\ changed' \subseteq Files
  BY DEF Inv, Typed, TypeOK
<1>3. \A f \in Files : /\ Current(content, f) => Current(content, f)'
                       /\ Current(image, f) => Current(image, f)'
                       /\ TakenUp(f) => TakenUp(f)'
  BY <1>1 DEF Current, TakenUp
<1>4. \A f \in Due' : f \in Due \/ f \in Waiting'
  BY <1>1 DEF Due
<1>5. Settled' /\ SettledTaken'
  <2> SUFFICES ASSUME NEW f \in Due'
               PROVE  (Copies(f) => Current(content, f)') /\ (Takes(f) => TakenUp(f)')
    BY <1>1, RulesKept DEF Settled, SettledTaken
  <2>1. f \in Files  BY <1>2 DEF Due
  <2>2. CASE f \in Due
    BY <1>3, <2>1, <2>2 DEF Inv, ContentInv, Settled, TakenInv, SettledTaken
  <2>3. CASE f \in Waiting'
    BY <2>3 DEF Current, TakenUp
  <2> QED  BY <1>4, <2>2, <2>3
<1>6. \A action : With(action, batch)' = With(action, batch) /\ With(action, batch) \subseteq Files
  BY <1>1, <1>2 DEF With
<1>7. Built' /\ Rebuilt' /\ Deleted' /\ Synced'
  BY <1>1, <1>2, <1>3, <1>6 DEF Inv, ContentInv, Built, Rebuilt, Deleted, Synced
<1>8. ToldApart'
  BY <1>1, <1>2, <1>6 DEF Inv, ContentInv, ToldApart
<1>9. Stopped' /\ RebuiltTaken' /\ RestartedTaken'
  BY <1>1, <1>3, <1>6 DEF Inv, TakenInv, Stopped, RebuiltTaken, RestartedTaken
<1> QED  BY <1>5, <1>7, <1>8, <1>9 DEF Inv, ContentInv, TakenInv

(* Before the notifier listens nothing is due.                             *)
LEMMA NothingYet ==
  ASSUME Typed', watcher' \in Idle, changed' = {}
  PROVE  Inv'
<1>1. batch' = {} /\ Due' = {}  BY DEF Typed, Due
<1>2. watcher' \notin {"create"} \cup AfterRebuild
  BY DEF Idle, Outside, AfterRebuild, AfterStart, Syncing
<1>3. ContentInv'
  BY <1>1, <1>2 DEF ContentInv, Settled, Built, Rebuilt, ToldApart, Deleted, Synced, AfterRebuild, AfterStart, Syncing
<1>4. TakenInv'
  BY <1>1, <1>2 DEF TakenInv, SettledTaken, Stopped, RebuiltTaken, RestartedTaken, AfterRebuild, AfterStart
<1> QED  BY <1>3, <1>4 DEF Inv

LEMMA InitInv ==
  ASSUME Init
  PROVE  Inv
<1>1. 0 \in Versions /\ 1 \in Versions
  BY BoundsAssumption DEF Versions
<1>2. Typed
  <2>1. rules \in [Files -> RuleSets] /\ host \in [Files -> Versions] /\ image \in [Files -> Versions]
    BY <1>1, RulesAssumption DEF Init
  <2>2. content = image /\ taken = image
    BY DEF Init
  <2>3. 0 \in 0..MaxEdits
    BY BoundsAssumption
  <2> QED  BY <2>1, <2>2, <2>3 DEF Init, Typed, TypeOK, Idle, Outside
<1>3. changed = {} /\ batch = {} /\ watcher = "initial sync"
  BY DEF Init
<1>4. ContentInv /\ TakenInv
  BY <1>3 DEF ContentInv, Settled, Built, Rebuilt, ToldApart, Deleted, Synced, Due, AfterRebuild, AfterStart, Syncing,
              TakenInv, SettledTaken, Stopped, RebuiltTaken, RestartedTaken
<1> QED  BY <1>2, <1>4 DEF Inv

LEMMA EditStep ==
  ASSUME Inv, NEW f \in Files, Edit(f)
  PROVE  Inv'
<1>1. PICK version \in {0, edits + 2} : host' = [host EXCEPT ![f] = version]
  BY DEF Edit
<1>2. /\ edits < MaxEdits /\ edits' = edits + 1
      /\ UNCHANGED <<config, engine, held, debouncer, seen, watcher, batch, toDelete, cancelled, dropped, failures>>
      /\ IF Listening THEN notified' = notified \cup {f} /\ changed' = changed \cup {f}
                      ELSE UNCHANGED <<notified, changed>>
  BY DEF Edit
<1>3. host \in [Files -> Versions] /\ edits \in Nat
  BY BoundsAssumption DEF Inv, Typed, TypeOK
<1>4. host' \in [Files -> Versions] /\ edits' \in 0..MaxEdits
  <2>1. version \in Versions /\ edits' \in 0..MaxEdits
    BY <1>2, <1>3, BoundsAssumption DEF Versions
  <2> QED  BY <1>1, <1>3, <2>1
<1>5. Typed'
  BY <1>2, <1>4 DEF Inv, Typed, TypeOK, config, engine, Listening, Outside
<1>6. CASE Listening
  <2>1. /\ Waiting' = Waiting \cup {f}
        /\ \A g \in Files : g = f \/ host'[g] = host[g]
    BY <1>1, <1>2, <1>3, <1>6 DEF Waiting
  <2> QED  BY <1>2, <1>5, <1>6, <2>1, OnTheWay DEF config
<1>7. CASE ~Listening
  <2>1. watcher' \in Idle /\ changed' = {}
    BY <1>2, <1>7 DEF Listening, Idle, Outside, Inv, Typed
  <2> QED  BY <1>5, <2>1, NothingYet
<1> QED  BY <1>6, <1>7

LEMMA WayStep ==
  ASSUME Inv, (\E f \in Files : Notice(f)) \/ Gather \/ Tick \/ DebouncerStops \/ Cancel \/ UNCHANGED vars
  PROVE  Inv'
<1>1. UNCHANGED <<config, user, engine, watcher, batch, toDelete, dropped>>
  BY DEF Notice, Gather, Tick, DebouncerStops, Cancel, vars, Rest
<1>2. Waiting' = Waiting /\ notified' \subseteq Files /\ held' \subseteq Files /\ seen' \subseteq Files
  <2>1. CASE \E f \in Files : Notice(f)
    BY <2>1 DEF Notice, Waiting, Inv, Typed, TypeOK
  <2>2. CASE Gather
    BY <2>2 DEF Gather, Waiting, Inv, Typed, TypeOK
  <2>3. CASE Tick \/ DebouncerStops \/ Cancel \/ UNCHANGED vars
    BY <2>3 DEF Tick, DebouncerStops, Cancel, vars, notify, Waiting, Inv, Typed, TypeOK
  <2> QED  BY <2>1, <2>2, <2>3
<1>3. debouncer' \in {"select", "send", "closed"}
  BY DEF Notice, Gather, Tick, DebouncerStops, Cancel, vars, notify, Inv, Typed, TypeOK
<1>4. Typed'
  BY <1>1, <1>2, <1>3 DEF Inv, Typed, TypeOK, config, user, engine
<1> QED  BY <1>1, <1>2, <1>4, OnTheWay DEF config, user

LEMMA StartStep ==
  ASSUME Inv, InitialSync \/ InitialSyncFails \/ StartWatching
  PROVE  Inv'
<1>1. /\ UNCHANGED <<config, user, notify, image, taken, running, batch, toDelete, dropped>>
      /\ watcher \in Outside /\ watcher' \in {"start", "failed", "select"}
  BY DEF InitialSync, InitialSyncFails, StartWatching, engine, Outside
<1>2. content' \in [Files -> Versions]
  <2>1. \A S : Copied(S) \in [Files -> Versions]
    BY DEF Copied, Inv, Typed, TypeOK
  <2> QED  BY ZenonT(60), <2>1 DEF InitialSync, InitialSyncFails, StartWatching, engine, Inv, Typed, TypeOK
<1>3. Typed' /\ changed' = {}
  BY <1>1, <1>2 DEF Inv, Typed, TypeOK, config, user, notify, Idle, Outside
<1> QED  BY <1>1, <1>3, NothingYet DEF Idle, Outside

LEMMA TakeStep ==
  ASSUME Inv, TakeBatch
  PROVE  Inv'
<1>1. /\ UNCHANGED <<config, user, engine, toDelete, dropped, notified, held>>
      /\ watcher = "select" /\ batch = {} /\ watcher' = "rebuild" /\ batch' = seen /\ seen' = {}
      /\ debouncer' = "select"
  BY DEF TakeBatch, Rest, Inv, Typed, Idle
<1>2. Typed'
  BY <1>1 DEF Inv, Typed, TypeOK, config, user, engine, Idle, Outside
<1>3. \A f \in Due' : f \in Due /\ (f \in Waiting => f \in Waiting')
  BY <1>1 DEF Due, Waiting, user
<1>4. Settled' /\ SettledTaken'
  <2>1. \A f \in Due' : /\ Current(content, f) => Current(content, f)'
                        /\ TakenUp(f) => TakenUp(f)'
    BY <1>1, <1>3 DEF Current, TakenUp, user, engine
  <2> QED  BY <1>1, <1>3, <2>1, RulesKept DEF Inv, ContentInv, TakenInv, Settled, SettledTaken, config
<1>5. Built' /\ Rebuilt' /\ ToldApart' /\ Deleted' /\ Synced' /\ Stopped' /\ RebuiltTaken' /\ RestartedTaken'
  BY <1>1 DEF Built, Rebuilt, ToldApart, Deleted, Synced, Stopped, RebuiltTaken, RestartedTaken,
              AfterRebuild, AfterStart, Syncing
<1> QED  BY <1>2, <1>4, <1>5 DEF Inv, ContentInv, TakenInv

LEMMA WatcherReturnsStep ==
  ASSUME Inv, WatcherReturns
  PROVE  Inv'
<1>1. /\ UNCHANGED <<config, user, engine, toDelete, dropped, notify, batch>>
      /\ watcher = "select" /\ watcher' = "returned"
  BY DEF WatcherReturns, Rest
<1>2. Typed'
  BY <1>1 DEF Inv, Typed, TypeOK, config, user, engine, notify, Idle, Outside
<1>3. Settled' /\ SettledTaken'
  BY <1>1, RulesKept DEF Inv, ContentInv, TakenInv, Settled, SettledTaken, Due, Current, TakenUp, Waiting,
                         config, user, engine, notify
<1>4. Built' /\ Rebuilt' /\ ToldApart' /\ Deleted' /\ Synced' /\ Stopped' /\ RebuiltTaken' /\ RestartedTaken'
  BY <1>1 DEF Built, Rebuilt, ToldApart, Deleted, Synced, Stopped, RebuiltTaken, RestartedTaken,
              AfterRebuild, AfterStart, Syncing
<1> QED  BY <1>2, <1>3, <1>4 DEF Inv, ContentInv, TakenInv

----------------------------------------------------------------------------
(* The steps of a batch.                                                   *)

(* What the batch is about stays, and where nothing happens to a file that *)
(* is due it stays settled.                                                *)
LEMMA Handled ==
  ASSUME Inv, Handling
  PROVE  /\ UNCHANGED <<rules, host, changed, cancelled, notified, held, seen, debouncer, edits>>
         /\ Waiting' = Waiting
         /\ \A f : (Copies(f)' <=> Copies(f)) /\ (Takes(f)' <=> Takes(f))
         /\ \A action : With(action, batch)' = With(action, batch')
         /\ \A action : With(action, batch) \subseteq Files
<1>1. UNCHANGED <<rules, host, changed, cancelled, notified, held, seen, debouncer, edits>>
  BY DEF Handling, config, user, notify
<1>2. batch \subseteq Files  BY DEF Inv, Typed, TypeOK
<1> QED  BY <1>1, <1>2, RulesKept DEF Waiting, With

LEMMA HandledTypes ==
  ASSUME Inv, Handling,
         image' \in [Files -> Versions], content' \in [Files -> Versions], taken' \in [Files -> Versions],
         running' \in BOOLEAN, batch' \subseteq Files, toDelete' \subseteq batch', dropped' \subseteq Files,
         watcher' \in {"select", "returned", "create"} \cup AfterRebuild, watcher' \in Idle => batch' = {},
         watcher' \notin Syncing => toDelete' = {}
  PROVE  Typed'
<1>1. watcher' \notin Outside
  BY DEF Outside, AfterRebuild, AfterStart, Syncing
<1> QED  BY <1>1, Handled DEF Inv, Typed, TypeOK, Idle

LEMMA Types ==
  ASSUME Inv
  PROVE  /\ image \in [Files -> Versions] /\ content \in [Files -> Versions] /\ taken \in [Files -> Versions]
         /\ host \in [Files -> Versions]
         /\ running \in BOOLEAN /\ batch \subseteq Files /\ toDelete \subseteq batch /\ dropped \subseteq Files
         /\ \A S : Copied(S) \in [Files -> Versions]
         /\ \A S : \A f \in Files :
              Copied(S)[f] = IF f \in S /\ host[f] # 0 THEN host[f] ELSE content[f]
BY DEF Inv, Typed, TypeOK, Copied

LEMMA FailStep ==
  ASSUME Inv, BatchFails, UNCHANGED <<image, taken, running>>, content' \in [Files -> Versions],
         \A f \in Files \ batch : content'[f] = content[f]
  PROVE  Inv'
<1>1. /\ Handling /\ batch' = {} /\ toDelete' = {} /\ dropped' = dropped \cup batch
      /\ watcher' \in {"select", "returned"}
  BY DEF BatchFails
<1>2. Typed'
  BY <1>1, Types, HandledTypes
<1>3. \A f \in Due' : f \in Due /\ f \in Files \ batch
  BY <1>1, Handled DEF Due, Inv, Typed
<1>4. Settled' /\ SettledTaken'
  <2>1. \A f \in Due' : /\ Current(content, f) => Current(content, f)'
                        /\ TakenUp(f) => TakenUp(f)'
    BY <1>1, <1>3, Handled DEF Current, TakenUp
  <2> QED  BY <1>1, <1>3, <2>1, Handled DEF Inv, ContentInv, TakenInv, Settled, SettledTaken
<1>5. Built' /\ Rebuilt' /\ ToldApart' /\ Deleted' /\ Synced' /\ Stopped' /\ RebuiltTaken' /\ RestartedTaken'
  BY <1>1 DEF Built, Rebuilt, ToldApart, Deleted, Synced, Stopped, RebuiltTaken, RestartedTaken,
              AfterRebuild, AfterStart, Syncing
<1> QED  BY <1>2, <1>4, <1>5 DEF Inv, ContentInv, TakenInv

LEMMA CallFailsStep ==
  ASSUME Inv, CallFails
  PROVE  Inv'
BY FailStep, Types DEF CallFails, engine

LEMMA BuildStep ==
  ASSUME Inv, Build
  PROVE  Inv'
<1>1. /\ Handling /\ UNCHANGED <<content, taken, running, toDelete, batch, dropped>>
      /\ watcher = "rebuild"
  BY DEF Build, Goes
<1>2. \/ With("rebuild", batch) = {} /\ watcher' = "sync" /\ image' = image
      \/ watcher' = "create" /\ image' = host
  BY DEF Build, Goes
<1>clean. toDelete = {}
  BY <1>1 DEF Inv, Typed, Syncing
<1>3. Typed'
  BY <1>clean, <1>1, <1>2, Types, HandledTypes DEF AfterRebuild, AfterStart, Syncing, Idle, Outside
<1>4. Settled' /\ SettledTaken'
  BY <1>1, Handled DEF Inv, ContentInv, TakenInv, Settled, SettledTaken, Due, Current, TakenUp
<1>5. Built'
  BY <1>1, <1>2, Handled DEF Built, Current
<1>6. Rebuilt' /\ RebuiltTaken'
  BY <1>1, <1>2, Handled DEF Rebuilt, RebuiltTaken, AfterRebuild, AfterStart, Syncing
<1>7. ToldApart' /\ Deleted' /\ Synced' /\ Stopped' /\ RestartedTaken'
  BY <1>2 DEF ToldApart, Deleted, Synced, Stopped, RestartedTaken, Syncing
<1> QED  BY <1>3, <1>4, <1>5, <1>6, <1>7 DEF Inv, ContentInv, TakenInv

LEMMA RecreateStep ==
  ASSUME Inv, Recreate
  PROVE  Inv'
<1>1. /\ Handling /\ UNCHANGED <<image, taken, toDelete, batch, dropped>>
      /\ watcher = "create" /\ watcher' = "start container" /\ content' = image /\ running' = FALSE
  BY DEF Recreate, Goes
<1>clean. toDelete = {}
  BY <1>1 DEF Inv, Typed, Syncing
<1>2. Typed'
  BY <1>clean, <1>1, Types, HandledTypes DEF AfterRebuild, Syncing, Idle, Outside
<1>3. \A f \in Files : Current(content, f)'
  BY <1>1, Handled DEF Inv, ContentInv, Built, Current
<1>4. Due' \subseteq Files  BY <1>2 DEF Due, Typed
<1>5. Settled' /\ SettledTaken'
  BY <1>1, <1>3, <1>4 DEF Settled, SettledTaken, TakenUp
<1>6. Rebuilt' /\ Stopped'
  BY <1>1, <1>3, Handled DEF Rebuilt, Stopped
<1>7. Built' /\ ToldApart' /\ Deleted' /\ Synced' /\ RebuiltTaken' /\ RestartedTaken'
  BY <1>1 DEF Built, ToldApart, Deleted, Synced, RebuiltTaken, RestartedTaken, AfterStart, Syncing
<1> QED  BY <1>2, <1>5, <1>6, <1>7 DEF Inv, ContentInv, TakenInv

LEMMA StartAgainStep ==
  ASSUME Inv, StartAgain
  PROVE  Inv'
<1>1. /\ Handling /\ UNCHANGED <<image, content, toDelete, batch, dropped>>
      /\ watcher = "start container" /\ watcher' = "sync"
      /\ \/ running' = TRUE /\ taken' = content
         \/ UNCHANGED <<running, taken>>
  BY DEF StartAgain
<1>clean. toDelete = {}
  BY <1>1 DEF Inv, Typed, Syncing
<1>2. Typed'
  BY <1>clean, <1>1, Types, HandledTypes DEF AfterRebuild, AfterStart, Syncing, Idle, Outside
<1>3. \A f : TakenUp(f)'
  BY <1>1 DEF Inv, TakenInv, Stopped, TakenUp
<1>4. Settled'
  BY <1>1, Handled DEF Inv, ContentInv, Settled, Due, Current
<1>5. Rebuilt'
  BY <1>1, Handled DEF Inv, ContentInv, Rebuilt, Current, AfterRebuild
<1>6. SettledTaken' /\ RebuiltTaken'
  BY <1>3 DEF SettledTaken, RebuiltTaken
<1>7. Built' /\ ToldApart' /\ Deleted' /\ Synced' /\ Stopped' /\ RestartedTaken'
  BY <1>1 DEF Built, ToldApart, Deleted, Synced, Stopped, RestartedTaken, Syncing
<1> QED  BY <1>2, <1>4, <1>5, <1>6, <1>7 DEF Inv, ContentInv, TakenInv

LEMMA SyncStatStep ==
  ASSUME Inv, SyncStat
  PROVE  Inv'
<1>1. /\ Handling /\ UNCHANGED <<image, content, taken, running, batch, dropped>>
      /\ watcher = "sync"
  BY DEF SyncStat, Goes, engine
<1>2. \/ With("sync", batch) = {} /\ watcher' = "restart" /\ toDelete' = toDelete
      \/ watcher' = "delete" /\ toDelete' = {f \in With("sync", batch) : host[f] = 0}
  BY DEF SyncStat, Goes
<1>3. With("sync", batch) \subseteq batch  BY DEF With
<1>clean. toDelete = {}
  BY <1>1 DEF Inv, Typed, Syncing
<1>4. Typed'
  BY <1>clean, <1>1, <1>2, <1>3, Types, HandledTypes DEF AfterRebuild, AfterStart, Syncing, Idle, Outside
<1>5. Settled' /\ SettledTaken'
  BY <1>1, Handled DEF Inv, ContentInv, TakenInv, Settled, SettledTaken, Due, Current, TakenUp
<1>6. Rebuilt' /\ RebuiltTaken'
  BY <1>1, Handled DEF Inv, ContentInv, TakenInv, Rebuilt, RebuiltTaken, Current, TakenUp, AfterRebuild, AfterStart
<1>7. ToldApart' /\ Synced'
  BY <1>1, <1>2, Handled DEF ToldApart, Synced, Syncing
<1>8. Built' /\ Deleted' /\ Stopped' /\ RestartedTaken'
  BY <1>2 DEF Built, Deleted, Stopped, RestartedTaken
<1> QED  BY <1>4, <1>5, <1>6, <1>7, <1>8 DEF Inv, ContentInv, TakenInv

(* Deletions and copies leave a file alone that has been built again and   *)
(* is on the host as it was then.                                          *)
LEMMA SyncKeeps ==
  ASSUME Inv, Handling, UNCHANGED <<taken, running, batch, dropped>>, watcher \in Syncing,
         \A f \in Files : \/ content'[f] = content[f]
                          \/ f \in With("sync", batch) /\ (f \in Waiting \/ content'[f] = host[f])
  PROVE  /\ Settled' /\ SettledTaken'
         /\ watcher' \in AfterRebuild => Rebuilt'
         /\ \A f \in With("rebuild", batch) : Current(content, f)' /\ TakenUp(f)'
         /\ \A f \in Files : Current(content, f) => Current(content, f)'
<1>1. With("sync", batch) \subseteq batch  BY DEF With
<1>2. Due' = Due /\ Due \subseteq Files \ batch
  BY Handled DEF Due, Inv, Typed
<1>3. \A f \in Files : Current(content, f) => Current(content, f)'
  BY Handled DEF Current
<1>4. \A f \in Files : Current(content, f) /\ TakenUp(f) => TakenUp(f)'
  BY Handled DEF Current, TakenUp
<1>5. \A f \in Due : content'[f] = content[f]
  BY <1>1, <1>2
<1>6. Settled' /\ SettledTaken'
  <2>1. \A f \in Due : TakenUp(f) => TakenUp(f)'
    BY <1>5, Handled DEF TakenUp
  <2> QED  BY <1>2, <1>3, <2>1, Handled DEF Inv, ContentInv, TakenInv, Settled, SettledTaken
<1>7. watcher \in AfterRebuild /\ watcher \in AfterStart  BY DEF AfterRebuild, AfterStart
<1>8. \A f \in With("rebuild", batch) : Current(content, f)' /\ TakenUp(f)'
  <2> SUFFICES ASSUME NEW f \in With("rebuild", batch)  PROVE Current(content, f)' /\ TakenUp(f)'
    OBVIOUS
  <2>1. f \in Files  BY Handled
  <2>2. Current(content, f) /\ TakenUp(f)
    BY <1>7 DEF Inv, ContentInv, Rebuilt, TakenInv, RebuiltTaken
  <2> QED  BY <1>3, <1>4, <2>1, <2>2
<1>9. Rebuilt'
  BY <1>8, Handled DEF Rebuilt
<1> QED  BY <1>3, <1>6, <1>8, <1>9

LEMMA SyncDeleteStep ==
  ASSUME Inv, SyncDelete \/ DeleteFails
  PROVE  Inv'
<1>1. /\ Handling /\ UNCHANGED <<image, taken, running, toDelete, batch, dropped>>
      /\ watcher = "delete" /\ watcher \in Syncing
  BY DEF SyncDelete, DeleteFails, Goes, Syncing, engine
<1>2. \/ watcher' = "copy and fail" /\ content' = content
      \/ watcher' = "copy" /\ content' = [f \in Files |-> IF f \in toDelete THEN 0 ELSE content[f]]
  BY DEF SyncDelete, DeleteFails, Goes, engine
<1>3. /\ toDelete \subseteq With("sync", batch)
      /\ \A f \in With("sync", batch) : f \in Waiting \/ (f \in toDelete <=> host[f] = 0)
  BY <1>1 DEF Inv, ContentInv, ToldApart
<1>4. 0 \in Versions  BY BoundsAssumption DEF Versions
<1>5. content' \in [Files -> Versions]
  BY <1>2, <1>4, Types
<1>6. Typed'
  BY <1>1, <1>2, <1>5, Types, HandledTypes DEF AfterRebuild, AfterStart, Syncing, Idle, Outside
<1>7. \A f \in Files : \/ content'[f] = content[f]
                       \/ f \in With("sync", batch) /\ (f \in Waiting \/ content'[f] = host[f])
  BY <1>2, <1>3
<1>8. /\ Settled' /\ SettledTaken' /\ Rebuilt'
      /\ \A f \in With("rebuild", batch) : TakenUp(f)'
  BY <1>1, <1>2, <1>7, SyncKeeps DEF AfterRebuild, AfterStart, Syncing
<1>9. ToldApart'
  BY <1>1, <1>3, Handled DEF ToldApart
<1>10. Deleted'
  <2> SUFFICES ASSUME watcher' = "copy", NEW f \in toDelete  PROVE f \in Waiting \/ content'[f] = host[f]
    BY <1>1, Handled DEF Deleted, Current
  <2>1. f \in Files /\ content'[f] = 0  BY <1>2, Types
  <2> QED  BY <1>3, <2>1
<1>11. RebuiltTaken'
  BY <1>1, <1>8, Handled DEF RebuiltTaken
<1>12. Built' /\ Synced' /\ Stopped' /\ RestartedTaken'
  BY <1>2 DEF Built, Synced, Stopped, RestartedTaken
<1> QED  BY <1>6, <1>8, <1>9, <1>10, <1>11, <1>12 DEF Inv, ContentInv, TakenInv

LEMMA SyncCopyStep ==
  ASSUME Inv, SyncCopy
  PROVE  Inv'
<1>1. /\ Handling /\ UNCHANGED <<image, taken, running>>
      /\ watcher \in {"copy", "copy and fail"} /\ watcher \in Syncing
      /\ content' = Copied(With("sync", batch) \ toDelete)
  BY DEF SyncCopy, Goes, BatchFails, Syncing
<1>2. /\ content' \in [Files -> Versions]
      /\ \A f \in Files : content'[f] = IF f \in With("sync", batch) \ toDelete /\ host[f] # 0
                                        THEN host[f] ELSE content[f]
  BY <1>1, Types
<1>3. CASE watcher # "copy"
  <2>1. BatchFails  BY <1>3 DEF SyncCopy
  <2>2. \A f \in Files \ batch : content'[f] = content[f]
    BY <1>2 DEF With
  <2> QED  BY <1>1, <1>2, <2>1, <2>2, FailStep
<1>4. CASE watcher = "copy"
  <2>1. watcher' = "restart" /\ toDelete' = {} /\ UNCHANGED <<batch, dropped>>
    BY <1>4 DEF SyncCopy, Goes
  <2>2. /\ toDelete \subseteq With("sync", batch)
        /\ \A f \in With("sync", batch) : f \in Waiting \/ (f \in toDelete <=> host[f] = 0)
        /\ \A f \in toDelete : Current(content, f)
    BY <1>1, <1>4 DEF Inv, ContentInv, ToldApart, Deleted
  <2>3. Typed'
    BY <1>1, <1>2, <2>1, Types, HandledTypes DEF AfterRebuild, AfterStart, Syncing, Idle, Outside
  <2>4. \A f \in Files : \/ content'[f] = content[f]
                         \/ f \in With("sync", batch) /\ (f \in Waiting \/ content'[f] = host[f])
    BY <1>2
  <2>5. /\ Settled' /\ SettledTaken' /\ Rebuilt'
        /\ \A f \in With("rebuild", batch) : TakenUp(f)'
        /\ \A f \in Files : Current(content, f) => Current(content, f)'
    BY <1>1, <2>1, <2>4, SyncKeeps DEF AfterRebuild, AfterStart
  <2>6. Synced'
    <3> SUFFICES ASSUME NEW f \in With("sync", batch)  PROVE Current(content, f)'
      BY <2>1, Handled, <1>1 DEF Synced
    <3>1. f \in Files  BY <1>1, Handled
    <3>2. CASE f \in toDelete
      BY <2>2, <2>5, <3>1, <3>2
    <3>3. CASE f \notin toDelete /\ host[f] # 0
      BY <1>1, <1>2, <3>1, <3>3, Handled DEF Current
    <3>4. CASE f \notin toDelete /\ host[f] = 0
      BY <1>1, <2>2, <3>4, Handled DEF Current
    <3> QED  BY <3>2, <3>3, <3>4
  <2>7. RebuiltTaken'
    BY <1>1, <2>1, <2>5, Handled DEF RebuiltTaken
  <2>8. Built' /\ ToldApart' /\ Deleted' /\ Stopped' /\ RestartedTaken'
    BY <2>1 DEF Built, ToldApart, Deleted, Stopped, RestartedTaken, Syncing
  <2> QED  BY <2>3, <2>5, <2>6, <2>7, <2>8 DEF Inv, ContentInv, TakenInv
<1> QED  BY <1>3, <1>4

LEMMA RestartStep ==
  ASSUME Inv, RestartContainer
  PROVE  Inv'
<1>1. /\ Handling /\ UNCHANGED <<image, content, toDelete, batch, dropped>>
      /\ watcher = "restart" /\ watcher' = "exec"
      /\ \/ With("restart", batch) = {} /\ UNCHANGED <<taken, running>>
         \/ taken' = content /\ running' = TRUE
  BY DEF RestartContainer, Goes
<1>clean. toDelete = {}
  BY <1>1 DEF Inv, Typed, Syncing
<1>2. Typed'
  BY <1>clean, <1>1, Types, HandledTypes DEF AfterRebuild, AfterStart, Syncing, Idle, Outside
<1>3. \A f : TakenUp(f) => TakenUp(f)'
  BY <1>1, Handled DEF TakenUp
<1>4. Settled' /\ Rebuilt' /\ Synced'
  BY <1>1, Handled DEF Inv, ContentInv, Settled, Rebuilt, Synced, Due, Current, AfterRebuild, AfterStart
<1>5. SettledTaken' /\ RebuiltTaken'
  BY <1>1, <1>3, Handled DEF Inv, TakenInv, SettledTaken, RebuiltTaken, Due, AfterStart
<1>6. RestartedTaken'
  BY <1>1, Handled DEF RestartedTaken, TakenUp
<1>7. Built' /\ ToldApart' /\ Deleted' /\ Stopped'
  BY <1>1 DEF Built, ToldApart, Deleted, Stopped, Syncing
<1> QED  BY <1>2, <1>4, <1>5, <1>6, <1>7 DEF Inv, ContentInv, TakenInv

(* The batch is over: all of it is settled.                                *)
LEMMA ExecStep ==
  ASSUME Inv, ExecHooks
  PROVE  Inv'
<1>1. /\ Handling /\ UNCHANGED <<image, content, running, toDelete>>
      /\ watcher = "exec" /\ watcher' = "select" /\ dropped' = dropped \ batch /\ batch' = {}
      /\ taken' = IF With("exec", batch) # {} /\ running THEN content ELSE taken
  BY DEF ExecHooks
<1>2. toDelete = {}
  BY <1>1 DEF Inv, Typed, Syncing
<1>3. Typed'
  BY <1>1, <1>2, Types, HandledTypes DEF Idle
<1>4. \A f \in Due' : f \in Due \/ f \in batch
  BY <1>1, Handled DEF Due
<1>5. \A f : TakenUp(f) => TakenUp(f)'
  BY <1>1, Handled DEF TakenUp
<1>6. Settled'
  <2> SUFFICES ASSUME NEW f \in Due', Copies(f)  PROVE Current(content, f)'
    BY <1>1, Handled DEF Settled
  <2>1. Current(content, f)
    <3>1. CASE f \in Due
      BY <3>1 DEF Inv, ContentInv, Settled
    <3>2. CASE f \in batch
      <4>1. f \in With("sync", batch) \/ f \in With("rebuild", batch)
        BY <3>2 DEF Copies, With
      <4> QED  BY <1>1, <4>1 DEF Inv, ContentInv, Synced, Rebuilt, AfterRebuild, AfterStart
    <3> QED  BY <1>4, <3>1, <3>2
  <2> QED  BY <1>1, <2>1, Handled DEF Current
<1>7. SettledTaken'
  <2> SUFFICES ASSUME NEW f \in Due', Takes(f)  PROVE TakenUp(f)'
    BY <1>1, Handled DEF SettledTaken
  <2>1. CASE f \in Due
    BY <1>5, <2>1 DEF Inv, TakenInv, SettledTaken
  <2>2. CASE f \in batch /\ "exec" \in rules[f]
    BY <1>1, <2>2, Handled DEF With, TakenUp
  <2>3. CASE f \in batch /\ "exec" \notin rules[f]
    <3>1. f \in With("rebuild", batch) \/ f \in With("restart", batch)
      BY <2>3 DEF Takes, With
    <3> QED  BY <1>1, <1>5, <3>1 DEF Inv, TakenInv, RebuiltTaken, RestartedTaken, AfterStart
  <2> QED  BY <1>4, <2>1, <2>2, <2>3
<1>8. Built' /\ Rebuilt' /\ ToldApart' /\ Deleted' /\ Synced' /\ Stopped' /\ RebuiltTaken' /\ RestartedTaken'
  BY <1>1 DEF Built, Rebuilt, ToldApart, Deleted, Synced, Stopped, RebuiltTaken, RestartedTaken,
              AfterRebuild, AfterStart, Syncing
<1> QED  BY <1>3, <1>6, <1>7, <1>8 DEF Inv, ContentInv, TakenInv

LEMMA StepInv ==
  ASSUME Inv, [Next]_vars
  PROVE  Inv'
<1>1. CASE (\E f \in Files : Edit(f) \/ Notice(f)) \/ Cancel \/ Gather \/ Tick \/ DebouncerStops \/ UNCHANGED vars
  BY <1>1, EditStep, WayStep
<1>2. CASE InitialSync \/ InitialSyncFails \/ StartWatching \/ TakeBatch \/ WatcherReturns
  BY <1>2, StartStep, TakeStep, WatcherReturnsStep
<1>3. CASE HandleBatch \/ DeleteFails \/ CallFails
  BY <1>3, BuildStep, RecreateStep, StartAgainStep, SyncStatStep, SyncDeleteStep, SyncCopyStep, RestartStep,
     ExecStep, CallFailsStep DEF HandleBatch
<1> QED  BY <1>1, <1>2, <1>3 DEF Next

(* Once everything is quiet the container has the files as they are on the *)
(* host, and has taken up what needs a rebuild, a restart or a hook,       *)
(* whatever was saved, built, copied or failed in whatever order: watch    *)
(* with the debouncer, handleWatchBatch and Tar.Sync.                      *)
THEOREM ContainerFollowsHolds == Spec => []ContainerFollows
<1>1. Inv => ContainerFollows
  <2> SUFFICES ASSUME Inv  PROVE ContainerFollows
    OBVIOUS
  <2>1. Quiet => Waiting = {} /\ changed \ dropped = Due
    BY DEF Quiet, Waiting, Due, Inv, Typed, Idle
  <2>2. ContentArrives
    BY <2>1 DEF ContentArrives, Inv, ContentInv, Settled, Copies, Current
  <2>3. ContentTakenUp
    BY <2>1 DEF ContentTakenUp, Inv, TakenInv, SettledTaken, Takes, TakenUp
  <2> QED  BY <2>2, <2>3 DEF ContainerFollows, Inv, Typed
<1> QED  BY <1>1, InitInv, StepInv, PTL DEF Spec

----------------------------------------------------------------------------
(* The terminal.                                                           *)

Watches == Term!Watches
Starters == {w \in Watches : starter[w] # "none"}

ScreenOK ==
  /\ ticker \in {"ticking", "stopped"} /\ painter \in {"select", "print", "gone"}
  /\ main \in {"work", "print", "lock", "send", "menu"}
  /\ mtx \in BOOLEAN /\ mtx = (main = "send")
  /\ task \in [Resources -> Term!Events] /\ shown \in [Resources -> Term!Events]

(* From the last print of Done on nothing is lost.                         *)
Printed == main \in {"lock", "send", "menu"} => \A r \in Resources : r \in late \/ shown[r] = task[r]

MenuOK ==
  /\ stopFn \in Watches \cup {0} /\ presses \in 0..MaxPresses
  /\ mx \in {"free", "start", "stop"}
  /\ loop \in {"select", "stop", "receive", "final stop", "final receive", "returned"}
  /\ starter \in [Watches -> {"none", "lock", "start", "started"}]
  /\ watch \in [Watches -> {"none", "on", "cancelled", "sends", "gone"}]
  /\ {watching, hasty, detached} \subseteq BOOLEAN
  /\ \A w \in Watches : starter[w] # "none" => w <= presses + 1

(* The mutex of Watcher: one start, or a stop.                             *)
Exclusive ==
  /\ mx = "stop" <=> loop \in {"receive", "final receive"}
  /\ mx = "start" <=> \E w \in Watches : starter[w] = "start"
  /\ \A w \in Watches : starter[w] = "start" => stopFn = w

(* The session goes on, and the key was pressed only between starts.       *)
Orderly == ~hasty /\ ~detached /\ ~cancelled

OneStarts    == \A w, v \in Starters : w = v
StopReaches  == \A w \in Watches : watch[w] = "on" => stopFn = w
NoneBefore   == \A w \in Starters, v \in Watches : watch[v] = "on" => v = w /\ starter[w] = "started"
OffMeansOff  == ~watching => \A w \in Watches : watch[w] = "on" => starter[w] = "started"
FirstIsOn    == 1 \in Starters => watching
StopsAlone   == loop # "select" => Starters = {} /\ loop \in {"stop", "receive"}
Received     == loop = "receive" => \A w \in Watches : watch[w] # "on"

InOrder == OneStarts /\ StopReaches /\ NoneBefore /\ OffMeansOff /\ FirstIsOn /\ StopsAlone /\ Received

TerminalInv == ScreenOK /\ Printed /\ MenuOK /\ Exclusive /\ (Orderly => InOrder)

(* A step of one part leaves what the other says alone.                    *)
LEMMA MenuKept ==
  ASSUME MenuOK, Exclusive, Orderly => InOrder, UNCHANGED Term!menu, cancelled' \in {cancelled, TRUE}
  PROVE  MenuOK' /\ Exclusive' /\ (Orderly => InOrder)'
<1>1. UNCHANGED <<watching, presses, mx, stopFn, starter, watch, loop, detached, hasty>>
  BY DEF Term!menu
<1>2. MenuOK' /\ Exclusive'
  BY <1>1 DEF MenuOK, Exclusive, Watches, Term!Watches
<1>3. Orderly' => Orderly
  BY <1>1 DEF Orderly
<1>4. InOrder => InOrder'
  BY <1>1 DEF InOrder, OneStarts, StopReaches, NoneBefore, OffMeansOff, FirstIsOn, StopsAlone, Received,
              Starters, Watches, Term!Watches
<1> QED  BY <1>2, <1>3, <1>4

LEMMA ScreenKept ==
  ASSUME ScreenOK, Printed, UNCHANGED Term!progress
  PROVE  ScreenOK' /\ Printed'
BY DEF ScreenOK, Printed, Term!progress, Term!Events

LEMMA TerminalInit ==
  ASSUME Term!Init
  PROVE  TerminalInv
<1>1. ScreenOK /\ Printed
  BY DEF Term!Init, Term!ProgressInit, ScreenOK, Printed, Term!Events
<1>2. MenuOK
  <2>1. 0 \in 0..MaxPresses  BY PressesAssumption
  <2>2. \A w \in Watches : w = 1 => w <= presses + 1
    BY DEF Term!Init, Term!MenuInit
  <2> QED  BY <2>1, <2>2 DEF Term!Init, Term!MenuInit, MenuOK, Watches, Term!Watches
<1>3. Exclusive
  BY DEF Term!Init, Term!MenuInit, Exclusive, Watches
<1>4. InOrder
  BY DEF Term!Init, Term!MenuInit, InOrder, OneStarts, StopReaches, NoneBefore, OffMeansOff, FirstIsOn, StopsAlone,
         Received, Starters, Watches
<1> QED  BY <1>1, <1>2, <1>3, <1>4 DEF TerminalInv

(* The events and their painter; Done.                                     *)
LEMMA OnStep ==
  ASSUME ScreenOK, Printed, NEW r \in Resources, NEW event \in Term!Events, Term!On(r, event)
  PROVE  ScreenOK' /\ Printed'
<1>1. /\ ~mtx /\ UNCHANGED <<mtx, painter, main>>
      /\ task' = [task EXCEPT ![r] = event]
      /\ shown' = IF main = "menu" THEN [shown EXCEPT ![r] = event] ELSE shown
      /\ late' = IF main = "lock" THEN late \cup {r} ELSE late \ {r}
      /\ ticker' \in {ticker, "ticking", "stopped"}
  BY DEF Term!On
<1>2. ScreenOK'
  BY <1>1 DEF ScreenOK
<1>3. Printed'
  <2> SUFFICES ASSUME main \in {"lock", "send", "menu"}, NEW q \in Resources
               PROVE  q \in late' \/ shown'[q] = task'[q]
    BY <1>1 DEF Printed
  <2>1. main # "send"  BY <1>1 DEF ScreenOK
  <2>2. q \in late \/ shown[q] = task[q]  BY DEF Printed
  <2>3. CASE q = r
    BY <1>1, <2>1, <2>3 DEF ScreenOK
  <2>4. CASE q # r
    BY <1>1, <2>2, <2>4 DEF ScreenOK
  <2> QED  BY <2>3, <2>4
<1> QED  BY <1>2, <1>3

LEMMA ScreenStep ==
  ASSUME ScreenOK, Printed, Term!PrintProgress \/ Term!Hand
  PROVE  ScreenOK' /\ Printed' /\ UNCHANGED <<cancelled, Term!menu>>
<1>1. CASE \E r \in Resources, event \in Term!Events \ {"none"} : Term!On(r, event)
  <2>1. UNCHANGED <<cancelled, Term!menu>>
    BY <1>1 DEF Term!On, Term!Quiet
  <2> QED  BY <1>1, <2>1, OnStep
<1>2. CASE Term!Tick \/ Term!PainterLeaves \/ Term!WorkEnds
  BY <1>2 DEF Term!Tick, Term!PainterLeaves, Term!WorkEnds, Term!Quiet, ScreenOK, Printed, Term!Events
<1>3. CASE Term!Paint \/ Term!DonePrints
  BY <1>3 DEF Term!Paint, Term!DonePrints, Term!Quiet, ScreenOK, Printed, Term!Events
<1>4. CASE Term!DoneLocks \/ Term!DoneSends
  BY <1>4 DEF Term!DoneLocks, Term!DoneSends, Term!Quiet, ScreenOK, Printed, Term!Events
<1> QED  BY <1>1, <1>2, <1>3, <1>4 DEF Term!PrintProgress, Term!Hand

----------------------------------------------------------------------------
(* The menu.                                                               *)

OnlyMenu == MenuOK' /\ Exclusive' /\ (Orderly => InOrder)' /\ UNCHANGED Term!progress

LEMMA PressStep ==
  ASSUME MenuOK, Exclusive, Orderly => InOrder, Term!PressKey
  PROVE  OnlyMenu
<1>1. /\ UNCHANGED <<watching, mx, stopFn, watch, detached, cancelled>> /\ UNCHANGED Term!progress
      /\ presses < MaxPresses /\ presses' = presses + 1 /\ loop = "select"
      /\ hasty' = (hasty \/ \E w \in Watches : starter[w] # "none")
      /\ IF watching
         THEN loop' = "stop" /\ starter' = starter
         ELSE starter' = [starter EXCEPT ![presses' + 1] = "lock"] /\ loop' = loop
  BY DEF Term!PressKey, Term!Rest, Watches
<1>2. presses' \in 0..MaxPresses /\ presses' + 1 \in Watches /\ presses' + 1 # 1
  BY <1>1, PressesAssumption DEF MenuOK, Watches, Term!Watches
<1>3. hasty' \in BOOLEAN
  BY <1>1, Zenon
<1>4. MenuOK'
  <2>1. /\ starter' \in [Watches -> {"none", "lock", "start", "started"}]
        /\ \A w \in Watches : w = presses' + 1 \/ starter'[w] = starter[w]
    BY <1>1, <1>2 DEF MenuOK, Watches, Term!Watches
  <2>2. \A w \in Watches : starter'[w] # "none" => w <= presses' + 1
    BY <1>1, <2>1 DEF MenuOK, Watches, Term!Watches
  <2> QED  BY <1>1, <1>2, <1>3, <2>1, <2>2 DEF MenuOK, Watches, Term!Watches
<1> DEFINE n == presses' + 1
<1> HIDE DEF n
<1>5. /\ n \in Watches /\ n # 1
      /\ IF watching
         THEN loop' = "stop" /\ starter' = starter
         ELSE starter' = [starter EXCEPT ![n] = "lock"] /\ loop' = loop
  BY <1>1, <1>2 DEF n
<1>idle. Orderly' => Orderly /\ Starters = {}
  BY <1>1 DEF Orderly, MenuOK, Starters
<1>6. ~watching => \A w \in Watches : starter'[w] = IF w = n THEN "lock" ELSE starter[w]
  BY <1>5 DEF MenuOK
<1>7. Exclusive'
  <2>1. CASE watching
    BY <1>1, <1>5, <2>1 DEF Exclusive, Watches, Term!Watches
  <2>2. CASE ~watching
    <3>1. starter[n] = "none"
      BY <1>1, <1>2 DEF n, MenuOK
    <3> QED  BY <3>1, <1>1, <1>5, <1>6, <2>2 DEF Exclusive, Watches, Term!Watches
  <2> QED  BY <2>1, <2>2
<1>8. ASSUME Orderly'  PROVE InOrder'
  <2>1. CASE watching
    BY <1>1, <1>5, <1>idle, <1>8, <2>1 DEF InOrder, OneStarts, StopReaches, NoneBefore, OffMeansOff, FirstIsOn,
       StopsAlone, Received, Starters, Watches, Term!Watches
  <2>2. CASE ~watching
    <3>1. \A w \in Watches : watch[w] # "on"
      BY <1>idle, <1>8, <2>2 DEF InOrder, OffMeansOff, Starters
    <3>2. Starters' = {n}
      BY <1>5, <1>6, <1>idle, <1>8, <2>2 DEF Starters, Watches, Term!Watches
    <3>3. loop' = "select"
      BY <1>1, <1>5, <2>2
    <3> QED
      BY <1>1, <1>5, <3>1, <3>2, <3>3 DEF InOrder, OneStarts, StopReaches, NoneBefore, OffMeansOff, FirstIsOn,
         StopsAlone, Received, Watches, Term!Watches
  <2> QED  BY <2>1, <2>2
<1> QED  BY <1>1, <1>4, <1>7, <1>8 DEF OnlyMenu

(* A step of the goroutine that starts watch w.                            *)
LEMMA StarterStep ==
  ASSUME MenuOK, Exclusive, Orderly => InOrder, NEW w \in Watches,
         Term!StartLocks(w) \/ Term!StartsWatch(w) \/ Term!StartFails(w) \/ Term!SetWatching(w)
  PROVE  OnlyMenu
<1>1. CASE Term!StartLocks(w)
  <2>1. /\ UNCHANGED <<watching, presses, watch, loop, detached, hasty, cancelled>> /\ UNCHANGED Term!progress
        /\ starter[w] = "lock" /\ mx = "free" /\ mx' = "start" /\ stopFn' = w
        /\ starter' = [starter EXCEPT ![w] = "start"]
    BY <1>1 DEF Term!StartLocks, Term!Rest
  <2>2. \A v \in Watches : starter'[v] = IF v = w THEN "start" ELSE starter[v]
    BY <2>1 DEF MenuOK
  <2>3. MenuOK'
    BY <2>1, <2>2 DEF MenuOK, Watches, Term!Watches
  <2>4. Exclusive'
    BY <2>1, <2>2 DEF Exclusive, Watches, Term!Watches
  <2>5. ASSUME Orderly'  PROVE InOrder'
    <3>1. InOrder /\ w \in Starters
      BY <2>1, <2>5 DEF Orderly, Starters
    <3>2. \A v \in Watches : watch[v] # "on"
      BY <2>1, <3>1 DEF InOrder, NoneBefore
    <3>3. Starters' = Starters
      BY <2>1, <2>2 DEF Starters, Watches, Term!Watches
    <3> QED
      BY <2>1, <3>1, <3>2, <3>3 DEF InOrder, OneStarts, StopReaches, NoneBefore, OffMeansOff, FirstIsOn,
         StopsAlone, Received, Watches, Term!Watches
  <2> QED  BY <2>1, <2>3, <2>4, <2>5 DEF OnlyMenu
<1>2. CASE Term!StartsWatch(w)
  <2>1. /\ UNCHANGED <<watching, presses, stopFn, loop, detached, hasty, cancelled>> /\ UNCHANGED Term!progress
        /\ starter[w] = "start" /\ mx' = "free"
        /\ watch' = [watch EXCEPT ![w] = "on"]
        /\ starter' = [starter EXCEPT ![w] = "started"]
    BY <1>2 DEF Term!StartsWatch, Term!Rest
  <2>2. \A v \in Watches : /\ starter'[v] = IF v = w THEN "started" ELSE starter[v]
                           /\ watch'[v] = IF v = w THEN "on" ELSE watch[v]
    BY <2>1 DEF MenuOK
  <2>3. MenuOK'
    BY <2>1, <2>2 DEF MenuOK, Watches, Term!Watches
  <2>4. mx = "start" /\ stopFn = w /\ \A v \in Watches : starter[v] = "start" => v = w
    BY <2>1 DEF Exclusive
  <2>5. Exclusive'
    <3>1. loop' \notin {"receive", "final receive"}
      BY <2>1, <2>4 DEF Exclusive
    <3>2. Watches' = Watches /\ \A v \in Watches : starter'[v] # "start"
      BY <2>2, <2>4 DEF Watches, Term!Watches
    <3> QED  BY <2>1, <3>1, <3>2 DEF Exclusive
  <2>6. ASSUME Orderly'  PROVE InOrder'
    <3>1. InOrder /\ w \in Starters
      BY <2>1, <2>6 DEF Orderly, Starters
    <3>2. \A v \in Watches : watch[v] # "on"
      BY <2>1, <3>1 DEF InOrder, NoneBefore
    <3>3. Starters' = Starters /\ Starters = {w}
      BY <2>1, <2>2, <3>1 DEF Starters, Watches, Term!Watches, InOrder, OneStarts
    <3> QED
      BY <2>1, <2>2, <2>4, <3>1, <3>2, <3>3 DEF InOrder, OneStarts, StopReaches, NoneBefore, OffMeansOff, FirstIsOn,
         StopsAlone, Received, Watches, Term!Watches
  <2> QED  BY <2>1, <2>3, <2>5, <2>6 DEF OnlyMenu
<1>3. CASE Term!StartFails(w)
  <2>1. /\ UNCHANGED <<watching, presses, stopFn, loop, hasty, cancelled>> /\ UNCHANGED Term!progress
        /\ starter[w] = "start" /\ mx' = "free"
        /\ watch' = [watch EXCEPT ![w] = "sends"]
        /\ starter' = [starter EXCEPT ![w] = "none"]
        /\ detached' = (detached \/ w = 1)
    BY <1>3 DEF Term!StartFails, Term!Rest
  <2>2. \A v \in Watches : /\ starter'[v] = IF v = w THEN "none" ELSE starter[v]
                           /\ watch'[v] = IF v = w THEN "sends" ELSE watch[v]
    BY <2>1 DEF MenuOK
  <2>3. MenuOK'
    <3>1. detached' \in BOOLEAN
      BY <2>1, Zenon
    <3> QED  BY <2>1, <2>2, <3>1 DEF MenuOK, Watches, Term!Watches
  <2>4. mx = "start" /\ stopFn = w /\ \A v \in Watches : starter[v] = "start" => v = w
    BY <2>1 DEF Exclusive
  <2>5. Exclusive'
    <3>1. loop' \notin {"receive", "final receive"}
      BY <2>1, <2>4 DEF Exclusive
    <3>2. Watches' = Watches /\ \A v \in Watches : starter'[v] # "start"
      BY <2>2, <2>4 DEF Watches, Term!Watches
    <3> QED  BY <2>1, <3>1, <3>2 DEF Exclusive
  <2>6. ASSUME Orderly'  PROVE InOrder'
    <3>1. InOrder /\ w \in Starters
      BY <2>1, <2>6 DEF Orderly, Starters
    <3>2. \A v \in Watches : watch[v] # "on"
      BY <2>1, <3>1 DEF InOrder, NoneBefore
    <3>3. Starters' = {}
      BY <2>1, <2>2, <3>1 DEF Starters, Watches, Term!Watches, InOrder, OneStarts
    <3> QED
      BY <2>1, <2>2, <3>1, <3>2, <3>3 DEF InOrder, OneStarts, StopReaches, NoneBefore, OffMeansOff, FirstIsOn,
         StopsAlone, Received, Watches, Term!Watches
  <2> QED  BY <2>1, <2>3, <2>5, <2>6 DEF OnlyMenu
<1>4. CASE Term!SetWatching(w)
  <2>1. /\ UNCHANGED <<presses, mx, stopFn, watch, loop, detached, hasty, cancelled>> /\ UNCHANGED Term!progress
        /\ starter[w] = "started"
        /\ starter' = [starter EXCEPT ![w] = "none"]
        /\ watching' = (watching \/ w # 1)
    BY <1>4 DEF Term!SetWatching, Term!Rest
  <2>2. \A v \in Watches : starter'[v] = IF v = w THEN "none" ELSE starter[v]
    BY <2>1 DEF MenuOK
  <2>3. MenuOK'
    <3>1. watching' \in BOOLEAN
      BY <2>1, Zenon
    <3> QED  BY <2>1, <2>2, <3>1 DEF MenuOK, Watches, Term!Watches
  <2>4. Exclusive'
    <3>1. Watches' = Watches /\ \A v \in Watches : starter'[v] = "start" <=> starter[v] = "start"
      BY <2>1, <2>2 DEF Watches, Term!Watches
    <3> QED  BY <2>1, <3>1 DEF Exclusive
  <2>5. ASSUME Orderly'  PROVE InOrder'
    <3>1. InOrder /\ w \in Starters
      BY <2>1, <2>5 DEF Orderly, Starters
    <3>2. watching'
      BY <2>1, <3>1 DEF InOrder, FirstIsOn
    <3>3. Starters' = {}
      BY <2>1, <2>2, <3>1 DEF Starters, Watches, Term!Watches, InOrder, OneStarts
    <3> QED
      BY <2>1, <2>2, <3>1, <3>2, <3>3 DEF InOrder, OneStarts, StopReaches, NoneBefore, OffMeansOff, FirstIsOn,
         StopsAlone, Received, Watches, Term!Watches
  <2> QED  BY <2>1, <2>3, <2>4, <2>5 DEF OnlyMenu
<1> QED  BY <1>1, <1>2, <1>3, <1>4

(* Watches end, or see that the session does.                              *)
LEMMA WatchStep ==
  ASSUME MenuOK, Exclusive, Orderly => InOrder, NEW w \in Watches,
         Term!WatchEnds(w) \/ Term!DetachReachesWatch(w)
  PROVE  OnlyMenu
<1>1. /\ UNCHANGED <<watching, presses, mx, stopFn, starter, loop, detached, hasty, cancelled>>
      /\ UNCHANGED Term!progress
      /\ \E to \in {"sends", "cancelled"} : watch' = [watch EXCEPT ![w] = to]
  BY DEF Term!WatchEnds, Term!DetachReachesWatch, Term!Rest
<1>2. /\ watch' \in [Watches -> {"none", "on", "cancelled", "sends", "gone"}]
      /\ \A v \in Watches : watch'[v] = "on" => watch[v] = "on"
  BY <1>1 DEF MenuOK
<1>3. Watches' = Watches
  BY DEF Watches, Term!Watches
<1>4. MenuOK' /\ Exclusive'
  BY <1>1, <1>2, <1>3 DEF MenuOK, Exclusive
<1>5. (Orderly => InOrder)'
  BY <1>1, <1>2, <1>3 DEF Orderly, InOrder, OneStarts, StopReaches, NoneBefore, OffMeansOff, FirstIsOn,
     StopsAlone, Received, Starters
<1> QED  BY <1>1, <1>4, <1>5 DEF OnlyMenu

LEMMA StopStep ==
  ASSUME MenuOK, Exclusive, Orderly => InOrder, Term!Stop
  PROVE  OnlyMenu
<1>w. Watches' = Watches
  BY DEF Watches, Term!Watches
<1>1. CASE Term!StopLocks /\ stopFn = 0
  <2>1. /\ UNCHANGED <<presses, mx, stopFn, starter, watch, detached, hasty, cancelled>> /\ UNCHANGED Term!progress
        /\ watching' = FALSE /\ mx = "free"
        /\ \/ loop = "stop" /\ loop' = "select"
           \/ loop = "final stop" /\ loop' = "returned"
    BY <1>1 DEF Term!StopLocks, Term!Rest
  <2>2. MenuOK' /\ Exclusive'
    BY <1>w, <2>1 DEF MenuOK, Exclusive
  <2>3. ASSUME Orderly'  PROVE InOrder'
    <3>1. InOrder
      BY <2>1, <2>3 DEF Orderly
    <3>2. Starters' = {} /\ loop = "stop"
      BY <1>w, <2>1, <3>1 DEF InOrder, StopsAlone, Starters
    <3>3. \A v \in Watches : watch[v] # "on"
      BY <1>1, <3>1 DEF InOrder, StopReaches, Watches, Term!Watches
    <3> QED
      BY <1>w, <2>1, <3>1, <3>2, <3>3 DEF InOrder, OneStarts, StopReaches, NoneBefore, OffMeansOff, FirstIsOn,
         StopsAlone, Received
  <2> QED  BY <2>1, <2>2, <2>3 DEF OnlyMenu
<1>2. CASE Term!StopLocks /\ stopFn # 0
  <2>1. /\ UNCHANGED <<watching, presses, starter, detached, hasty, cancelled>> /\ UNCHANGED Term!progress
        /\ mx = "free" /\ mx' = "stop" /\ stopFn' = 0
        /\ watch' = [watch EXCEPT ![stopFn] = IF @ = "on" THEN "cancelled" ELSE @]
        /\ \/ loop = "stop" /\ loop' = "receive"
           \/ loop = "final stop" /\ loop' = "final receive"
    BY <1>2 DEF Term!StopLocks, Term!Rest
  <2>2. /\ watch' \in [Watches -> {"none", "on", "cancelled", "sends", "gone"}]
        /\ \A v \in Watches : watch'[v] = "on" => watch[v] = "on" /\ v # stopFn
    BY <2>1 DEF MenuOK
  <2>3. MenuOK'
    BY <1>w, <2>1, <2>2 DEF MenuOK
  <2>4. Exclusive'
    BY <1>w, <2>1 DEF Exclusive
  <2>5. ASSUME Orderly'  PROVE InOrder'
    <3>1. InOrder
      BY <2>1, <2>5 DEF Orderly
    <3>2. Starters' = {} /\ Starters = {} /\ loop' = "receive"
      BY <1>w, <2>1, <3>1 DEF InOrder, StopsAlone, Starters
    <3>3. \A v \in Watches : watch'[v] # "on"
      BY <2>2, <3>1 DEF InOrder, StopReaches
    <3> QED
      BY <1>w, <2>1, <3>1, <3>2, <3>3 DEF InOrder, OneStarts, StopReaches, NoneBefore, OffMeansOff, FirstIsOn,
         StopsAlone, Received
  <2> QED  BY <2>1, <2>3, <2>4, <2>5 DEF OnlyMenu
<1>3. CASE \E w \in Watches : Term!StopReceives(w)
  <2>1. PICK w \in Watches : Term!StopReceives(w)
    BY <1>3
  <2>2. /\ UNCHANGED <<presses, stopFn, starter, detached, hasty, cancelled>> /\ UNCHANGED Term!progress
        /\ mx' = "free" /\ watching' \in {FALSE, watching}
        /\ watch' = [watch EXCEPT ![w] = "gone"]
        /\ \/ loop = "receive" /\ loop' = "select"
           \/ loop = "final receive" /\ loop' = "returned"
    BY <2>1 DEF Term!StopReceives, Term!Rest
  <2>3. /\ watch' \in [Watches -> {"none", "on", "cancelled", "sends", "gone"}]
        /\ \A v \in Watches : watch'[v] = "on" => watch[v] = "on"
    BY <2>2 DEF MenuOK
  <2>4. MenuOK'
    BY <1>w, <2>2, <2>3 DEF MenuOK
  <2>5. Exclusive'
    BY <1>w, <2>2 DEF Exclusive
  <2>6. ASSUME Orderly'  PROVE InOrder'
    <3>1. InOrder
      BY <2>2, <2>6 DEF Orderly
    <3>2. Starters' = {} /\ Starters = {} /\ loop = "receive"
      BY <1>w, <2>2, <3>1 DEF InOrder, StopsAlone, Starters
    <3>3. \A v \in Watches : watch'[v] # "on"
      BY <2>3, <3>1, <3>2 DEF InOrder, Received
    <3> QED
      BY <1>w, <2>2, <3>1, <3>2, <3>3 DEF InOrder, OneStarts, StopReaches, NoneBefore, OffMeansOff, FirstIsOn,
         StopsAlone, Received
  <2> QED  BY <2>2, <2>4, <2>5, <2>6 DEF OnlyMenu
<1> QED  BY <1>1, <1>2, <1>3 DEF Term!Stop, Watches

LEMMA DetachStep ==
  ASSUME MenuOK, Exclusive, Orderly => InOrder, Term!Detach
  PROVE  OnlyMenu
<1>1. /\ UNCHANGED <<watching, presses, mx, stopFn, starter, watch, hasty, cancelled>> /\ UNCHANGED Term!progress
      /\ loop = "select" /\ loop' = "final stop" /\ detached'
  BY DEF Term!Detach, Term!Rest
<1>2. Watches' = Watches
  BY DEF Watches, Term!Watches
<1>3. detached' \in BOOLEAN
  BY DEF Term!Detach
<1>4. MenuOK' /\ Exclusive'
  BY <1>1, <1>2, <1>3 DEF MenuOK, Exclusive
<1> QED  BY <1>1, <1>4 DEF OnlyMenu, Orderly

----------------------------------------------------------------------------
LEMMA TerminalStep ==
  ASSUME TerminalInv, [Term!Next]_(Term!vars)
  PROVE  TerminalInv'
<1>1. CASE Term!PrintProgress \/ Term!Hand
  BY <1>1, ScreenStep, MenuKept DEF TerminalInv
<1>2. CASE Term!Cancel \/ UNCHANGED Term!vars
  <2>1. UNCHANGED Term!menu /\ UNCHANGED Term!progress /\ cancelled' \in {cancelled, TRUE}
    BY <1>2 DEF Term!Cancel, Term!vars
  <2> QED  BY <2>1, ScreenKept, MenuKept DEF TerminalInv
<1>3. Term!PressKey \/ Term!Detach \/ Term!Stop \/ (\E w \in Watches : Term!Goroutine(w) \/ Term!WatchEnds(w))
        => OnlyMenu
  BY PressStep, DetachStep, StopStep, StarterStep, WatchStep DEF TerminalInv, Term!Goroutine
<1>4. OnlyMenu => TerminalInv'
  BY ScreenKept DEF OnlyMenu, TerminalInv
<1> QED  BY <1>1, <1>2, <1>3, <1>4 DEF Term!Next, Watches

(* The last state of a resource is on the screen when the menu comes; and  *)
(* while the key is pressed only between starts, at most one watch goes    *)
(* on, and the menu shows it: ttyWriter.Done with its last print, Start    *)
(* and Stop of Watcher under their mutex, ToggleWatch.                     *)
THEOREM NothingHiddenHolds == Term!Spec => []NothingHidden
<1>1. TerminalInv => NothingHidden
  <2> SUFFICES ASSUME TerminalInv  PROVE NothingHidden
    OBVIOUS
  <2>1. Term!TypeOK
    <3> DEFINE Receives == loop \in {"receive", "final receive"}
    <3>0. mx = "stop" <=> Receives
      BY DEF TerminalInv, Exclusive
    <3>1. (mx = "stop") = Receives
      <4> HIDE DEF Receives
      <4> QED  BY <3>0, Zenon
    <3>2. (mx = "start") = (\E w \in Watches : starter[w] = "start")
      BY Zenon DEF TerminalInv, Exclusive
    <3> QED  BY <3>1, <3>2 DEF TerminalInv, ScreenOK, MenuOK, Watches, Term!TypeOK
  <2>2. Term!LastEventShown
    BY DEF TerminalInv, Printed, Term!LastEventShown, Term!AtMenu
  <2>3. Term!NoHiddenWatch
    <3> SUFFICES ASSUME ~hasty, \A w \in Watches : starter[w] = "none"
                 PROVE  /\ \A v, w \in Watches : Term!Live(v) /\ Term!Live(w) => v = w
                        /\ ~watching => \A w \in Watches : ~Term!Live(w)
      BY DEF Term!NoHiddenWatch, Watches
    <3>1. \A w \in Watches : Term!Live(w) => InOrder /\ watch[w] = "on"
      BY DEF Term!Live, TerminalInv, Orderly
    <3> QED  BY <3>1 DEF InOrder, StopReaches, OffMeansOff
  <2> QED  BY <2>1, <2>2, <2>3 DEF NothingHidden, Term!NothingHidden
<1> QED  BY <1>1, TerminalInit, TerminalStep, PTL DEF Term!Spec

----------------------------------------------------------------------------
(***************************************************************************)
(* Raw processes: what a nil of Stop or StopAll is worth, whatever the     *)
(* shells and the context do.                                              *)
(*                                                                         *)
(* StopMeansReaped alone is not inductive: a process found by a call must  *)
(* not be started anew before the call returns.  It cannot be, because     *)
(* Start refuses for ever what it has started once, and what is reaped has *)
(* ended (EndedInv); so a call of Stop may count on each process it is     *)
(* done with from then on (FoundInv).                                      *)
(***************************************************************************)
EndedInv == \A p \in Processes : Reaped(p) => shell[p] \in {"exit 0", "exit 1"}

FoundInv ==
  \A c \in Callers : call[c].op \in {"Stop", "StopAll"} =>
    \A p \in call[c].found : Reaped(p)

StateInv == ProcessOK /\ StagesOK /\ StoppedOK /\ EndedInv
ReapInv  == StateInv /\ CallOK /\ FoundInv

----------------------------------------------------------------------------
LEMMA ReapInit == RawInit => ReapInv
<1> SUFFICES ASSUME RawInit PROVE ReapInv
  OBVIOUS
<1>1. CallOK
  BY DEF RawInit, CallOK, CallRecord, NoCall
<1>2. ProcessOK
  <2>1. piped \in BOOLEAN /\ ctxDone \in BOOLEAN
    BY DEF RawInit
  <2>2. managed \subseteq Processes /\ calls \in Nat
    BY MaxCallsAssumption DEF RawInit
  <2> QED
    BY <2>1, <2>2 DEF RawInit, ProcessOK, States
<1>3. StagesOK
  BY DEF RawInit, StagesOK, Running
<1>4. StoppedOK
  BY DEF RawInit, StoppedOK
<1>5. EndedInv /\ FoundInv
  BY DEF RawInit, EndedInv, FoundInv, Reaped, NoCall
<1> QED
  BY <1>1, <1>2, <1>3, <1>4, <1>5 DEF ReapInv, StateInv

(* Nothing but calls changes, and shells may end.                          *)
QuietShells ==
  /\ UNCHANGED <<managed, piped, ctxDone, state, cmd, children, waiter, stopped, calls>>
  /\ shell' \in [Processes -> {"none", "running", "exit 0", "exit 1"}]
  /\ \A p \in Processes : shell'[p] = shell[p] \/ shell'[p] \in {"exit 0", "exit 1"}

LEMMA QuietStep ==
  ASSUME ReapInv, QuietShells
  PROVE  StateInv'
<1>1. ProcessOK'
  BY DEF ReapInv, StateInv, QuietShells, ProcessOK
<1>2. StagesOK'
  BY DEF ReapInv, StateInv, QuietShells, StagesOK, Running
<1>3. StoppedOK'
  BY DEF ReapInv, StateInv, QuietShells, StoppedOK
<1>4. EndedInv'
  BY DEF ReapInv, StateInv, QuietShells, EndedInv, Reaped
<1> QED
  BY <1>1, <1>2, <1>3, <1>4 DEF StateInv

LEMMA StutterIsQuiet == ASSUME ReapInv, UNCHANGED process, UNCHANGED <<managed, piped, ctxDone, calls>> PROVE QuietShells
BY DEF ReapInv, StateInv, ProcessOK, process, QuietShells

LEMMA EndIsQuiet ==
  ASSUME ReapInv, NEW p \in Processes, NEW how \in {"exit 0", "exit 1"}, Ended(p, how),
         UNCHANGED <<managed, piped, ctxDone, state, cmd, children, waiter, stopped, calls>>
  PROVE  QuietShells
BY DEF ReapInv, StateInv, ProcessOK, Ended, QuietShells

(* Nothing changes but the counters, the context and who is managed.       *)
LEMMA KeptStep ==
  ASSUME ReapInv, UNCHANGED process, UNCHANGED piped,
         managed' \subseteq Processes, calls' \in Nat, ctxDone' \in BOOLEAN
  PROVE  StateInv'
<1>1. ProcessOK'
  BY DEF ReapInv, StateInv, ProcessOK, process
<1>2. StagesOK'
  BY DEF ReapInv, StateInv, StagesOK, Running, process
<1>3. StoppedOK'
  BY DEF ReapInv, StateInv, StoppedOK, process
<1>4. EndedInv'
  BY DEF ReapInv, StateInv, EndedInv, Reaped, process
<1> QED
  BY <1>1, <1>2, <1>3, <1>4 DEF StateInv

(* A call is done with a process: what it says of it is true.              *)
LEMMA DoneStep ==
  ASSUME ReapInv, NEW c \in Callers, NEW p \in Processes, NEW error \in BOOLEAN,
         Done(c, p, error),
         \A q \in Processes : Reaped(q) => Reaped(q)',
         call[c].op \in {"Stop", "StopAll"} /\ cmd[p] = "started" => Reaped(p)
  PROVE  CallOK' /\ FoundInv'
<1> DEFINE failed == call[c].failed \/ error
           found  == IF cmd[p] = "started" THEN call[c].found \cup {p} ELSE call[c].found
           done   == [call[c] EXCEPT !.todo = call[c].todo \ {p}, !.at = "none", !.pc = "next",
                                     !.failed = failed, !.found = found]
<1>1. call \in [Callers -> CallRecord]
  BY DEF ReapInv, CallOK
<1>2. call' = [call EXCEPT ![c] = done]
  BY DEF Done
<1>3. failed \in BOOLEAN /\ found \in SUBSET Processes
  BY <1>1 DEF CallRecord
<1> HIDE DEF failed, found
<1>4. done \in CallRecord /\ done.op = call[c].op /\ done.found = found
  BY <1>1, <1>3 DEF CallRecord
<1> HIDE DEF done
<1>5. CallOK'
  BY <1>1, <1>2, <1>4 DEF CallOK
<1>6. FoundInv'
  BY <1>1, <1>2, <1>4 DEF ReapInv, FoundInv, CallRecord, found
<1> QED
  BY <1>5, <1>6

(* A call goes on; a call begins, with nothing found yet.                  *)
LEMMA GoesStep ==
  ASSUME ReapInv, NEW c \in Callers, NEW next \in CallRecord, call' = [call EXCEPT ![c] = next],
         \/ next.op = call[c].op /\ next.found = call[c].found
         \/ next.found = {},
         waiter' = waiter
  PROVE  CallOK' /\ FoundInv'
BY DEF ReapInv, CallOK, FoundInv, Reaped

LEMMA PcStep ==
  ASSUME ReapInv, NEW c \in Callers, NEW pc \in {"await", "killed"}, CallGoes(c, pc), waiter' = waiter
  PROVE  CallOK' /\ FoundInv'
<1> DEFINE next == [call[c] EXCEPT !.pc = pc]
<1>1. call \in [Callers -> CallRecord]
  BY DEF ReapInv, CallOK
<1>2. next \in CallRecord /\ next.op = call[c].op /\ next.found = call[c].found
  BY <1>1 DEF CallRecord
<1>3. call' = [call EXCEPT ![c] = next]
  BY DEF CallGoes
<1> HIDE DEF next
<1> QED
  BY <1>2, <1>3, GoesStep

LEMMA CallerStep ==
  ASSUME ReapInv, NEW c \in Callers, Begins(c) \/ Caller(c)
  PROVE  ReapInv'
<1>0. CallOK
  BY DEF ReapInv
<1>1. CASE Begins(c)
  <2>1. PICK op \in {"Start", "Stop", "StartAll", "StopAll"}, todo \in SUBSET Processes :
          call' = [call EXCEPT ![c] = Call(op, todo)]
    BY <1>1 DEF Begins, ReapInv, StateInv, ProcessOK
  <2>2. Call(op, todo) \in CallRecord /\ Call(op, todo).found = {}
    BY DEF Call, NoCall, CallRecord
  <2>3. waiter' = waiter
    BY <1>1 DEF Begins, process
  <2>4. CallOK' /\ FoundInv'
    BY <2>1, <2>2, <2>3, GoesStep
  <2>5. StateInv'
    <3>1. calls \in Nat /\ managed \subseteq Processes /\ ctxDone \in BOOLEAN
      BY DEF ReapInv, StateInv, ProcessOK
    <3>2. calls' \in Nat /\ managed' \subseteq Processes
      BY <1>1, <3>1 DEF Begins, Counted
    <3>3. ctxDone' \in BOOLEAN /\ UNCHANGED process /\ UNCHANGED piped
      BY <1>1, <3>1 DEF Begins
    <3> QED
      BY <3>2, <3>3, KeptStep
  <2> QED
    BY <2>4, <2>5 DEF ReapInv
<1>2. CASE Returns(c)
  <2> DEFINE next == [call[c] EXCEPT !.pc = "returned", !.result = IF call[c].failed THEN "err" ELSE "nil"]
  <2>1. next \in CallRecord /\ next.op = call[c].op /\ next.found = call[c].found
    BY ZenonT(60), <1>0 DEF CallOK, CallRecord
  <2>2. call' = [call EXCEPT ![c] = next] /\ waiter' = waiter
    BY <1>2 DEF Returns, process
  <2> HIDE DEF next
  <2>3. CallOK' /\ FoundInv'
    BY <2>1, <2>2, GoesStep
  <2>4. StateInv'
    BY <1>2, StutterIsQuiet, QuietStep DEF Returns
  <2> QED
    BY <2>3, <2>4 DEF ReapInv
<1>3. ASSUME NEW p \in Processes, StartRefused(c, p) \/ StopNotRunning(c, p) \/ StopSucceeds(c, p)
      PROVE  ReapInv'
  <2>1. PICK error \in BOOLEAN : Done(c, p, error)
    BY <1>3 DEF StartRefused, StopNotRunning, StopSucceeds
  <2>2. QuietShells /\ waiter' = waiter
    BY <1>3, StutterIsQuiet DEF StartRefused, StopNotRunning, StopSucceeds, process
  <2>3. call[c].op \in {"Stop", "StopAll"} /\ cmd[p] = "started" => Reaped(p)
    BY <1>3 DEF StartRefused, Starting, StopNotRunning, StopSucceeds, ReapInv, StateInv, ProcessOK, StagesOK, StoppedOK, Running, Reaped
  <2>4. CallOK' /\ FoundInv'
    BY <2>1, <2>2, <2>3, DoneStep DEF Reaped
  <2> QED
    BY <2>2, <2>4, QuietStep DEF ReapInv, StateInv
<1>4. ASSUME NEW p \in Processes, StartFails(c, p) \/ StartSucceeds(c, p)
      PROVE  ReapInv'
  <2>0. ProcessOK /\ StagesOK /\ StoppedOK /\ EndedInv
    BY DEF ReapInv, StateInv
  <2>1. cmd[p] # "started" /\ waiter[p] = "none" /\ call[c].op \in {"Start", "StartAll"}
    BY <1>4, <2>0 DEF StartFails, StartSucceeds, Starting, Refused, StagesOK
  <2>2. PICK error \in BOOLEAN : Done(c, p, error)
    BY <1>4 DEF StartFails, StartSucceeds
  <2>3. CASE StartFails(c, p)
    <3>1. \A q \in Processes : Reaped(q) => Reaped(q)'
      BY <2>3 DEF StartFails, Reaped
    <3>2. ProcessOK'
      BY <2>0, <2>3 DEF StartFails, ProcessOK, States
    <3>3. StagesOK'
      BY <2>0, <2>1, <2>3 DEF StartFails, ProcessOK, StagesOK, Running, States
    <3>4. StoppedOK' /\ EndedInv'
      BY <2>0, <2>3 DEF StartFails, StoppedOK, EndedInv, Reaped
    <3> QED
      BY <2>1, <2>2, <3>1, <3>2, <3>3, <3>4, DoneStep DEF ReapInv, StateInv
  <2>4. CASE StartSucceeds(c, p)
    <3>1. \A q \in Processes : Reaped(q) => Reaped(q)'
      BY <2>0, <2>1, <2>4 DEF StartSucceeds, ProcessOK, Reaped
    <3>2. ProcessOK'
      BY <2>0, <2>4 DEF StartSucceeds, ProcessOK, States
    <3>3. StagesOK'
      BY <2>0, <2>4 DEF StartSucceeds, ProcessOK, StagesOK, Running, States
    <3>4. StoppedOK'
      BY <2>0, <2>1, <2>4 DEF StartSucceeds, ProcessOK, StoppedOK
    <3>5. EndedInv'
      BY <2>0, <2>1, <2>4 DEF StartSucceeds, ProcessOK, EndedInv, Reaped
    <3> QED
      BY <2>1, <2>2, <3>1, <3>2, <3>3, <3>4, <3>5, DoneStep DEF ReapInv, StateInv
  <2> QED
    BY <1>4, <2>3, <2>4
<1>5. ASSUME NEW p \in Processes, StopBegins(c, p)
      PROVE  ReapInv'
  <2> DEFINE next == [call[c] EXCEPT !.at = p, !.pc = "terminate"]
  <2>1. next \in CallRecord /\ next.op = call[c].op /\ next.found = call[c].found
    BY <1>0 DEF CallOK, CallRecord
  <2>2. call' = [call EXCEPT ![c] = next] /\ waiter' = waiter
    BY <1>5 DEF StopBegins, process
  <2> HIDE DEF next
  <2>3. CallOK' /\ FoundInv'
    BY <2>1, <2>2, GoesStep
  <2>4. StateInv'
    BY <1>5, StutterIsQuiet, QuietStep DEF StopBegins
  <2> QED
    BY <2>3, <2>4 DEF ReapInv
<1>6. ASSUME NEW p \in Processes, StopTerminates(c, p)
      PROVE  ReapInv'
  <2>1. QuietShells /\ waiter' = waiter
    BY <1>6, EndIsQuiet, StutterIsQuiet DEF StopTerminates, process
  <2>2. CASE Reaped(p)
    BY <1>6, <2>1, <2>2, DoneStep, QuietStep DEF StopTerminates, Reaped, ReapInv
  <2>3. CASE ~Reaped(p)
    <3>1. CallGoes(c, "await")
      BY <1>6, <2>3 DEF StopTerminates
    <3> QED
      BY <2>1, <3>1, PcStep, QuietStep DEF ReapInv
  <2> QED
    BY <2>2, <2>3
<1>7. ASSUME NEW p \in Processes, StopKills(c, p)
      PROVE  ReapInv'
  <2>1. QuietShells /\ waiter' = waiter /\ CallGoes(c, "killed")
    BY <1>7, EndIsQuiet DEF StopKills
  <2> QED
    BY <2>1, PcStep, QuietStep DEF ReapInv
<1> QED
  BY <1>1, <1>2, <1>3, <1>4, <1>5, <1>6, <1>7 DEF Caller

(* Calls do not change.                                                    *)
LEMMA CallsKept ==
  ASSUME ReapInv, call' = call, \A q \in Processes : Reaped(q) => Reaped(q)'
  PROVE  CallOK' /\ FoundInv'
BY DEF ReapInv, CallOK, CallRecord, FoundInv

(* The goroutine of a process only goes forward.                           *)
LEMMA WaiterStep ==
  ASSUME ReapInv, NEW p \in Processes, Waiter(p)
  PROVE  ReapInv'
<1>1. ProcessOK /\ StagesOK /\ StoppedOK /\ EndedInv
  BY DEF ReapInv, StateInv
<1>2. call' = call /\ \A q \in Processes : Reaped(q) => Reaped(q)'
  BY <1>1 DEF Waiter, Reap, EndOfOutput, RecordEnd, ProcessOK, Reaped
<1>3. ProcessOK'
  BY <1>1 DEF Waiter, Reap, EndOfOutput, RecordEnd, ProcessOK, States
<1>4. EndedInv'
  BY <1>1 DEF Waiter, Reap, EndOfOutput, RecordEnd, ProcessOK, EndedInv, Reaped
<1>5. StagesOK'
  <2>1. CASE Reap(p) \/ EndOfOutput(p)
    BY <1>1, <2>1 DEF Reap, EndOfOutput, ProcessOK, StagesOK, Running
  <2>2. CASE RecordEnd(p)
    BY <1>1, <2>2 DEF RecordEnd, ProcessOK, StagesOK, Running
  <2> QED
    BY <2>1, <2>2 DEF Waiter
<1>6. StoppedOK'
  <2>1. CASE Reap(p) \/ EndOfOutput(p)
    <3>1. stopped' = stopped /\ \A q \in Processes : (waiter'[q] = "done") <=> (waiter[q] = "done")
      BY <1>1, <2>1 DEF Reap, EndOfOutput, ProcessOK
    <3> QED
      BY <1>1, <3>1 DEF StoppedOK
  <2>2. CASE RecordEnd(p)
    BY <1>1, <2>2 DEF RecordEnd, Closed, ProcessOK, StoppedOK
  <2> QED
    BY <2>1, <2>2 DEF Waiter
<1> QED
  BY <1>2, <1>3, <1>4, <1>5, <1>6, CallsKept DEF ReapInv, StateInv

LEMMA SystemStep ==
  ASSUME ReapInv, NEW p \in Processes, System(p) \/ ContextKills(p)
  PROVE  ReapInv'
<1>1. call' = call /\ waiter' = waiter
  BY DEF System, ShellEnds, ShellForks, ChildrenEnd, ContextKills
<1>2. CallOK' /\ FoundInv'
  BY <1>1, CallsKept DEF Reaped
<1>3. CASE ShellEnds(p) \/ ContextKills(p)
  <2>1. QuietShells
    BY <1>3, EndIsQuiet DEF ShellEnds, ContextKills
  <2> QED
    BY <1>2, <2>1, QuietStep DEF ReapInv
<1>4. CASE ShellForks(p) \/ ChildrenEnd(p)
  <2>0. ProcessOK /\ StagesOK /\ StoppedOK /\ EndedInv
    BY DEF ReapInv, StateInv
  <2>1. ProcessOK'
    BY <1>4, <2>0 DEF ShellForks, ChildrenEnd, ProcessOK
  <2>2. StagesOK'
    BY <1>4, <2>0 DEF ShellForks, ChildrenEnd, StagesOK, Running
  <2>3. StoppedOK' /\ EndedInv'
    BY ZenonT(60), <1>4, <2>0 DEF ShellForks, ChildrenEnd, StoppedOK, EndedInv, Reaped
  <2> QED
    BY <1>2, <2>1, <2>2, <2>3 DEF ReapInv, StateInv
<1> QED
  BY <1>3, <1>4 DEF System

LEMMA ReapStep == ReapInv /\ [RawNext]_rawVars => ReapInv'
<1> SUFFICES ASSUME ReapInv, [RawNext]_rawVars PROVE ReapInv'
  OBVIOUS
<1>0. managed \subseteq Processes /\ calls \in Nat /\ ctxDone \in BOOLEAN
  BY DEF ReapInv, StateInv, ProcessOK
<1>1. ASSUME NEW p \in Processes, Add(p) \/ Remove(p)
      PROVE  ReapInv'
  <2>1. call' = call /\ waiter' = waiter
    BY <1>1 DEF Add, Remove, process
  <2>2. StateInv'
    BY <1>0, <1>1, KeptStep DEF Add, Remove, Counted
  <2> QED
    BY <2>1, <2>2, CallsKept DEF ReapInv, Reaped
<1>2. CASE CancelContext \/ UNCHANGED rawVars
  <2>1. call' = call /\ waiter' = waiter
    BY <1>2 DEF CancelContext, rawVars, process
  <2>2. StateInv'
    BY <1>0, <1>2, KeptStep DEF CancelContext, rawVars
  <2> QED
    BY <2>1, <2>2, CallsKept DEF ReapInv, Reaped
<1> QED
  BY <1>1, <1>2, CallerStep, WaiterStep, SystemStep DEF RawNext

(* Variables keep their types, the recorded state and the goroutine belong *)
(* together, and when Stop or StopAll has returned nil, the shell of every *)
(* process they found started has ended and has been waited for.           *)
THEOREM ShellsReaped == RawSpec => []ShellsAreReaped
<1>1. ReapInv => ShellsAreReaped
  BY DEF ReapInv, StateInv, CallOK, CallRecord, EndedInv, FoundInv, ShellsAreReaped, RawTypeOK, StopMeansReaped, Alive
<1> QED
  BY <1>1, ReapInit, ReapStep, PTL DEF RawSpec
=============================================================================
