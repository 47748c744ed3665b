-------------------------- MODULE RemoteResources --------------------------
(***************************************************************************)
(* Compose files from a git repository (pkg/remote/git.go) or a registry   *)
(* (pkg/remote/oci.go).  What is loaded is kept in a cache, in a directory *)
(* named by the commit or digest, which processes share and which counts   *)
(* as complete once it is there.  (Offline no loader is created:           *)
(* loader.go:72.)                                                          *)
(***************************************************************************)
EXTENDS Naturals, Sequences

CONSTANTS MaxLoads,  \* Bound: loads of a process
          MaxCrashes \* Bound: processes killed

Loaders  == {1, 2}        \* Processes
Versions == {1, 2}        \* What the name refers to, now and later
Files    == <<"compose.yaml", "override">> \* Of a version, in the order they are written
NoDir    == [made |-> FALSE, remote |-> FALSE, files |-> <<>>]

VARIABLES
  scheme,  \* "git" or "oci"
  head,    \* The version the name refers to
  cache,   \* The directory for a version
  pc,      \* Where a process is in Load
  local,   \* The version it has resolved
  written, \* Files it has written
  known,   \* g.known: the version loaded before, or 0
  loads,   \* Loads begun
  faulted, \* This load has met a failure of the network
  found,   \* What the loader has got: files, or <<>>
  outcome, \* "none", "file" or "err"
  faults,  \* There has been a failure of the network
  crashes,
  shared,  \* Versions a process has looked for while another was loading them
  spoilt   \* Versions whose directory a process was killed while it filled it

vars == <<scheme, head, cache, pc, local, written, known, loads, faulted, found,
          outcome, faults, crashes, shared, spoilt>>

Init ==
  /\ scheme = "none" /\ head = 1 /\ cache = [v \in Versions |-> NoDir]
  /\ pc = [p \in Loaders |-> "idle"] /\ local = [p \in Loaders |-> 0]
  /\ written = [p \in Loaders |-> 0] /\ known = [p \in Loaders |-> 0]
  /\ loads = [p \in Loaders |-> 0] /\ faulted = [p \in Loaders |-> FALSE]
  /\ found = [p \in Loaders |-> <<>>] /\ outcome = [p \in Loaders |-> "none"]
  /\ faults = FALSE /\ crashes = 0 /\ shared = {} /\ spoilt = {}

Choose ==
  /\ scheme = "none"
  /\ scheme' \in {"git", "oci"}
  /\ UNCHANGED <<head, cache, pc, local, written, known, loads, faulted, found, outcome, faults, crashes, shared, spoilt>>

Goto(p, l) == pc' = [pc EXCEPT ![p] = l]
Ends(p, r) == Goto(p, "idle") /\ outcome' = [outcome EXCEPT ![p] = r]

(* Load.  The second time the process knows where the files are.           *)
Load(p) ==
  /\ scheme # "none" /\ pc[p] = "idle" /\ loads[p] < MaxLoads
  /\ loads' = [loads EXCEPT ![p] = @ + 1]
  /\ faulted' = [faulted EXCEPT ![p] = FALSE]
  /\ found' = [found EXCEPT ![p] = <<>>]
  /\ outcome' = [outcome EXCEPT ![p] = "none"]
  /\ local' = [local EXCEPT ![p] = known[p]]
  /\ Goto(p, IF known[p] # 0 THEN "read" ELSE "resolve")
  /\ UNCHANGED <<scheme, head, cache, written, known, faults, crashes, shared, spoilt>>

AtWork(v) == \E p \in Loaders : local[p] = v /\ pc[p] \in {"make", "remote", "write"}

(* resolveGitRef asks the repository, oci.Get the registry.  Then the      *)
(* directory is looked for.                                                *)
Resolve(p) ==
  /\ pc[p] = "resolve"
  /\ local' = [local EXCEPT ![p] = head]
  /\ written' = [written EXCEPT ![p] = 0]
  /\ IF cache[head].made THEN Goto(p, "read") /\ known' = [known EXCEPT ![p] = head]
     ELSE Goto(p, "make") /\ UNCHANGED known
  /\ shared' = shared \cup {v \in {head} : AtWork(v)}
  /\ UNCHANGED <<scheme, head, cache, loads, faulted, found, outcome, faults, crashes, spoilt>>

(* checkout and pullComposeFiles make the directory.                       *)
Make(p) ==
  /\ pc[p] = "make"
  /\ cache' = [cache EXCEPT ![local[p]].made = TRUE]
  /\ Goto(p, IF scheme = "git" THEN "remote" ELSE "write")
  /\ UNCHANGED <<scheme, head, local, written, known, loads, faulted, found, outcome, faults, crashes, shared, spoilt>>

(* git remote add fails if another process has done so.                    *)
AddRemote(p) ==
  /\ pc[p] = "remote"
  /\ IF cache[local[p]].remote THEN Ends(p, "err") /\ UNCHANGED cache
     ELSE /\ cache' = [cache EXCEPT ![local[p]].remote = TRUE]
          /\ Goto(p, "write") /\ UNCHANGED outcome
  /\ UNCHANGED <<scheme, head, local, written, known, loads, faulted, found, faults, crashes, shared, spoilt>>

(* A layer is appended to its file, a file of a commit is written anew.    *)
Put(p, dir) ==
  [dir EXCEPT !.files = IF scheme = "git" /\ Len(@) > written[p] THEN @ ELSE Append(@, Files[written[p] + 1])]

Write(p) ==
  /\ pc[p] = "write" /\ written[p] < Len(Files) /\ cache[local[p]].made
  /\ cache' = [cache EXCEPT ![local[p]] = Put(p, @)]
  /\ written' = [written EXCEPT ![p] = @ + 1]
  /\ UNCHANGED <<scheme, head, pc, local, known, loads, faulted, found, outcome, faults, crashes, shared, spoilt>>

Written(p) ==
  /\ pc[p] = "write" /\ written[p] = Len(Files)
  /\ known' = [known EXCEPT ![p] = local[p]]
  /\ Goto(p, "read")
  /\ UNCHANGED <<scheme, head, cache, local, written, loads, faulted, found, outcome, faults, crashes, shared, spoilt>>

(* Mutant: the directory of an artifact is left there too.                 *)
BugCleanUp(p) == FALSE

(* When it fails, the directory of an artifact is removed; that of a       *)
(* commit is not.                                                          *)
CleanUp(p) == scheme = "oci" /\ pc[p] = "write"

(* The network, or the removal of the directory by another process.  git   *)
(* fetches all before it writes a file.                                    *)
Fail(p) ==
  /\ pc[p] = "resolve" \/ (pc[p] = "write" /\ (scheme = "git" => written[p] = 0))
  /\ \/ faulted' = [faulted EXCEPT ![p] = TRUE] /\ faults' = TRUE
     \/ pc[p] = "write" /\ ~cache[local[p]].made /\ UNCHANGED <<faulted, faults>>
  /\ cache' = IF CleanUp(p) THEN [cache EXCEPT ![local[p]] = NoDir] ELSE cache
  /\ Ends(p, "err")
  /\ UNCHANGED <<scheme, head, local, written, known, loads, found, crashes, shared, spoilt>>

(* The file that Load returns is looked for and read.                      *)
Read(p) ==
  /\ pc[p] = "read"
  /\ found' = [found EXCEPT ![p] = cache[local[p]].files]
  /\ Ends(p, IF found'[p] = <<>> THEN "err" ELSE "file")
  /\ UNCHANGED <<scheme, head, cache, local, written, known, loads, faulted, faults, crashes, shared, spoilt>>

(* A process is killed, or ends: the next one knows nothing.               *)
Crash(p) ==
  /\ pc[p] # "idle" /\ crashes < MaxCrashes
  /\ crashes' = crashes + 1
  /\ spoilt' = spoilt \cup {v \in {local[p]} : pc[p] \in {"remote", "write"}}
  /\ known' = [known EXCEPT ![p] = 0] /\ Ends(p, "none")
  /\ UNCHANGED <<scheme, head, cache, local, written, loads, faulted, found, faults, shared>>

Exit(p) ==
  /\ pc[p] = "idle" /\ loads[p] > 0
  /\ known' = [known EXCEPT ![p] = 0]
  /\ UNCHANGED <<scheme, head, cache, pc, local, written, loads, faulted, found, outcome, faults, crashes, shared, spoilt>>

Publish ==
  /\ scheme # "none" /\ head = 1 /\ head' = 2
  /\ UNCHANGED <<scheme, cache, pc, local, written, known, loads, faulted, found, outcome, faults, crashes, shared, spoilt>>

Next ==
  \/ Choose \/ Publish
  \/ \E p \in Loaders :
       Load(p) \/ Resolve(p) \/ Make(p) \/ AddRemote(p) \/ Write(p) \/ Written(p)
         \/ Fail(p) \/ Read(p) \/ Crash(p) \/ Exit(p)

Spec == Init /\ [][Next]_vars

----------------------------------------------------------------------------
(* Variables keep their types.                                             *)
TypeOK ==
  /\ pc \in [Loaders -> {"idle", "resolve", "make", "remote", "write", "read"}]
  /\ local \in [Loaders -> {0} \cup Versions] /\ known \in [Loaders -> {0} \cup Versions]
  /\ outcome \in [Loaders -> {"none", "file", "err"}]
  /\ \A v \in Versions : cache[v].files # <<>> => cache[v].made

Complete(v) == cache[v].files = Files

(* A directory that is there and that nobody fills is complete: a failure  *)
(* leaves none that is not, but in git.  (A process killed while it fills  *)
(* one leaves that one, and two that load an artifact at once append to    *)
(* the same files.)                                                        *)
CacheIsComplete ==
  \A v \in Versions : cache[v].made /\ ~AtWork(v) =>
    Complete(v) \/ v \in spoilt \/ (scheme = "git" /\ faults) \/ (scheme = "oci" /\ v \in shared)

(* What is loaded is all of a version, whoever has been killed elsewhere;  *)
(* not so for a process that finds a directory another one is filling, or  *)
(* has been killed while filling.                                          *)
LoadedIsWhole ==
  \A p \in Loaders : outcome[p] = "file" =>
    found[p] = Files \/ local[p] \in spoilt \cup shared
GitIsNeverDoubled == scheme = "git" => \A p \in Loaders : Len(found[p]) <= Len(Files)

(* A process that loads a version by itself, where none has been killed    *)
(* while it filled the directory, fails only if the network did, now or,   *)
(* with git, before.                                                       *)
ErrorsHaveCauses ==
  \A p \in Loaders : outcome[p] = "err" =>
    faulted[p] \/ local[p] \in spoilt \cup shared \/ (scheme = "git" /\ faults)

RemoteIsRight ==
  /\ TypeOK /\ CacheIsComplete /\ LoadedIsWhole /\ GitIsNeverDoubled /\ ErrorsHaveCauses

(* "we need to clean up the directory to be sure we won't let empty files  *)
(* present" (pkg/remote/oci.go).  (A killed process does not.)             *)
NothingPartial == \A p \in Loaders : outcome[p] = "file" => Len(found[p]) >= Len(Files)

(* "When using git resources, Compose will clone the repository and use    *)
(* the specified Compose file" (docs/reference/compose.md:174).  (Once a   *)
(* fetch has failed it does neither, for that commit.)                     *)
ClonedAndUsed == \A p \in Loaders : outcome[p] = "err" => faulted[p]
=============================================================================
