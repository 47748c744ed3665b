--------------------------- MODULE Configuration ---------------------------
(***************************************************************************)
(* The configuration of the containers of one service and the hash they    *)
(* are labelled with (pkg/compose/create.go, hash.go, and mustRecreate of  *)
(* convergence.go).  All that works on a service shares the project object *)
(* of the process: its Deploy, network settings and driver options are     *)
(* behind pointers, and three of the functions that read them write to     *)
(* them: ServiceHash, prepareContainerMACAddress, createEndpointSettings.  *)
(* The replicas of a service are created by goroutines of their own.       *)
(***************************************************************************)
EXTENDS Integers, FiniteSets, FiniteSetsExt

CONSTANTS Scale,    \* Replicas the compose file asks for
          MaxRuns,  \* Bound: creations, in the same process or in a new one
          MaxEdits  \* Bound: changes of the compose file

ASSUME ScaleAssumption == Scale \in Nat \ {0}

VARIABLES
  file,       \* The service as the compose file has it
  object,     \* What the process's project object has of it
  containers, \* Containers by number: configuration and label
  undecided,  \* Containers ensureService has not come to
  routine,    \* Where the goroutine for a number is
  label,      \* The hash it has computed
  command,    \* "none" (no process), "loaded", "converge", "ended" or "failed"
  policy,     \* Of the running creation: "diverged" or "force"
  runs, edits,\* Creations and edits so far
  fresh,      \* The creation is the first of its process
  needless    \* Containers recreated as diverged that were made from this very file

vars == <<file, object, containers, undecided, routine, label, command, policy, runs, edits, fresh, needless>>

Numbers == 1..Scale

(* The address of the service, the settings of its main network (none at   *)
(* all, or with an address or not), an interface name, driver options, and *)
(* whether the replicas are given by scale or by deploy.replicas.          *)
Files ==
  {f \in [mac : {"", "one"}, settings : BOOLEAN, networkMac : {"", "one", "two"},
          ifname : BOOLEAN, options : BOOLEAN, deploy : BOOLEAN] :
     f.settings \/ (f.networkMac = "" /\ ~f.ifname /\ ~f.options)}

Loaded(f) == [mac |-> f.networkMac, ifoption |-> FALSE, replicas |-> f.deploy]

(* Mutant: with the replicas.                                              *)
BugHash(f, o) == [mac |-> f.mac, settings |-> f.settings, networkMac |-> o.mac,
                  ifname |-> f.ifname, options |-> f.options, ifoption |-> o.ifoption, deploy |-> o.replicas]

(* ServiceHash marshals the service without its replicas.                  *)
Hash(f, o) == [mac |-> f.mac, settings |-> f.settings, networkMac |-> o.mac,
               ifname |-> f.ifname, options |-> f.options, ifoption |-> o.ifoption, deploy |-> f.deploy]

(* ... and clears them in the project.                                     *)
Hashed(o) == [o EXCEPT !.replicas = FALSE]

None == [request |-> "none"]

(* Mutant: of the network alone.                                           *)
BugRequest(f, o) == [mac |-> o.mac, ifname |-> f.ifname]

(* What the engine is asked for on the main network: its own address, else *)
(* that of the service.                                                    *)
Request(f, o) == [mac |-> IF o.mac # "" THEN o.mac ELSE f.mac, ifname |-> f.ifname]

Init ==
  /\ file \in Files
  /\ object = Loaded(file)
  /\ containers = [n \in Numbers |-> None]
  /\ undecided = {}
  /\ routine = [n \in Numbers |-> "none"]
  /\ label = [n \in Numbers |-> None]
  /\ command = "none"
  /\ policy = "diverged"
  /\ runs = 0 /\ edits = 0
  /\ fresh = TRUE
  /\ needless = {}

Existing == {n \in Numbers : containers[n] # None}

----------------------------------------------------------------------------
(* The user edits the compose file between two processes; a process loads  *)
(* it once.                                                                *)
EditFile ==
  /\ command = "none"
  /\ edits < MaxEdits
  /\ edits' = edits + 1
  /\ file' \in Files \ {file}
  /\ needless' = {}
  /\ UNCHANGED <<object, containers, undecided, routine, label, command, policy, runs, fresh>>

LoadProject ==
  /\ command = "none"
  /\ runs < MaxRuns
  /\ object' = Loaded(file)
  /\ fresh' = TRUE
  /\ command' = "loaded"
  /\ UNCHANGED <<file, containers, undecided, routine, label, policy, runs, edits, needless>>

Exit ==
  /\ command \in {"ended", "failed"}
  /\ \A n \in Numbers : routine[n] = "none"
  /\ command' = "none"
  /\ UNCHANGED <<file, object, containers, undecided, routine, label, policy, runs, edits, fresh, needless>>

(* Mutant: the pointer that ServiceHash clears is read for either.         *)
BugExpected == IF object.replicas THEN Scale ELSE 1

(* GetScale: scale, else deploy.replicas, else one.                        *)
Expected == IF file.deploy /\ ~object.replicas THEN 1 ELSE Scale

(* up, then again for a rebuild of watch, in the same process.  Surplus    *)
(* containers are removed; Convergence has the order in which.             *)
BeginCreate ==
  /\ command \in {"loaded", "ended"}
  /\ runs < MaxRuns
  /\ runs' = runs + 1
  /\ policy' \in {"diverged", "force"}
  /\ command' = "converge"
  /\ fresh' = (command = "loaded")
  /\ \E kept \in {S \in SUBSET Existing : Cardinality(S) = Min({Expected, Cardinality(Existing)})} :
       /\ containers' = [n \in Numbers |-> IF n \in kept THEN containers[n] ELSE None]
       /\ undecided' = kept
       /\ routine' = [n \in Numbers |-> "none"]
       /\ label' = [n \in Numbers |-> IF n \notin kept /\ n <= Expected THEN [request |-> "wanted"] ELSE None]
  /\ UNCHANGED <<file, object, edits, needless>>

(* mustRecreate, without the changes of images, networks and volumes.      *)
MustRecreate(n) == policy = "force" \/ containers[n].label # Hash(file, object)

(* The loop over the containers, by number, goes on while goroutines work. *)
Decide ==
  /\ command = "converge"
  /\ \E n \in undecided :
       /\ \A m \in undecided : n <= m
       /\ undecided' = undecided \ {n}
       /\ routine' = IF MustRecreate(n) THEN [routine EXCEPT ![n] = "label"] ELSE routine
       /\ needless' = IF MustRecreate(n) /\ policy = "diverged" /\ containers[n].file = file
                      THEN needless \cup {n} ELSE needless
  /\ object' = IF policy = "diverged" THEN Hashed(object) ELSE object
  /\ UNCHANGED <<file, containers, label, command, policy, runs, edits, fresh>>

Missing == {n \in Numbers : label[n] = [request |-> "wanted"]}

LaunchMissing ==
  /\ command = "converge"
  /\ undecided = {}
  /\ Missing # {}
  /\ routine' = [n \in Numbers |-> IF n \in Missing THEN "label" ELSE routine[n]]
  /\ label' = [n \in Numbers |-> IF n \in Missing THEN None ELSE label[n]]
  /\ UNCHANGED <<file, object, containers, undecided, command, policy, runs, edits, fresh, needless>>

----------------------------------------------------------------------------
(* getCreateConfigs, in the goroutine for a number.                        *)

PrepareLabels(n) ==
  /\ routine[n] = "label"
  /\ label' = [label EXCEPT ![n] = Hash(file, object)]
  /\ object' = Hashed(object)
  /\ routine' = [routine EXCEPT ![n] = "address"]
  /\ UNCHANGED <<file, containers, undecided, command, policy, runs, edits, fresh, needless>>

AddressConflict == file.settings /\ file.mac # "" /\ object.mac \notin {"", file.mac}

(* prepareContainerMACAddress moves the service's address to the network.  *)
PrepareMACAddress(n) ==
  /\ routine[n] = "address"
  /\ IF AddressConflict
     THEN /\ command' = "failed"
          /\ routine' = [routine EXCEPT ![n] = "none"]
          /\ undecided' = {}
          /\ UNCHANGED object
     ELSE /\ object' = IF file.settings /\ object.mac = "" THEN [object EXCEPT !.mac = file.mac] ELSE object
          /\ routine' = [routine EXCEPT ![n] = "create"]
          /\ UNCHANGED <<command, undecided>>
  /\ UNCHANGED <<file, containers, label, policy, runs, edits, fresh, needless>>

(* createEndpointSettings writes the interface name into the options there *)
(* are, and the container is created from the request.                     *)
CreateContainer(n) ==
  /\ routine[n] = "create"
  /\ object' = IF file.ifname /\ file.options THEN [object EXCEPT !.ifoption = TRUE] ELSE object
  /\ containers' = [containers EXCEPT ![n] =
       [request |-> Request(file, object), label |-> label[n], file |-> file]]
  /\ label' = [label EXCEPT ![n] = None]
  /\ routine' = [routine EXCEPT ![n] = "none"]
  /\ UNCHANGED <<file, undecided, command, policy, runs, edits, fresh, needless>>

EndCreate ==
  /\ command = "converge"
  /\ undecided = {} /\ Missing = {}
  /\ \A n \in Numbers : routine[n] = "none"
  /\ command' = "ended"
  /\ UNCHANGED <<file, object, containers, undecided, routine, label, policy, runs, edits, fresh, needless>>

Next ==
  \/ EditFile \/ LoadProject \/ Exit \/ BeginCreate \/ Decide \/ LaunchMissing \/ EndCreate
  \/ \E n \in Numbers : PrepareLabels(n) \/ PrepareMACAddress(n) \/ CreateContainer(n)

Spec == Init /\ [][Next]_vars

----------------------------------------------------------------------------
(* Variables keep their types.                                             *)
TypeOK ==
  /\ file \in Files
  /\ object \in [mac : {"", "one", "two"}, ifoption : BOOLEAN, replicas : BOOLEAN]
  /\ undecided \subseteq Existing /\ needless \subseteq Numbers
  /\ \A n \in Numbers : routine[n] \in {"none", "label", "address", "create"}
  /\ \A n \in Existing : containers[n].file \in Files

Ended == command = "ended"

Declared(f) == [mac |-> IF f.networkMac # "" THEN f.networkMac ELSE f.mac, ifname |-> f.ifname]

(* When a creation has ended every container is as the compose file says   *)
(* now, whatever the object went through and whichever replica wrote to it *)
(* first.                                                                  *)
AsDeclared == Ended => \A n \in Existing : containers[n].request = Declared(file)

(* The first creation of a process leaves the replicas asked for; a later  *)
(* one too where they are given by scale.                                  *)
ScaleReached == Ended /\ (fresh \/ ~file.deploy) => Cardinality(Existing) = Scale

(* No container is recreated as diverged from the file it was made from,   *)
(* unless the address moves to the network's settings or the interface     *)
(* name to its options.                                                    *)
Moves == (file.settings /\ file.mac # "" /\ file.networkMac = "") \/ (file.ifname /\ file.options)

NeedlessOnlyIfMoved == needless # {} => Moves

(* Variables keep their types, all replicas asked for are there, and       *)
(* replicas are recreated without need only for services whose address or  *)
(* interface name the first of them moves.                                 *)
ReplicasAreRight == TypeOK /\ ScaleReached /\ NeedlessOnlyIfMoved

(* pkg/api/api.go: "RecreateDiverged to recreate services which            *)
(* configuration diverges from compose model": no other is recreated.      *)
OnlyDivergedRecreated == needless = {}

(* pkg/compose/hash.go: "ServiceHash computes the configuration hash for a *)
(* service", which leaves the service as it is: a rebuild in the same      *)
(* process ends with the replicas asked for.                               *)
SessionKeepsScale == Ended => Cardinality(Existing) = Scale
=============================================================================
