---------------------------- MODULE SharedEngine ----------------------------
(***************************************************************************)
(* Networks, volumes and containers of one project, and the commands up    *)
(* and down that share them: create and its ensureNetwork and ensureVolume *)
(* (pkg/compose/create.go), then start, and down (pkg/compose/down.go).    *)
(*                                                                         *)
(* Nothing keeps two commands on one project apart, and a command may die  *)
(* between any two calls of the engine: what protects the project are the  *)
(* engine's refusals and what the next command makes of the leftovers.     *)
(*                                                                         *)
(* A step is one call to the engine.  The project has one network and one  *)
(* volume, and every container, a service's or an orphan's, uses both.     *)
(* How one container is replaced is the subject of Convergence, and the    *)
(* order of the services that of GraphTraversal: here they are one step,   *)
(* and any order.  A container is known by its name, where the code has an *)
(* ID; down stops and removes one in one step.                             *)
(***************************************************************************)
EXTENDS Integers, FiniteSets

CONSTANTS Commands,    \* Processes that run one command after the other
          Services,    \* Services of the project, one container each
          Orphans,     \* Services with a container that the project no longer has
          Configs,     \* Configurations (hashes) of the network, and of the volume
          MaxCommands, \* Bound: commands begun
          Deaths       \* Bound: commands that are killed, or fail on an error of the engine

ASSUME NamesAssumption == Services \cap Orphans = {}
ASSUME BoundsAssumption == MaxCommands \in Nat /\ Deaths \in Nat
ASSUME CommandsAssumption == "none" \notin Commands /\ "several" \notin Commands

VARIABLES
  network,  \* The engine's network of that name: its id, 0 when there is none, and hash
  volume,   \* Likewise; the id stands for the data
  ctr,      \* The engine's containers: state, endpoint and whether it has the service's aliases
  cmd,      \* The commands: options, the call to do next and what they remember
  nextID,   \* The next network or volume gets this id
  begun,    \* Commands begun so far
  deaths,   \* Commands killed or failed by the engine so far
  period,   \* Since no command ran: what was asked, by all the same, all returned nil, who
            \* began if only one did, and whether one failed to create the network
  adrift    \* Containers on no network that no command of the period will put back

engine == <<network, volume, ctr, nextID>>
vars   == <<engine, cmd, begun, deaths, period, adrift>>

Names == Services \cup Orphans
None  == 0     \* No network, no volume, or an endpoint that was disconnected
ByName == -1   \* The endpoint of a container that has not started: its network's name

NoNetwork == [id |-> None, hash |-> "none"]
NoVolume  == [id |-> None, hash |-> "none"]
NoContainer == [state |-> "none", endpoint |-> None, aliases |-> FALSE]
NewContainer == [state |-> "created", endpoint |-> ByName, aliases |-> TRUE]

Exist   == {n \in Names : ctr[n].state # "none"}
Running == {n \in Names : ctr[n].state = "running"}
Attached == {n \in Running : ctr[n].endpoint = network.id}
OffNetwork == {n \in Exist \ Running : ctr[n].endpoint = None}

Wants == [kind : {"up"}, network : Configs, volume : Configs, confirms : BOOLEAN,
          removeVolumes : {FALSE}, removeOrphans : BOOLEAN]
    \cup [kind : {"down"}, network : {"any"}, volume : {"any"}, confirms : {FALSE},
          removeVolumes : BOOLEAN, removeOrphans : BOOLEAN]

UpCalls == {"inspect network", "stop for network", "disconnect", "remove network",
            "list networks", "create network", "connect", "inspect volume",
            "stop for volume", "remove for volume", "remove volume", "create volume",
            "list", "remove orphans", "converge", "list to start", "start"}
DownCalls == {"list", "remove", "resources"}
Ended == {"none", "ok", "failed", "died"}

Idle(c) == [want |-> [kind |-> "none"], at |-> c, todo |-> {}, dangled |-> {}, missing |-> {},
            diverged |-> {}, networkID |-> None, retried |-> FALSE]
Active == {c \in Commands : cmd[c].at \notin Ended}

(* No network and no volume, or those of some configuration, without the   *)
(* label of the hash, or a network that is labelled as another; the        *)
(* orphan's container is what an earlier compose file left.                *)
Init ==
  /\ \E hash \in Configs \cup {"none", "foreign"}, left \in BOOLEAN :
       /\ network = IF left THEN [id |-> 1, hash |-> hash] ELSE NoNetwork
       /\ volume = IF left /\ hash # "foreign" THEN [id |-> 1, hash |-> hash] ELSE NoVolume
       /\ ctr = [n \in Names |-> IF left /\ n \in Orphans
                                 THEN [state |-> "running", endpoint |-> 1, aliases |-> TRUE]
                                 ELSE NoContainer]
  /\ cmd = [c \in Commands |-> Idle("none")]
  /\ nextID = 2
  /\ begun = 0
  /\ deaths = 0
  /\ period = [want |-> [kind |-> "none"], same |-> TRUE, ok |-> FALSE, first |-> "none", lost |-> FALSE]
  /\ adrift = {}

(* What is off the network when the period begins was left so by a command *)
(* that failed or died; up starts it as it is.                             *)
Begin(c) ==
  \E want \in Wants :
    /\ cmd[c].at \in Ended
    /\ begun < MaxCommands
    /\ begun' = begun + 1
    /\ cmd' = [cmd EXCEPT ![c] = [Idle("none") EXCEPT
                 !.want = want, !.at = IF want.kind = "up" THEN "inspect network" ELSE "list"]]
    /\ period' = IF Active = {}
                 THEN [want |-> want, same |-> TRUE, ok |-> TRUE, first |-> c, lost |-> FALSE]
                 ELSE [period EXCEPT !.same = @ /\ period.want = want, !.first = "several"]
    /\ adrift' = IF Active = {} THEN OffNetwork ELSE adrift
    /\ UNCHANGED <<engine, deaths>>

----------------------------------------------------------------------------
(* The way a command goes on.                                              *)

At(c, kind, call) == cmd[c].want.kind = kind /\ cmd[c].at = call

HasNetwork(c, id, call, todo) ==
  cmd' = [cmd EXCEPT ![c].at = call, ![c].todo = todo, ![c].networkID = id]
Goes(c, call, todo) == cmd' = [cmd EXCEPT ![c].at = call, ![c].todo = todo]
Does(c, name) == cmd' = [cmd EXCEPT ![c].todo = @ \ {name}]

Quiet == UNCHANGED <<begun, deaths, period, adrift>>

(* The network's name was taken by another command of the period: this one *)
(* does not put back what it disconnected.                                 *)
Forgets(c) ==
  /\ adrift' = IF period.first \in Commands THEN adrift ELSE adrift \cup (cmd[c].dangled \cap OffNetwork)
  /\ UNCHANGED <<begun, deaths, period>>

Fails(c) ==
  /\ cmd' = [cmd EXCEPT ![c] = Idle("failed")]
  /\ period' = [period EXCEPT !.ok = FALSE, !.lost = @ \/ cmd[c].at = "create network"]
  /\ UNCHANGED <<engine, begun, deaths, adrift>>

Succeeds(c) ==
  /\ cmd' = [cmd EXCEPT ![c] = Idle("ok")]
  /\ UNCHANGED <<engine, begun, deaths, period, adrift>>

(* The process is killed, or the engine answers a call with an error.      *)
Dies(c) ==
  /\ c \in Active
  /\ deaths < Deaths
  /\ deaths' = deaths + 1
  /\ cmd' = [cmd EXCEPT ![c] = Idle("died")]
  /\ period' = [period EXCEPT !.ok = FALSE]
  /\ UNCHANGED <<engine, begun, adrift>>

(* The call that comes next, without a call to the engine: a loop is done. *)
Then(c, kind, call, next, todo) ==
  /\ At(c, kind, call)
  /\ cmd[c].todo = {}
  /\ Goes(c, next, todo)
  /\ UNCHANGED engine
  /\ Quiet

OnContainers(S, change(_)) ==
  /\ ctr' = [n \in Names |-> IF n \in S THEN change(ctr[n]) ELSE ctr[n]]
  /\ UNCHANGED <<network, volume, nextID>>
  /\ Quiet

(* The container of a loop's list that the next call is about: OK says     *)
(* when the engine obliges, change what becomes of the container.  Another *)
(* answer, NotFound or Conflict, is the command's error.                   *)
ForEach(c, kind, call, OK(_), change(_)) ==
  \E n \in cmd[c].todo :
    /\ At(c, kind, call)
    /\ IF OK(n) THEN Does(c, n) /\ OnContainers({n}, change) ELSE Fails(c)

Exists(n)     == n \in Exist
Stopped(k)    == IF k.state = "running" THEN [k EXCEPT !.state = "exited"] ELSE k
Removed(k)    == NoContainer

----------------------------------------------------------------------------
(* up: ensureNetwork.                                                      *)

(* A network of that name with the wanted hash, or with none, is it; one   *)
(* with the label of another is an error; for one that diverged the        *)
(* containers are stopped first, as stop lists them.                       *)
InspectNetwork(c) ==
  /\ At(c, "up", "inspect network")
  /\ IF network.hash = "foreign"
     THEN Fails(c)
     ELSE /\ CASE network.id = None -> Goes(c, "list networks", {})
               [] network.id # None /\ network.hash \in {"none", cmd[c].want.network} ->
                    HasNetwork(c, network.id, "inspect volume", {})
               [] OTHER -> Goes(c, "stop for network", Services \cap Exist)
          /\ UNCHANGED engine
          /\ Quiet

StopForNetwork(c) == ForEach(c, "up", "stop for network", Exists, Stopped)

(* removeDivergedNetwork lists the containers again, once all are stopped. *)
ListToDisconnect(c) ==
  /\ At(c, "up", "stop for network")
  /\ cmd[c].todo = {}
  /\ LET listed == Services \cap Exist
     IN  cmd' = [cmd EXCEPT ![c].at = "disconnect", ![c].todo = listed, ![c].dangled = listed]
  /\ UNCHANGED engine
  /\ Quiet

Connected(n)    == n \in Exist /\ network.id # None /\ ctr[n].endpoint \in {network.id, ByName}
Disconnected(k) == [k EXCEPT !.endpoint = None, !.aliases = FALSE]

Disconnect(c)   == ForEach(c, "up", "disconnect", Connected, Disconnected)
DisconnectedAll(c) == Then(c, "up", "disconnect", "remove network", {})

(* By its name, whichever network has it now; not while running containers *)
(* are attached.                                                           *)
RemoveNetwork(c) ==
  /\ At(c, "up", "remove network")
  /\ IF network.id # None /\ Attached = {}
     THEN /\ network' = NoNetwork
          /\ Goes(c, "list networks", {})
          /\ UNCHANGED <<volume, ctr, nextID>>
          /\ Quiet
     ELSE Fails(c)

(* A network of that name that is there by now is taken as it is.          *)
ListNetworks(c) ==
  /\ At(c, "up", "list networks")
  /\ IF network.id # None
     THEN HasNetwork(c, network.id, "inspect volume", {}) /\ Forgets(c)
     ELSE Goes(c, "create network", {}) /\ Quiet
  /\ UNCHANGED engine

BugCreateNetwork(c) ==
  /\ At(c, "up", "create network")
  /\ network.id = None
  /\ network' = [id |-> nextID, hash |-> cmd[c].want.kind]
  /\ nextID' = nextID + 1
  /\ HasNetwork(c, nextID, "connect", cmd[c].dangled)
  /\ UNCHANGED <<volume, ctr>>
  /\ Quiet

CreateNetwork(c) ==
  /\ At(c, "up", "create network")
  /\ network.id = None
  /\ network' = [id |-> nextID, hash |-> cmd[c].want.network]
  /\ nextID' = nextID + 1
  /\ HasNetwork(c, nextID, "connect", cmd[c].dangled)
  /\ UNCHANGED <<volume, ctr>>
  /\ Quiet

BugNetworkNameTaken(c) ==
  /\ At(c, "up", "create network")
  /\ network.id # None
  /\ Fails(c)

(* Another command took the name: the whole resolution is done once more,  *)
(* without the containers that this one disconnected.                      *)
NetworkNameTaken(c) ==
  /\ At(c, "up", "create network")
  /\ network.id # None
  /\ IF cmd[c].retried
     THEN Fails(c)
     ELSE /\ cmd' = [cmd EXCEPT ![c].at = "inspect network", ![c].dangled = {}, ![c].retried = TRUE]
          /\ UNCHANGED engine
          /\ Forgets(c)

(* Without an endpoint configuration: the aliases are not given again.     *)
CanConnect(n) == n \in Exist /\ network.id # None
Reconnected(k) == [k EXCEPT !.endpoint = network.id, !.aliases = FALSE]

Connect(c)   == ForEach(c, "up", "connect", CanConnect, Reconnected)
ConnectedAll(c) == Then(c, "up", "connect", "inspect volume", {})

----------------------------------------------------------------------------
(* up: ensureVolume.                                                       *)

(* A volume without a hash is taken as it is, and so is one that diverged  *)
(* unless the user agrees to lose the data.                                *)
VolumeDiverged(c) == volume.id # None /\ volume.hash \notin {cmd[c].want.volume, "none"}

BugInspectVolume(c) ==
  /\ At(c, "up", "inspect volume")
  /\ CASE volume.id = None -> Goes(c, "create volume", {})
       [] VolumeDiverged(c) -> Goes(c, "stop for volume", Services \cap Exist)
       [] OTHER -> Goes(c, "list", {})
  /\ UNCHANGED engine
  /\ Quiet

InspectVolume(c) ==
  /\ At(c, "up", "inspect volume")
  /\ CASE volume.id = None -> Goes(c, "create volume", {})
       [] VolumeDiverged(c) /\ cmd[c].want.confirms -> Goes(c, "stop for volume", Services \cap Exist)
       [] OTHER -> Goes(c, "list", {})
  /\ UNCHANGED engine
  /\ Quiet

StopForVolume(c) == ForEach(c, "up", "stop for volume", Exists, Stopped)
StoppedForVolume(c) == Then(c, "up", "stop for volume", "remove for volume", Services \cap Exist)

(* remove without force: the engine refuses a container that runs again.   *)
Removable(n) == n \in Exist \ Running
RemoveForVolume(c)  == ForEach(c, "up", "remove for volume", Removable, Removed)
RemovedForVolume(c) == Then(c, "up", "remove for volume", "remove volume", {})

(* By its name again; refused while a container uses it.                   *)
RemoveVolume(c) ==
  /\ At(c, "up", "remove volume")
  /\ IF Exist = {}
     THEN /\ volume' = NoVolume
          /\ Goes(c, "create volume", {})
          /\ UNCHANGED <<network, ctr, nextID>>
          /\ Quiet
     ELSE Fails(c)

(* The engine answers with the volume of that name when there is one.      *)
CreateVolume(c) ==
  /\ At(c, "up", "create volume")
  /\ IF volume.id = None
     THEN volume' = [id |-> nextID, hash |-> cmd[c].want.volume] /\ nextID' = nextID + 1
     ELSE UNCHANGED <<volume, nextID>>
  /\ Goes(c, "list", {})
  /\ UNCHANGED <<network, ctr>>
  /\ Quiet

----------------------------------------------------------------------------
(* up: containers.                                                         *)

(* mustRecreate, for services whose own configuration did not change: the  *)
(* networks of a container matter while it runs.                           *)
MustRecreate(id) == {n \in Services \cap Running : ctr[n].endpoint # id}

(* getContainers, and the orphans among them for --remove-orphans.         *)
List(c) ==
  /\ At(c, "up", "list")
  /\ LET orphans == IF cmd[c].want.removeOrphans THEN Orphans \cap Exist ELSE {}
     IN  cmd' = [cmd EXCEPT ![c].at = "remove orphans", ![c].todo = orphans,
                            ![c].missing = Services \ Exist, ![c].diverged = MustRecreate(cmd[c].networkID),
                            ![c].networkID = None, ![c].dangled = {}, ![c].retried = FALSE]
  /\ UNCHANGED engine
  /\ Quiet

(* stopAndRemoveContainer forces the removal, and takes a container that   *)
(* is not there any more for removed.                                      *)
Tolerated(n) == TRUE
RemoveOrphan(c)   == ForEach(c, "up", "remove orphans", Tolerated, Removed)
RemovedOrphans(c) == Then(c, "up", "remove orphans", "converge", Services)

(* A new container brings the volume into being if it has gone: without a  *)
(* hash, as the engine knows nothing of it.                                *)
Creates(c, n) ==
  /\ ctr' = [ctr EXCEPT ![n] = NewContainer]
  /\ IF volume.id = None
     THEN volume' = [id |-> nextID, hash |-> "none"] /\ nextID' = nextID + 1
     ELSE UNCHANGED <<volume, nextID>>
  /\ Does(c, n)
  /\ UNCHANGED network
  /\ Quiet

(* ensureService: creating meets a name that is taken by now, recreating a *)
(* container that has gone.                                                *)
CreateContainer(c) ==
  \E n \in cmd[c].todo :
    /\ At(c, "up", "converge")
    /\ n \in cmd[c].missing
    /\ IF n \in Exist THEN Fails(c) ELSE Creates(c, n)

RecreateContainer(c) ==
  \E n \in cmd[c].todo :
    /\ At(c, "up", "converge")
    /\ n \in cmd[c].diverged
    /\ IF n \in Exist THEN Creates(c, n) ELSE Fails(c)

KeepContainer(c) ==
  \E n \in cmd[c].todo :
    /\ At(c, "up", "converge")
    /\ n \notin cmd[c].missing \cup cmd[c].diverged
    /\ Does(c, n)
    /\ UNCHANGED engine
    /\ Quiet

Converged(c) == Then(c, "up", "converge", "list to start", {})

(* start lists the containers: a service without one is an error, running  *)
(* containers are left alone.                                              *)
ListToStart(c) ==
  /\ At(c, "up", "list to start")
  /\ IF Services \subseteq Exist
     THEN Goes(c, "start", Services \ Running) /\ UNCHANGED engine /\ Quiet
     ELSE Fails(c)

(* The engine attaches the container by the network it was on, or by name  *)
(* the first time; one that was disconnected starts without it.            *)
CanStart(n) ==
  /\ n \in Exist
  /\ CASE ctr[n].endpoint = None   -> TRUE
       [] ctr[n].endpoint = ByName -> network.id # None
       [] OTHER -> ctr[n].endpoint = network.id
Started(k) == [k EXCEPT !.state = "running", !.endpoint = IF @ = ByName THEN network.id ELSE @]

StartContainer(c) == ForEach(c, "up", "start", CanStart, Started)

UpReturns(c) ==
  /\ At(c, "up", "start")
  /\ cmd[c].todo = {}
  /\ Succeeds(c)

----------------------------------------------------------------------------
(* down.                                                                   *)

BugListToRemove(c) ==
  /\ At(c, "down", "list")
  /\ Goes(c, "remove", {n \in Running : n \in Services \/ cmd[c].want.removeOrphans})
  /\ UNCHANGED engine
  /\ Quiet

(* The one list that down works on.                                        *)
ListToRemove(c) ==
  /\ At(c, "down", "list")
  /\ Goes(c, "remove", {n \in Exist : n \in Services \/ cmd[c].want.removeOrphans})
  /\ UNCHANGED engine
  /\ Quiet

RemoveContainer(c)   == ForEach(c, "down", "remove", Tolerated, Removed)
RemovedContainers(c) ==
  Then(c, "down", "remove", "resources",
       IF cmd[c].want.removeVolumes THEN {"inspect network", "volume"} ELSE {"inspect network"})

(* The goroutines of ensureNetworksDown and ensureVolumesDown.             *)
Resource(c, op) == At(c, "down", "resources") /\ op \in cmd[c].todo

(* A network that has gone, that has other labels or that is in use is     *)
(* passed over.                                                            *)
InspectToRemove(c) ==
  /\ Resource(c, "inspect network")
  /\ cmd' = [cmd EXCEPT
       ![c].todo = (@ \ {"inspect network"}) \cup
                   (IF network.id = None \/ network.hash = "foreign" \/ Attached # {} THEN {} ELSE {"remove network"}),
       ![c].networkID = network.id]
  /\ UNCHANGED engine
  /\ Quiet

(* By the id: another network of that name is left alone.                  *)
RemoveInspected(c) ==
  /\ Resource(c, "remove network")
  /\ CASE network.id # cmd[c].networkID ->
            Does(c, "remove network") /\ UNCHANGED engine /\ Quiet
       [] network.id = cmd[c].networkID /\ Attached # {} -> Fails(c)
       [] OTHER -> /\ network' = NoNetwork
                   /\ Does(c, "remove network")
                   /\ UNCHANGED <<volume, ctr, nextID>>
                   /\ Quiet

(* removeVolume: in use, or not there, is a warning.                       *)
RemoveVolumeDown(c) ==
  /\ Resource(c, "volume")
  /\ volume' = IF Exist = {} THEN NoVolume ELSE volume
  /\ Does(c, "volume")
  /\ UNCHANGED <<network, ctr, nextID>>
  /\ Quiet

DownReturns(c) ==
  /\ At(c, "down", "resources")
  /\ cmd[c].todo = {}
  /\ Succeeds(c)

----------------------------------------------------------------------------
EnsureNetwork(c) ==
  \/ InspectNetwork(c) \/ StopForNetwork(c) \/ ListToDisconnect(c) \/ Disconnect(c)
  \/ DisconnectedAll(c) \/ RemoveNetwork(c) \/ ListNetworks(c) \/ CreateNetwork(c)
  \/ NetworkNameTaken(c) \/ Connect(c) \/ ConnectedAll(c)

EnsureVolume(c) ==
  \/ InspectVolume(c) \/ StopForVolume(c) \/ StoppedForVolume(c) \/ RemoveForVolume(c)
  \/ RemovedForVolume(c) \/ RemoveVolume(c) \/ CreateVolume(c)

Converge(c) ==
  \/ List(c) \/ RemoveOrphan(c) \/ RemovedOrphans(c) \/ CreateContainer(c)
  \/ RecreateContainer(c) \/ KeepContainer(c) \/ Converged(c)
  \/ ListToStart(c) \/ StartContainer(c) \/ UpReturns(c)

Down(c) ==
  \/ ListToRemove(c) \/ RemoveContainer(c) \/ RemovedContainers(c)
  \/ InspectToRemove(c) \/ RemoveInspected(c) \/ RemoveVolumeDown(c) \/ DownReturns(c)

Next == \E c \in Commands :
  Begin(c) \/ Dies(c) \/ EnsureNetwork(c) \/ EnsureVolume(c) \/ Converge(c) \/ Down(c)

Spec == Init /\ [][Next]_vars

----------------------------------------------------------------------------
Resources == [id : Nat, hash : Configs \cup {"none", "foreign"}]

(* Variables keep their types.                                             *)
TypeOK ==
  /\ network \in Resources /\ volume \in Resources
  /\ ctr \in [Names -> [state : {"none", "created", "running", "exited"},
                        endpoint : Nat \cup {ByName}, aliases : BOOLEAN]]
  /\ nextID \in Nat /\ begun \in 0..MaxCommands /\ deaths \in 0..Deaths
  /\ \A c \in Commands : cmd[c].at \in Ended \cup UpCalls \cup DownCalls
  /\ adrift \subseteq Names

Done == Active = {} /\ period.same /\ period.ok

(* A service may be on no network only if it is adrift: a command before   *)
(* this period disconnected its container and died or failed, or one of    *)
(* several commands did and lost the network's name to another.            *)
IsUp(want) ==
  /\ Services \subseteq Running
  /\ network.hash \in {want.network, "none"}
  /\ Services \subseteq Attached \cup {n \in adrift : ctr[n].endpoint = None}
  /\ want.confirms => volume.hash \in {want.volume, "none"}

(* However earlier commands ended, an up that nobody disturbs and that     *)
(* returns nil leaves every service running, on the network of the wanted  *)
(* configuration unless its container is adrift, and with consent on a     *)
(* volume of that configuration; so do ups of the same options at the same *)
(* time, which all return nil.                                             *)
UpMeansUp == Done /\ period.want.kind = "up" => IsUp(period.want)

(* Whatever failed or killed commands left, an undisturbed down that       *)
(* returns nil has removed the containers and, unless an orphan still uses *)
(* them, the network and with --volumes the volume.                        *)
DownMeansDown ==
  Done /\ period.want.kind = "down" =>
    /\ Services \cap Exist = {}
    /\ period.want.removeOrphans => Exist = {}
    /\ Running = {} => network.id = None \/ network.hash = "foreign"
    /\ period.want.removeVolumes /\ Exist = {} => volume.id = None

(* create.go, ensureNetwork: one retry is enough for two executions of the *)
(* same up that create the network at the same time.                       *)
RetryIsEnough == period.same => ~period.lost

(* Variables keep their types, a nil of up means what the project says is  *)
(* there, and one retry of the creation of a network is enough for two     *)
(* equal commands.                                                         *)
UpSucceeds == TypeOK /\ UpMeansUp /\ RetryIsEnough

(* A single command destroys the data of a volume only with consent or for *)
(* --volumes, and up never that of a volume of the wanted configuration.   *)
DataKept ==
  [][volume.id # None /\ volume'.id # volume.id /\ period.first \in Commands =>
       LET want == period.want
       IN  \/ want.removeVolumes
           \/ want.confirms /\ volume.hash # want.volume]_vars

(* create.go, removeDivergedNetwork: "They will be restarted (actually:    *)
(* recreated) with the updated network".  After a nil of up every service  *)
(* is on a network, then.  One that is adrift is not, and up is content.   *)
ServicesOnNetwork ==
  Done /\ period.want.kind = "up" => Services \subseteq Attached

(* The same sentence.  A container that is recreated has the endpoint of   *)
(* its service, with its aliases.                                          *)
RecreatedWithNetwork ==
  Done /\ period.want.kind = "up" =>
    \A n \in Services : ctr[n].endpoint = network.id /\ ctr[n].aliases
=============================================================================
