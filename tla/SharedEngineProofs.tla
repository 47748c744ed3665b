------------------------- MODULE SharedEngineProofs -------------------------
(***************************************************************************)
(* Proofs about up and down on one project (SharedEngine), for every set   *)
(* of services, orphans and configurations, any number of processes and    *)
(* commands, and deaths at any call.                                       *)
(***************************************************************************)
EXTENDS SharedEngine, TLAPS

Nothing    == [kind |-> "none"]
Endpoints  == Nat \cup {ByName}
States     == {"none", "created", "running", "exited"}
Containers == [state : States, endpoint : Endpoints, aliases : BOOLEAN]
Items      == Names \cup {"inspect network", "remove network", "volume"}
Calls      == Ended \cup UpCalls \cup DownCalls
Processes  == [want : Wants \cup {Nothing}, at : Calls, todo : SUBSET Items, dangled : SUBSET Names,
               missing : SUBSET Names, diverged : SUBSET Names, networkID : Nat, retried : BOOLEAN]
Periods    == [want : Wants \cup {Nothing}, same : BOOLEAN, ok : BOOLEAN,
               first : Commands \cup {"none", "several"}, lost : BOOLEAN]

(* The calls of up in their order.                                         *)
Removers    == {"stop for network", "disconnect", "remove network"}
Inspecting  == {"inspect network"} \cup Removers
Resolving   == Inspecting \cup {"list networks", "create network"}
Emptying    == {"stop for volume", "remove for volume", "remove volume"}
BeforeVolume == Resolving \cup {"connect", "inspect volume"} \cup Emptying
WithNetwork == {"connect", "inspect volume", "create volume", "list"} \cup Emptying
BeforeStart == Resolving \cup WithNetwork \cup {"remove orphans", "converge", "list to start"}

Scope(want) == {n \in Names : n \in Services \/ want.removeOrphans}

----------------------------------------------------------------------------
(* The layers of the inductive invariant.  First the types, and what is to *)
(* be done at each call.                                                   *)

EngineOK ==
  /\ network \in Resources /\ (network.id = None => network.hash = "none")
  /\ volume \in Resources /\ (volume.id = None => volume.hash = "none")
  /\ ctr \in [Names -> Containers]
  /\ nextID \in Nat \ {0}

BooksOK ==
  /\ begun \in 0..MaxCommands /\ deaths \in 0..Deaths
  /\ period \in Periods
  /\ cmd \in [Commands -> Processes]

PlaceOK(c) ==
  /\ cmd[c].at \notin Ended => cmd[c].want \in Wants
  /\ cmd[c].at \notin Ended /\ cmd[c].want.kind = "up" => cmd[c].at \in UpCalls
  /\ cmd[c].at \notin Ended /\ cmd[c].want.kind = "down" => cmd[c].at \in DownCalls
  /\ cmd[c].at = "remove" => cmd[c].todo \subseteq Scope(cmd[c].want)
  /\ cmd[c].at = "resources" =>
       /\ "remove network" \in cmd[c].todo => "inspect network" \notin cmd[c].todo
       /\ "volume" \in cmd[c].todo => cmd[c].want.removeVolumes
  /\ cmd[c].at \in Ended => ~cmd[c].retried

Typed == EngineOK /\ BooksOK /\ \A c \in Commands : PlaceOK(c)

(* Who runs, and what was asked.                                           *)
SameWants == period.same => \A c \in Active : cmd[c].want = period.want

FirstAlone == period.first \in Commands => \A c \in Active : c = period.first /\ cmd[c].want = period.want

(* A volume about to be removed by an up that is alone has diverged, and   *)
(* the user agreed.                                                        *)
Agreed ==
  period.first \in Commands =>
    \A c \in Active : cmd[c].want.kind = "up" /\ cmd[c].at \in Emptying => cmd[c].want.confirms /\ VolumeDiverged(c)

Asked == SameWants /\ FirstAlone /\ Agreed

(* Equal ups.  What diverges was there before them, and nobody has passed  *)
(* the calls that put it right; what does not run yet is left to somebody. *)
Ups == period.same /\ period.want.kind = "up"

NetworkBad == network.id # None /\ network.hash \notin {period.want.network, "none"}
VolumeBad  == period.want.confirms /\ volume.id # None /\ volume.hash \notin {period.want.volume, "none"}
Wrong(n)   == ctr[n].state = "running" /\ ctr[n].endpoint \notin {None, network.id}

BadNetworkStays == Ups /\ NetworkBad => \A c \in Active : cmd[c].at \in Inspecting

BadVolumeStays == Ups /\ VolumeBad => \A c \in Active : cmd[c].at \in BeforeVolume

\* It will put right, when its turn comes, the endpoint of n.
LeavesWrong(c, n) ==
  \/ cmd[c].at \in Resolving
  \/ cmd[c].at \in WithNetwork /\ cmd[c].networkID # ctr[n].endpoint
  \/ cmd[c].at = "remove orphans" /\ n \in cmd[c].diverged
  \/ cmd[c].at = "converge" /\ n \in cmd[c].diverged \cap cmd[c].todo

\* It will start n.
Owes(c, n) == cmd[c].at \in BeforeStart \/ (cmd[c].at = "start" /\ n \in cmd[c].todo)

WrongStays == Ups => \A n \in Services : Wrong(n) => \A c \in Active : LeavesWrong(c, n)

SomebodyStarts ==
  Ups /\ period.ok => \A n \in Services : ctr[n].state # "running" => \E c \in Active : Owes(c, n)

SomebodyWorks ==
  Ups /\ period.ok /\ Active = {} => ~NetworkBad /\ ~VolumeBad /\ \A n \in Services : ~Wrong(n)

UpInv == BadNetworkStays /\ BadVolumeStays /\ WrongStays /\ SomebodyStarts /\ SomebodyWorks

(* Equal downs.                                                            *)
Downs == period.same /\ period.ok /\ period.want.kind = "down"

NetworkToRemove(c) ==
  \/ "inspect network" \in cmd[c].todo
  \/ "remove network" \in cmd[c].todo /\ cmd[c].networkID = network.id
  \/ network.id = None \/ network.hash = "foreign" \/ Running # {}

VolumeToRemove(c) ==
  cmd[c].want.removeVolumes => "volume" \in cmd[c].todo \/ volume.id = None \/ Exist # {}

DownDone(c) ==
  /\ cmd[c].at = "remove" => Scope(period.want) \cap Exist \subseteq cmd[c].todo
  /\ cmd[c].at = "resources" =>
       Scope(period.want) \cap Exist = {} /\ NetworkToRemove(c) /\ VolumeToRemove(c)

DownInv == (Downs => \A c \in Active : DownDone(c)) /\ DownMeansDown

(* Two equal ups: who has lost the race for the network once finds one     *)
(* that stays.                                                             *)
NobodyRemoves == \A d \in Active : cmd[d].at \notin Removers

CreatorsMeet == Ups => \A c \in Active : cmd[c].at = "create network" => network.id = None \/ NobodyRemoves

RetriedFinds ==
  Ups => \A c \in Active : cmd[c].retried =>
    /\ network.id # None /\ ~NetworkBad /\ NobodyRemoves
    /\ cmd[c].at \notin {"list networks", "create network"}

RetryInv == CreatorsMeet /\ RetriedFinds /\ RetryIsEnough

TwoProcesses == \A a, b, c \in Commands : a = b \/ a = c \/ b = c

----------------------------------------------------------------------------
(* What the ways of going on do to the commands.                           *)

\* The other commands are where they were, and this one was asked the same.
Only(c) == \A d \in Commands : d # c => cmd'[d] = cmd[d]

Turns(c, call, todo) ==
  /\ Only(c)
  /\ cmd'[c].at = call /\ cmd'[c].todo = todo /\ cmd'[c].want = cmd[c].want

\* What it remembers of the network and of the containers.
Remembers(c) ==
  /\ cmd'[c].networkID = cmd[c].networkID
  /\ cmd'[c].diverged = cmd[c].diverged
  /\ cmd'[c].retried = cmd[c].retried

Held == cmd' \in [Commands -> Processes]

\* A call of the engine that does not end the command.
Acts(c) ==
  /\ c \in Active /\ cmd'[c].at \notin Ended
  /\ UNCHANGED <<begun, deaths, period>>

LEMMA CommandFields ==
  ASSUME BooksOK, NEW c \in Commands
  PROVE  /\ cmd[c] \in Processes
         /\ cmd[c].todo \subseteq Items /\ cmd[c].dangled \subseteq Names
         /\ cmd[c].missing \subseteq Names /\ cmd[c].diverged \subseteq Names
         /\ cmd[c].networkID \in Nat /\ cmd[c].retried \in BOOLEAN
         /\ cmd[c].at \in Calls /\ cmd[c].want \in Wants \cup {Nothing}
<1>1. cmd[c] \in Processes  BY DEF BooksOK
<1> QED  BY <1>1 DEF Processes

LEMMA GoesTurns ==
  ASSUME BooksOK, NEW c \in Commands, NEW call \in Calls, NEW todo \in SUBSET Items, Goes(c, call, todo)
  PROVE  Held /\ Turns(c, call, todo) /\ Remembers(c)
<1>1. cmd \in [Commands -> Processes]  BY DEF BooksOK
<1>2. [cmd[c] EXCEPT !.at = call, !.todo = todo] \in Processes  BY <1>1 DEF Processes
<1>3. cmd' = [cmd EXCEPT ![c] = [cmd[c] EXCEPT !.at = call, !.todo = todo]]  BY <1>1 DEF Goes, Processes
<1> DEFINE u == [cmd[c] EXCEPT !.at = call, !.todo = todo]
<1>4. /\ u.at = call /\ u.todo = todo /\ u.want = cmd[c].want /\ u.networkID = cmd[c].networkID
      /\ u.diverged = cmd[c].diverged /\ u.retried = cmd[c].retried
  BY <1>1 DEF Processes
<1> HIDE DEF u
<1>5. u \in Processes /\ cmd' = [cmd EXCEPT ![c] = u]  BY <1>2, <1>3 DEF u
<1>6. cmd'[c] = u  BY <1>1, <1>5
<1> QED  BY <1>1, <1>4, <1>5, <1>6 DEF Held, Turns, Remembers, Only

LEMMA DoesTurns ==
  ASSUME BooksOK, NEW c \in Commands, NEW name, Does(c, name)
  PROVE  Held /\ Turns(c, cmd[c].at, cmd[c].todo \ {name}) /\ Remembers(c)
<1>1. cmd \in [Commands -> Processes]  BY DEF BooksOK
<1>2. cmd[c].at \in Calls /\ cmd[c].todo \ {name} \in SUBSET Items  BY CommandFields
<1>3. Goes(c, cmd[c].at, cmd[c].todo \ {name})
  <2> DEFINE todo == cmd[c].todo \ {name}
  <2>1. cmd' = [cmd EXCEPT ![c].todo = todo]  BY <1>1 DEF Does
  <2>2. [cmd[c] EXCEPT !.at = cmd[c].at, !.todo = todo] = [cmd[c] EXCEPT !.todo = todo]
    BY <1>1 DEF Processes
  <2> QED  BY <1>1, <2>1, <2>2 DEF Goes, Processes
<1> QED  BY <1>2, <1>3, GoesTurns

LEMMA HasNetworkTurns ==
  ASSUME BooksOK, NEW c \in Commands, NEW id \in Nat, NEW call \in Calls, NEW todo \in SUBSET Items,
         HasNetwork(c, id, call, todo)
  PROVE  /\ Held /\ Turns(c, call, todo)
         /\ cmd'[c].networkID = id /\ cmd'[c].diverged = cmd[c].diverged /\ cmd'[c].retried = cmd[c].retried
<1>1. cmd \in [Commands -> Processes]  BY DEF BooksOK
<1> DEFINE u == [cmd[c] EXCEPT !.at = call, !.todo = todo, !.networkID = id]
<1>2. u \in Processes  BY <1>1 DEF Processes
<1>3. cmd' = [cmd EXCEPT ![c] = u]  BY <1>1 DEF HasNetwork, Processes
<1>4. /\ u.at = call /\ u.todo = todo /\ u.want = cmd[c].want /\ u.networkID = id
      /\ u.diverged = cmd[c].diverged /\ u.retried = cmd[c].retried
  BY <1>1 DEF Processes
<1> HIDE DEF u
<1>5. cmd'[c] = u  BY <1>1, <1>3
<1> QED  BY <1>1, <1>2, <1>3, <1>4, <1>5 DEF Held, Turns, Only

LEMMA IdleTurns ==
  ASSUME BooksOK, NEW c \in Commands, NEW how \in Ended, cmd' = [cmd EXCEPT ![c] = Idle(how)]
  PROVE  /\ Held /\ Only(c) /\ cmd'[c].at = how /\ cmd'[c].at \in Ended
         /\ cmd'[c].retried = FALSE
<1>1. cmd \in [Commands -> Processes]  BY DEF BooksOK
<1>2. Idle(how) \in Processes /\ Idle(how).at = how /\ Idle(how).retried = FALSE
  BY DEF Idle, Processes, Nothing, Calls, None
<1>3. cmd'[c] = Idle(how)  BY <1>1
<1> QED  BY <1>1, <1>2, <1>3 DEF Held, Only

----------------------------------------------------------------------------
(* Types are kept.                                                         *)

LEMMA PlacesElsewhere ==
  ASSUME Typed, NEW c \in Commands, Only(c), NEW d \in Commands, d # c
  PROVE  PlaceOK(d)'
<1>1. cmd'[d] = cmd[d]  BY DEF Only
<1>2. PlaceOK(d)  BY DEF Typed
<1> QED  BY <1>1, <1>2 DEF PlaceOK, Scope

LEMMA TypedKept ==
  ASSUME Typed, NEW c \in Commands, Held, Only(c), EngineOK', PlaceOK(c)', UNCHANGED <<begun, deaths, period>>
  PROVE  Typed'
<1>1. BooksOK'  BY DEF Typed, BooksOK, Held
<1>2. \A d \in Commands : PlaceOK(d)'  BY PlacesElsewhere
<1> QED  BY <1>1, <1>2 DEF Typed

LEMMA CallsDiffer == Ended \cap (UpCalls \cup DownCalls) = {}
BY DEF Ended, UpCalls, DownCalls

LEMMA UpTurns ==
  ASSUME Typed, NEW c \in Commands, NEW from \in UpCalls, NEW call \in UpCalls, NEW todo \in SUBSET Items,
         At(c, "up", from), Turns(c, call, todo), Held, EngineOK', UNCHANGED <<begun, deaths, period>>
  PROVE  Typed' /\ Acts(c)
<1>1. cmd[c].want.kind = "up" /\ cmd[c].at = from /\ cmd[c].at \notin Ended
  BY CallsDiffer DEF At
<1>2. cmd'[c].at = call /\ cmd'[c].want = cmd[c].want /\ cmd'[c].at \notin Ended /\ Only(c)
  BY CallsDiffer DEF Turns
<1>3. PlaceOK(c)  BY DEF Typed
<1>4. cmd'[c].at \notin {"remove", "resources"}  BY <1>2 DEF UpCalls
<1>5. PlaceOK(c)'  BY <1>1, <1>2, <1>3, <1>4 DEF PlaceOK
<1>6. Typed'  BY <1>2, <1>5, TypedKept
<1> QED  BY <1>1, <1>2, <1>6 DEF Acts, Active

LEMMA EngineKept ==
  ASSUME EngineOK, UNCHANGED engine
  PROVE  EngineOK'
BY DEF EngineOK, engine

LEMMA UpGoes ==
  ASSUME Typed, NEW c \in Commands, NEW from \in UpCalls, NEW call \in UpCalls, NEW todo \in SUBSET Items,
         At(c, "up", from), Goes(c, call, todo), EngineOK', Quiet
  PROVE  Typed' /\ Acts(c) /\ Turns(c, call, todo) /\ Remembers(c)
<1>1. BooksOK /\ call \in Calls  BY DEF Typed, Calls
<1>2. Held /\ Turns(c, call, todo) /\ Remembers(c)  BY <1>1, GoesTurns
<1> QED  BY <1>2, UpTurns DEF Quiet

LEMMA ContainersTyped ==
  ASSUME EngineOK
  PROVE  \A n \in Names : ctr[n] \in Containers /\ ctr[n].state \in States /\ ctr[n].endpoint \in Endpoints
BY DEF EngineOK, Containers

LEMMA NetworkTyped ==
  ASSUME EngineOK
  PROVE  network.id \in Nat /\ volume.id \in Nat /\ network \in Resources /\ volume \in Resources
BY DEF EngineOK, Resources

\* The next container of a loop's list becomes k.
Treats(c, call, n, k) ==
  /\ At(c, "up", call) /\ n \in cmd[c].todo
  /\ Acts(c) /\ Turns(c, call, cmd[c].todo \ {n}) /\ Remembers(c)
  /\ \A m \in Names : ctr'[m] = IF m = n THEN k ELSE ctr[m]
  /\ UNCHANGED <<network, volume, nextID>>

LEMMA UpTreats ==
  ASSUME Typed, NEW c \in Commands, NEW n \in cmd[c].todo, NEW call \in UpCalls, NEW k \in Containers,
         At(c, "up", call), Does(c, n), Quiet, UNCHANGED <<network, volume, nextID>>,
         ctr' = [m \in Names |-> IF m = n THEN k ELSE ctr[m]]
  PROVE  Typed' /\ Treats(c, call, n, k)
<1>1. BooksOK /\ EngineOK  BY DEF Typed
<1>2. Held /\ Turns(c, cmd[c].at, cmd[c].todo \ {n}) /\ Remembers(c)  BY <1>1, DoesTurns
<1>3. cmd[c].at = call  BY DEF At
<1>4. ctr \in [Names -> Containers]  BY <1>1 DEF EngineOK
<1>5. ctr' \in [Names -> Containers]  BY <1>4
<1>6. EngineOK'  BY <1>1, <1>5 DEF EngineOK
<1>7. cmd[c].todo \ {n} \in SUBSET Items  BY <1>1, CommandFields
<1>8. Typed' /\ Acts(c)  BY <1>2, <1>3, <1>6, <1>7, UpTurns DEF Quiet
<1> QED  BY <1>2, <1>3, <1>8 DEF Treats

LEMMA StopForNetworkDoes ==
  ASSUME Typed, NEW c \in Commands, StopForNetwork(c)
  PROVE  Fails(c) \/ (Typed' /\ \E n \in Exist : Treats(c, "stop for network", n, Stopped(ctr[n])))
<1> SUFFICES ASSUME ~Fails(c)  PROVE Typed' /\ \E n \in Exist : Treats(c, "stop for network", n, Stopped(ctr[n]))
  OBVIOUS
<1>1. PICK n \in cmd[c].todo :
        /\ At(c, "up", "stop for network") /\ n \in Exist /\ Does(c, n) /\ Quiet
        /\ ctr' = [m \in Names |-> IF m \in {n} THEN Stopped(ctr[m]) ELSE ctr[m]]
        /\ UNCHANGED <<network, volume, nextID>>
  BY DEF StopForNetwork, ForEach, OnContainers, Exists
<1>2. ctr[n] \in Containers  BY <1>1, ContainersTyped DEF Typed, Exist
<1>3. Stopped(ctr[n]) \in Containers  BY <1>2 DEF Stopped, Containers, States
<1>4. ctr' = [m \in Names |-> IF m = n THEN Stopped(ctr[n]) ELSE ctr[m]]  BY <1>1
<1>5. "stop for network" \in UpCalls  BY DEF UpCalls
<1> QED  BY <1>1, <1>3, <1>4, <1>5, UpTreats

LEMMA StopForVolumeDoes ==
  ASSUME Typed, NEW c \in Commands, StopForVolume(c)
  PROVE  Fails(c) \/ (Typed' /\ \E n \in Exist : Treats(c, "stop for volume", n, Stopped(ctr[n])))
<1> SUFFICES ASSUME ~Fails(c)  PROVE Typed' /\ \E n \in Exist : Treats(c, "stop for volume", n, Stopped(ctr[n]))
  OBVIOUS
<1>1. PICK n \in cmd[c].todo :
        /\ At(c, "up", "stop for volume") /\ n \in Exist /\ Does(c, n) /\ Quiet
        /\ ctr' = [m \in Names |-> IF m \in {n} THEN Stopped(ctr[m]) ELSE ctr[m]]
        /\ UNCHANGED <<network, volume, nextID>>
  BY DEF StopForVolume, ForEach, OnContainers, Exists
<1>2. ctr[n] \in Containers  BY <1>1, ContainersTyped DEF Typed, Exist
<1>3. Stopped(ctr[n]) \in Containers  BY <1>2 DEF Stopped, Containers, States
<1>4. ctr' = [m \in Names |-> IF m = n THEN Stopped(ctr[n]) ELSE ctr[m]]  BY <1>1
<1>5. "stop for volume" \in UpCalls  BY DEF UpCalls
<1> QED  BY <1>1, <1>3, <1>4, <1>5, UpTreats

LEMMA DisconnectDoes ==
  ASSUME Typed, NEW c \in Commands, Disconnect(c)
  PROVE  Fails(c) \/ (Typed' /\ \E n \in Exist : Treats(c, "disconnect", n, Disconnected(ctr[n])))
<1> SUFFICES ASSUME ~Fails(c)  PROVE Typed' /\ \E n \in Exist : Treats(c, "disconnect", n, Disconnected(ctr[n]))
  OBVIOUS
<1>1. PICK n \in cmd[c].todo :
        /\ At(c, "up", "disconnect") /\ n \in Exist /\ Does(c, n) /\ Quiet
        /\ ctr' = [m \in Names |-> IF m \in {n} THEN Disconnected(ctr[m]) ELSE ctr[m]]
        /\ UNCHANGED <<network, volume, nextID>>
  BY DEF Disconnect, ForEach, OnContainers, Connected
<1>2. ctr[n] \in Containers  BY <1>1, ContainersTyped DEF Typed, Exist
<1>3. Disconnected(ctr[n]) \in Containers  BY <1>2 DEF Disconnected, Containers, Endpoints, None
<1>4. ctr' = [m \in Names |-> IF m = n THEN Disconnected(ctr[n]) ELSE ctr[m]]  BY <1>1
<1>5. "disconnect" \in UpCalls  BY DEF UpCalls
<1> QED  BY <1>1, <1>3, <1>4, <1>5, UpTreats

LEMMA ConnectDoes ==
  ASSUME Typed, NEW c \in Commands, Connect(c)
  PROVE  Fails(c) \/ (Typed' /\ \E n \in Exist : Treats(c, "connect", n, Reconnected(ctr[n])))
<1> SUFFICES ASSUME ~Fails(c)  PROVE Typed' /\ \E n \in Exist : Treats(c, "connect", n, Reconnected(ctr[n]))
  OBVIOUS
<1>1. PICK n \in cmd[c].todo :
        /\ At(c, "up", "connect") /\ n \in Exist /\ Does(c, n) /\ Quiet
        /\ ctr' = [m \in Names |-> IF m \in {n} THEN Reconnected(ctr[m]) ELSE ctr[m]]
        /\ UNCHANGED <<network, volume, nextID>>
  BY DEF Connect, ForEach, OnContainers, CanConnect
<1>2. ctr[n] \in Containers  BY <1>1, ContainersTyped DEF Typed, Exist
<1>3. network.id \in Nat  BY NetworkTyped DEF Typed
<1>4. Reconnected(ctr[n]) \in Containers  BY <1>2, <1>3 DEF Reconnected, Containers, Endpoints
<1>5. ctr' = [m \in Names |-> IF m = n THEN Reconnected(ctr[n]) ELSE ctr[m]]  BY <1>1
<1>6. "connect" \in UpCalls  BY DEF UpCalls
<1> QED  BY <1>1, <1>4, <1>5, <1>6, UpTreats

LEMMA EmptyIsTyped == NoContainer \in Containers
BY DEF NoContainer, Containers, States, Endpoints, None

LEMMA RemoveForVolumeDoes ==
  ASSUME Typed, NEW c \in Commands, RemoveForVolume(c)
  PROVE  Fails(c) \/ (Typed' /\ \E n \in Exist : Treats(c, "remove for volume", n, NoContainer))
<1> SUFFICES ASSUME ~Fails(c)  PROVE Typed' /\ \E n \in Exist : Treats(c, "remove for volume", n, NoContainer)
  OBVIOUS
<1>1. PICK n \in cmd[c].todo :
        /\ At(c, "up", "remove for volume") /\ n \in Exist /\ Does(c, n) /\ Quiet
        /\ ctr' = [m \in Names |-> IF m \in {n} THEN NoContainer ELSE ctr[m]]
        /\ UNCHANGED <<network, volume, nextID>>
  BY DEF RemoveForVolume, ForEach, OnContainers, Removable, Removed
<1>2. ctr' = [m \in Names |-> IF m = n THEN NoContainer ELSE ctr[m]]  BY <1>1
<1>3. "remove for volume" \in UpCalls  BY DEF UpCalls
<1> QED  BY <1>1, <1>2, <1>3, EmptyIsTyped, UpTreats

LEMMA RemoveOrphanDoes ==
  ASSUME Typed, NEW c \in Commands, RemoveOrphan(c)
  PROVE  Fails(c) \/ (Typed' /\ \E n \in cmd[c].todo : Treats(c, "remove orphans", n, NoContainer))
<1> SUFFICES ASSUME ~Fails(c)  PROVE Typed' /\ \E n \in cmd[c].todo : Treats(c, "remove orphans", n, NoContainer)
  OBVIOUS
<1>1. PICK n \in cmd[c].todo :
        /\ At(c, "up", "remove orphans") /\ Does(c, n) /\ Quiet
        /\ ctr' = [m \in Names |-> IF m \in {n} THEN NoContainer ELSE ctr[m]]
        /\ UNCHANGED <<network, volume, nextID>>
  BY DEF RemoveOrphan, ForEach, OnContainers, Tolerated, Removed
<1>2. ctr' = [m \in Names |-> IF m = n THEN NoContainer ELSE ctr[m]]  BY <1>1
<1>3. "remove orphans" \in UpCalls  BY DEF UpCalls
<1> QED  BY <1>1, <1>2, <1>3, EmptyIsTyped, UpTreats

LEMMA StartContainerDoes ==
  ASSUME Typed, NEW c \in Commands, StartContainer(c)
  PROVE  Fails(c) \/ (Typed' /\ \E n \in Exist : CanStart(n) /\ Treats(c, "start", n, Started(ctr[n])))
<1> SUFFICES ASSUME ~Fails(c)
             PROVE  Typed' /\ \E n \in Exist : CanStart(n) /\ Treats(c, "start", n, Started(ctr[n]))
  OBVIOUS
<1>1. PICK n \in cmd[c].todo :
        /\ At(c, "up", "start") /\ CanStart(n) /\ Does(c, n) /\ Quiet
        /\ ctr' = [m \in Names |-> IF m \in {n} THEN Started(ctr[m]) ELSE ctr[m]]
        /\ UNCHANGED <<network, volume, nextID>>
  BY DEF StartContainer, ForEach, OnContainers
<1>2. n \in Exist  BY <1>1 DEF CanStart
<1>3. ctr[n] \in Containers  BY <1>2, ContainersTyped DEF Typed, Exist
<1>4. network.id \in Nat  BY NetworkTyped DEF Typed
<1>5. Started(ctr[n]) \in Containers  BY <1>3, <1>4 DEF Started, Containers, Endpoints, States
<1>6. ctr' = [m \in Names |-> IF m = n THEN Started(ctr[n]) ELSE ctr[m]]  BY <1>1
<1>7. "start" \in UpCalls  BY DEF UpCalls
<1> QED  BY <1>1, <1>2, <1>5, <1>6, <1>7, UpTreats

\* A call that only asks, or none at all.
Moves(c, from, call, todo) ==
  At(c, "up", from) /\ Acts(c) /\ Turns(c, call, todo) /\ UNCHANGED engine

LEMMA UpMoves ==
  ASSUME Typed, NEW c \in Commands, NEW from \in UpCalls, NEW call \in UpCalls, NEW todo \in SUBSET Items,
         At(c, "up", from), Goes(c, call, todo), UNCHANGED engine, Quiet
  PROVE  Typed' /\ Moves(c, from, call, todo) /\ Remembers(c)
<1>1. EngineOK'  BY EngineKept DEF Typed
<1> QED  BY <1>1, UpGoes DEF Moves

LEMMA ThenMoves ==
  ASSUME Typed, NEW c \in Commands, NEW from \in UpCalls, NEW call \in UpCalls, NEW todo \in SUBSET Items,
         Then(c, "up", from, call, todo)
  PROVE  Typed' /\ Moves(c, from, call, todo) /\ Remembers(c) /\ cmd[c].todo = {}
BY UpMoves DEF Then

LEMMA FindsNetwork ==
  ASSUME Typed, NEW c \in Commands, NEW from \in UpCalls, NEW call \in UpCalls, NEW todo \in SUBSET Items,
         NEW id \in Nat, At(c, "up", from), HasNetwork(c, id, call, todo), EngineOK',
         UNCHANGED <<begun, deaths, period>>
  PROVE  /\ Typed' /\ Acts(c) /\ Turns(c, call, todo)
         /\ cmd'[c].networkID = id /\ cmd'[c].diverged = cmd[c].diverged /\ cmd'[c].retried = cmd[c].retried
<1>1. BooksOK /\ call \in Calls  BY DEF Typed, Calls
<1>2. /\ Held /\ Turns(c, call, todo)
      /\ cmd'[c].networkID = id /\ cmd'[c].diverged = cmd[c].diverged /\ cmd'[c].retried = cmd[c].retried
  BY <1>1, HasNetworkTurns
<1> QED  BY <1>2, UpTurns

LEMMA InspectNetworkDoes ==
  ASSUME Typed, NEW c \in Commands, InspectNetwork(c)
  PROVE  \/ Fails(c)
         \/ /\ Typed'
            /\ \/ network.id = None /\ Moves(c, "inspect network", "list networks", {}) /\ Remembers(c)
               \/ /\ network.id # None /\ network.hash \in {"none", cmd[c].want.network}
                  /\ Moves(c, "inspect network", "inspect volume", {})
                  /\ cmd'[c].networkID = network.id /\ cmd'[c].retried = cmd[c].retried
               \/ /\ network.id # None /\ network.hash \notin {"none", cmd[c].want.network}
                  /\ Moves(c, "inspect network", "stop for network", Services \cap Exist) /\ Remembers(c)
<1> SUFFICES ASSUME ~Fails(c)
             PROVE  \/ Typed' /\ network.id = None /\ Moves(c, "inspect network", "list networks", {}) /\ Remembers(c)
                    \/ /\ Typed'
                       /\ network.id # None /\ network.hash \in {"none", cmd[c].want.network}
                       /\ Moves(c, "inspect network", "inspect volume", {})
                       /\ cmd'[c].networkID = network.id /\ cmd'[c].retried = cmd[c].retried
                    \/ /\ Typed'
                       /\ network.id # None /\ network.hash \notin {"none", cmd[c].want.network}
                       /\ Moves(c, "inspect network", "stop for network", Services \cap Exist) /\ Remembers(c)
  OBVIOUS
<1>1. At(c, "up", "inspect network") /\ UNCHANGED engine /\ Quiet  BY DEF InspectNetwork
<1>2. /\ "inspect network" \in UpCalls /\ "list networks" \in UpCalls /\ "inspect volume" \in UpCalls
      /\ "stop for network" \in UpCalls /\ {} \in SUBSET Items
      BY DEF UpCalls
<1>3. CASE network.id = None
  <2>1. Goes(c, "list networks", {})  BY <1>3 DEF InspectNetwork
  <2> QED  BY <1>1, <1>2, <1>3, <2>1, UpMoves
<1>4. CASE network.id # None /\ network.hash \in {"none", cmd[c].want.network}
  <2>1. HasNetwork(c, network.id, "inspect volume", {})  BY <1>4 DEF InspectNetwork
  <2>2. EngineOK'  BY <1>1, EngineKept DEF Typed
  <2>3. network.id \in Nat  BY NetworkTyped DEF Typed
  <2> QED  BY ZenonT(60), <1>1, <1>2, <1>4, <2>1, <2>2, <2>3, FindsNetwork DEF Moves, Quiet
<1>5. CASE network.id # None /\ network.hash \notin {"none", cmd[c].want.network}
  <2>1. Goes(c, "stop for network", Services \cap Exist)  BY <1>5 DEF InspectNetwork
  <2>2. Services \cap Exist \in SUBSET Items  BY DEF Items, Names
  <2> QED  BY <1>1, <1>2, <1>5, <2>1, <2>2, UpMoves
<1> QED  BY <1>3, <1>4, <1>5

LEMMA ListToDisconnectDoes ==
  ASSUME Typed, NEW c \in Commands, ListToDisconnect(c)
  PROVE  Typed' /\ Moves(c, "stop for network", "disconnect", Services \cap Exist) /\ Remembers(c)
<1>1. At(c, "up", "stop for network") /\ UNCHANGED engine /\ Quiet  BY DEF ListToDisconnect
<1>2. "stop for network" \in UpCalls /\ "disconnect" \in UpCalls /\ {} \in SUBSET Items
      BY DEF UpCalls
<1>3. cmd \in [Commands -> Processes]  BY DEF Typed, BooksOK
<1> DEFINE listed == Services \cap Exist
<1> DEFINE u == [cmd[c] EXCEPT !.at = "disconnect", !.todo = listed, !.dangled = listed]
<1>4. listed \in SUBSET Items /\ listed \in SUBSET Names  BY DEF Items, Names
<1>5. cmd' = [cmd EXCEPT ![c] = u]  BY <1>3 DEF ListToDisconnect, Processes
<1> HIDE DEF listed
<1>6. u \in Processes  BY ZenonT(60), <1>3, <1>4 DEF Processes, Calls, UpCalls
<1>7. /\ u.at = "disconnect" /\ u.todo = listed /\ u.want = cmd[c].want /\ u.networkID = cmd[c].networkID
      /\ u.diverged = cmd[c].diverged /\ u.retried = cmd[c].retried
  BY <1>3 DEF Processes
<1> HIDE DEF u
<1>8. Held /\ Turns(c, "disconnect", listed) /\ Remembers(c)
  BY <1>3, <1>5, <1>6, <1>7 DEF Held, Turns, Only, Remembers
<1>9. EngineOK'  BY <1>1, EngineKept DEF Typed
<1>10. Typed' /\ Acts(c)  BY <1>1, <1>2, <1>4, <1>8, <1>9, UpTurns DEF Quiet
<1> QED  BY <1>1, <1>8, <1>10 DEF Moves, listed

LEMMA ResourcesTyped ==
  /\ NoNetwork \in Resources /\ NoNetwork.id = None /\ NoNetwork.hash = "none"
  /\ NoVolume \in Resources /\ NoVolume.id = None /\ NoVolume.hash = "none"
BY DEF NoNetwork, NoVolume, Resources, None

LEMMA RemoveNetworkDoes ==
  ASSUME Typed, NEW c \in Commands, RemoveNetwork(c)
  PROVE  \/ Fails(c)
         \/ /\ Typed' /\ Acts(c) /\ Turns(c, "list networks", {}) /\ Remembers(c)
            /\ At(c, "up", "remove network")
            /\ network.id # None /\ Attached = {} /\ network' = NoNetwork /\ UNCHANGED <<volume, ctr, nextID>>
<1> SUFFICES ASSUME ~Fails(c)
             PROVE  /\ Typed' /\ Acts(c) /\ Turns(c, "list networks", {}) /\ Remembers(c)
                    /\ At(c, "up", "remove network")
                    /\ network.id # None /\ Attached = {} /\ network' = NoNetwork /\ UNCHANGED <<volume, ctr, nextID>>
  OBVIOUS
<1>1. /\ At(c, "up", "remove network") /\ Goes(c, "list networks", {}) /\ Quiet
      /\ network.id # None /\ Attached = {} /\ network' = NoNetwork /\ UNCHANGED <<volume, ctr, nextID>>
  BY DEF RemoveNetwork
<1>2. "remove network" \in UpCalls /\ "list networks" \in UpCalls /\ {} \in SUBSET Items
      BY DEF UpCalls
<1>3. EngineOK'  BY <1>1, ResourcesTyped DEF Typed, EngineOK
<1> QED  BY <1>1, <1>2, <1>3, UpGoes

LEMMA ListNetworksDoes ==
  ASSUME Typed, NEW c \in Commands, ListNetworks(c)
  PROVE  /\ Typed'
         /\ \/ network.id = None /\ Moves(c, "list networks", "create network", {}) /\ Remembers(c)
            \/ /\ network.id # None /\ Moves(c, "list networks", "inspect volume", {})
               /\ cmd'[c].networkID = network.id /\ cmd'[c].retried = cmd[c].retried
<1>1. At(c, "up", "list networks") /\ UNCHANGED engine  BY DEF ListNetworks
<1>2. "list networks" \in UpCalls /\ "inspect volume" \in UpCalls /\ "create network" \in UpCalls /\ {} \in SUBSET Items
      BY DEF UpCalls
<1>3. CASE network.id = None
  <2>1. Goes(c, "create network", {}) /\ Quiet  BY <1>3 DEF ListNetworks
  <2> QED  BY <1>1, <1>2, <1>3, <2>1, UpMoves
<1>4. CASE network.id # None
  <2>1. HasNetwork(c, network.id, "inspect volume", {}) /\ UNCHANGED <<begun, deaths, period>>
    BY <1>4 DEF ListNetworks, Forgets
  <2>2. EngineOK'  BY <1>1, EngineKept DEF Typed
  <2>3. network.id \in Nat  BY NetworkTyped DEF Typed
  <2> QED  BY <1>1, <1>2, <1>4, <2>1, <2>2, <2>3, FindsNetwork DEF Moves
<1> QED  BY <1>3, <1>4

LEMMA UpWants ==
  ASSUME Typed, NEW c \in Commands, NEW from \in UpCalls, At(c, "up", from)
  PROVE  /\ c \in Active /\ cmd[c].want \in Wants
         /\ cmd[c].want.network \in Configs /\ cmd[c].want.volume \in Configs
         /\ ~cmd[c].want.removeVolumes
<1>1. cmd[c].at \notin Ended /\ PlaceOK(c) /\ cmd[c].want.kind = "up"  BY CallsDiffer DEF At, Typed
<1>2. cmd[c].want \in Wants /\ c \in Active  BY <1>1 DEF PlaceOK, Active
<1> QED  BY <1>1, <1>2 DEF Wants

LEMMA CreateNetworkDoes ==
  ASSUME Typed, NEW c \in Commands, CreateNetwork(c)
  PROVE  /\ Typed' /\ Acts(c) /\ Turns(c, "connect", cmd[c].dangled)
         /\ cmd'[c].networkID = nextID /\ cmd'[c].diverged = cmd[c].diverged /\ cmd'[c].retried = cmd[c].retried
         /\ At(c, "up", "create network")
         /\ network.id = None /\ network'.id = nextID /\ network'.hash = cmd[c].want.network /\ nextID # None
         /\ UNCHANGED <<volume, ctr>>
<1>1. /\ At(c, "up", "create network") /\ HasNetwork(c, nextID, "connect", cmd[c].dangled) /\ Quiet
      /\ network.id = None /\ network' = [id |-> nextID, hash |-> cmd[c].want.network] /\ nextID' = nextID + 1
      /\ UNCHANGED <<volume, ctr>>
  BY DEF CreateNetwork
<1>2. "create network" \in UpCalls /\ "connect" \in UpCalls /\ {} \in SUBSET Items
      BY DEF UpCalls
<1>3. nextID \in Nat \ {0} /\ nextID' \in Nat \ {0} /\ nextID # None
  <2>1. nextID \in Nat \ {0}  BY DEF Typed, EngineOK
  <2>2. nextID' = nextID + 1  BY <1>1
  <2> QED  BY <2>1, <2>2 DEF None
<1>4. cmd[c].want.network \in Configs  BY <1>1, <1>2, UpWants
<1>5. /\ network' \in Resources /\ network'.id = nextID /\ network'.hash = cmd[c].want.network
      /\ network'.id # None
  BY <1>1, <1>3, <1>4 DEF Resources
<1>6. EngineOK'  BY <1>1, <1>3, <1>5 DEF Typed, EngineOK
<1>7. cmd[c].dangled \in SUBSET Items  BY CommandFields DEF Typed, Items
<1> HIDE DEF None
<1> QED  BY ZenonT(60), <1>1, <1>2, <1>3, <1>5, <1>6, <1>7, FindsNetwork DEF Quiet

LEMMA NetworkNameTakenDoes ==
  ASSUME Typed, NEW c \in Commands, NetworkNameTaken(c)
  PROVE  /\ At(c, "up", "create network") /\ network.id # None
         /\ \/ Fails(c) /\ cmd[c].retried
            \/ Typed' /\ Moves(c, "create network", "inspect network", cmd[c].todo)
<1>1. At(c, "up", "create network") /\ network.id # None  BY DEF NetworkNameTaken
<1>2. CASE cmd[c].retried
  <2>1. Fails(c)  BY <1>2 DEF NetworkNameTaken
  <2> QED  BY <1>1, <1>2, <2>1
<1>3. CASE ~cmd[c].retried
  <2>1. UNCHANGED engine /\ UNCHANGED <<begun, deaths, period>>  BY <1>3 DEF NetworkNameTaken, Forgets
  <2>2. "create network" \in UpCalls /\ "inspect network" \in UpCalls /\ {} \in SUBSET Items
      BY DEF UpCalls
  <2>3. cmd \in [Commands -> Processes]  BY DEF Typed, BooksOK
  <2> DEFINE u == [cmd[c] EXCEPT !.at = "inspect network", !.dangled = {}, !.retried = TRUE]
  <2>4. cmd' = [cmd EXCEPT ![c] = u]  BY <1>3, <2>3 DEF NetworkNameTaken, Processes
  <2>5. u \in Processes  BY ZenonT(60), <2>3 DEF Processes, Calls, UpCalls
  <2>6. u.at = "inspect network" /\ u.todo = cmd[c].todo /\ u.want = cmd[c].want  BY <2>3 DEF Processes
  <2> HIDE DEF u
  <2>7. Held /\ Turns(c, "inspect network", cmd[c].todo)
    BY <2>3, <2>4, <2>5, <2>6 DEF Held, Turns, Only
  <2>8. EngineOK'  BY <2>1, EngineKept DEF Typed
  <2>9. cmd[c].todo \in SUBSET Items  BY CommandFields DEF Typed
  <2>10. Typed' /\ Acts(c)  BY <1>1, <2>1, <2>2, <2>7, <2>8, <2>9, UpTurns
  <2> QED  BY <1>1, <2>1, <2>7, <2>10 DEF Moves
<1> QED  BY <1>2, <1>3

LEMMA InspectVolumeDoes ==
  ASSUME Typed, NEW c \in Commands, InspectVolume(c)
  PROVE  /\ Typed' /\ Remembers(c)
         /\ \/ volume.id = None /\ Moves(c, "inspect volume", "create volume", {})
            \/ /\ VolumeDiverged(c) /\ cmd[c].want.confirms
               /\ Moves(c, "inspect volume", "stop for volume", Services \cap Exist)
            \/ ~(VolumeDiverged(c) /\ cmd[c].want.confirms) /\ Moves(c, "inspect volume", "list", {})
<1>1. At(c, "up", "inspect volume") /\ UNCHANGED engine /\ Quiet  BY DEF InspectVolume
<1>2. /\ "inspect volume" \in UpCalls /\ "create volume" \in UpCalls /\ "stop for volume" \in UpCalls
      /\ "list" \in UpCalls /\ {} \in SUBSET Items
      BY DEF UpCalls
<1>3. CASE volume.id = None
  <2>1. Goes(c, "create volume", {})  BY <1>3 DEF InspectVolume, VolumeDiverged
  <2> QED  BY <1>1, <1>2, <1>3, <2>1, UpMoves
<1>4. CASE VolumeDiverged(c) /\ cmd[c].want.confirms
  <2>1. Goes(c, "stop for volume", Services \cap Exist)  BY <1>4 DEF InspectVolume, VolumeDiverged
  <2>2. Services \cap Exist \in SUBSET Items  BY DEF Items, Names
  <2> QED  BY <1>1, <1>2, <1>4, <2>1, <2>2, UpMoves
<1>5. CASE volume.id # None /\ ~(VolumeDiverged(c) /\ cmd[c].want.confirms)
  <2>1. Goes(c, "list", {})  BY <1>5 DEF InspectVolume
  <2> QED  BY <1>1, <1>2, <1>5, <2>1, UpMoves
<1> QED  BY <1>3, <1>4, <1>5

LEMMA LoopsEnd ==
  ASSUME Typed, NEW c \in Commands
  PROVE  /\ DisconnectedAll(c) =>
              Typed' /\ Moves(c, "disconnect", "remove network", {}) /\ Remembers(c)
         /\ ConnectedAll(c) => Typed' /\ Moves(c, "connect", "inspect volume", {}) /\ Remembers(c)
         /\ StoppedForVolume(c) =>
              Typed' /\ Moves(c, "stop for volume", "remove for volume", Services \cap Exist) /\ Remembers(c)
         /\ RemovedForVolume(c) =>
              Typed' /\ Moves(c, "remove for volume", "remove volume", {}) /\ Remembers(c)
         /\ RemovedOrphans(c) => Typed' /\ Moves(c, "remove orphans", "converge", Services) /\ Remembers(c)
         /\ Converged(c) =>
              Typed' /\ Moves(c, "converge", "list to start", {}) /\ Remembers(c) /\ cmd[c].todo = {}
<1>1. {} \in SUBSET Items /\ Services \in SUBSET Items /\ Services \cap Exist \in SUBSET Items
  BY DEF Items, Names
<1>2. DisconnectedAll(c) => Typed' /\ Moves(c, "disconnect", "remove network", {}) /\ Remembers(c)
  <2>1. "disconnect" \in UpCalls /\ "remove network" \in UpCalls  BY DEF UpCalls
  <2> QED  BY <1>1, <2>1, ThenMoves DEF DisconnectedAll
<1>3. ConnectedAll(c) => Typed' /\ Moves(c, "connect", "inspect volume", {}) /\ Remembers(c)
  <2>1. "connect" \in UpCalls /\ "inspect volume" \in UpCalls  BY DEF UpCalls
  <2> QED  BY <1>1, <2>1, ThenMoves DEF ConnectedAll
<1>4. StoppedForVolume(c) =>
        Typed' /\ Moves(c, "stop for volume", "remove for volume", Services \cap Exist) /\ Remembers(c)
  <2>1. "stop for volume" \in UpCalls /\ "remove for volume" \in UpCalls  BY DEF UpCalls
  <2> QED  BY <1>1, <2>1, ThenMoves DEF StoppedForVolume
<1>5. RemovedForVolume(c) => Typed' /\ Moves(c, "remove for volume", "remove volume", {}) /\ Remembers(c)
  <2>1. "remove for volume" \in UpCalls /\ "remove volume" \in UpCalls  BY DEF UpCalls
  <2> QED  BY <1>1, <2>1, ThenMoves DEF RemovedForVolume
<1>6. RemovedOrphans(c) => Typed' /\ Moves(c, "remove orphans", "converge", Services) /\ Remembers(c)
  <2>1. "remove orphans" \in UpCalls /\ "converge" \in UpCalls  BY DEF UpCalls
  <2> QED  BY <1>1, <2>1, ThenMoves DEF RemovedOrphans
<1>7. Converged(c) => Typed' /\ Moves(c, "converge", "list to start", {}) /\ Remembers(c) /\ cmd[c].todo = {}
  <2>1. "converge" \in UpCalls /\ "list to start" \in UpCalls  BY DEF UpCalls
  <2> QED  BY <1>1, <2>1, ThenMoves DEF Converged
<1> QED  BY <1>2, <1>3, <1>4, <1>5, <1>6, <1>7

LEMMA RemoveVolumeDoes ==
  ASSUME Typed, NEW c \in Commands, RemoveVolume(c)
  PROVE  \/ Fails(c)
         \/ /\ Typed' /\ Acts(c) /\ Turns(c, "create volume", {}) /\ Remembers(c)
            /\ At(c, "up", "remove volume")
            /\ Exist = {} /\ volume' = NoVolume /\ UNCHANGED <<network, ctr, nextID>>
<1> SUFFICES ASSUME ~Fails(c)
             PROVE  /\ Typed' /\ Acts(c) /\ Turns(c, "create volume", {}) /\ Remembers(c)
                    /\ At(c, "up", "remove volume")
                    /\ Exist = {} /\ volume' = NoVolume /\ UNCHANGED <<network, ctr, nextID>>
  OBVIOUS
<1>1. /\ At(c, "up", "remove volume") /\ Goes(c, "create volume", {}) /\ Quiet
      /\ Exist = {} /\ volume' = NoVolume /\ UNCHANGED <<network, ctr, nextID>>
  BY DEF RemoveVolume
<1>2. "remove volume" \in UpCalls /\ "create volume" \in UpCalls /\ {} \in SUBSET Items  BY DEF UpCalls
<1>3. EngineOK'  BY <1>1, ResourcesTyped DEF Typed, EngineOK
<1> QED  BY <1>1, <1>2, <1>3, UpGoes

\* A volume that is made is of this hash.
Made(hash) == volume.id = None /\ volume'.id # None /\ volume'.hash = hash

LEMMA VolumeMade ==
  ASSUME EngineOK, NEW hash \in Configs \cup {"none"}, UNCHANGED network, ctr' \in [Names -> Containers],
         IF volume.id = None
         THEN volume' = [id |-> nextID, hash |-> hash] /\ nextID' = nextID + 1
         ELSE UNCHANGED <<volume, nextID>>
  PROVE  EngineOK' /\ (UNCHANGED volume \/ Made(hash))
<1>1. nextID \in Nat \ {0}  BY DEF EngineOK
<1>2. CASE volume.id = None
  <2>1. volume' = [id |-> nextID, hash |-> hash] /\ nextID' = nextID + 1  BY <1>2
  <2>2. nextID' \in Nat \ {0} /\ nextID # None  BY <1>1, <2>1 DEF None
  <2>3. volume' \in Resources /\ volume'.id = nextID /\ volume'.hash = hash  BY <1>1, <2>1 DEF Resources
  <2>4. EngineOK'  BY <2>2, <2>3 DEF EngineOK
  <2> QED  BY <1>2, <2>2, <2>3, <2>4 DEF Made
<1>3. CASE volume.id # None
  <2>1. UNCHANGED <<volume, nextID>>  BY <1>3
  <2> QED  BY <2>1 DEF EngineOK
<1> QED  BY <1>2, <1>3

LEMMA CreateVolumeDoes ==
  ASSUME Typed, NEW c \in Commands, CreateVolume(c)
  PROVE  /\ Typed' /\ Acts(c) /\ Turns(c, "list", {}) /\ Remembers(c)
         /\ At(c, "up", "create volume")
         /\ UNCHANGED volume \/ Made(cmd[c].want.volume)
         /\ UNCHANGED <<network, ctr>>
<1>1. /\ At(c, "up", "create volume") /\ Goes(c, "list", {}) /\ Quiet /\ UNCHANGED <<network, ctr>>
      /\ IF volume.id = None
         THEN volume' = [id |-> nextID, hash |-> cmd[c].want.volume] /\ nextID' = nextID + 1
         ELSE UNCHANGED <<volume, nextID>>
  BY DEF CreateVolume
<1>2. "create volume" \in UpCalls /\ "list" \in UpCalls /\ {} \in SUBSET Items  BY DEF UpCalls
<1>3. cmd[c].want.volume \in Configs  BY <1>1, <1>2, UpWants
<1>4. EngineOK /\ ctr' \in [Names -> Containers]  BY <1>1 DEF Typed, EngineOK
<1>5. EngineOK' /\ (UNCHANGED volume \/ Made(cmd[c].want.volume))  BY <1>1, <1>3, <1>4, VolumeMade
<1> QED  BY <1>1, <1>2, <1>5, UpGoes

LEMMA ListDoes ==
  ASSUME Typed, NEW c \in Commands, List(c)
  PROVE  /\ Typed' /\ \E todo : Moves(c, "list", "remove orphans", todo)
         /\ cmd'[c].diverged = MustRecreate(cmd[c].networkID) /\ ~cmd'[c].retried
<1>1. At(c, "up", "list") /\ UNCHANGED engine /\ Quiet  BY DEF List
<1>2. "list" \in UpCalls /\ "remove orphans" \in UpCalls  BY DEF UpCalls
<1>3. cmd \in [Commands -> Processes]  BY DEF Typed, BooksOK
<1> DEFINE orphans == IF cmd[c].want.removeOrphans THEN Orphans \cap Exist ELSE {}
           missing == Services \ Exist
           diverged == MustRecreate(cmd[c].networkID)
           u == [cmd[c] EXCEPT !.at = "remove orphans", !.todo = orphans, !.missing = missing,
                               !.diverged = diverged, !.networkID = None, !.dangled = {}, !.retried = FALSE]
<1>4. orphans \in SUBSET Items /\ missing \in SUBSET Names /\ diverged \in SUBSET Names /\ None \in Nat
  BY DEF Items, Names, MustRecreate, None
<1>5. cmd' = [cmd EXCEPT ![c] = u]  BY <1>3 DEF List, Processes
<1> HIDE DEF orphans, missing, diverged
<1>6. u \in Processes
  <2>1. cmd[c] \in Processes  BY <1>3
  <2>2. "remove orphans" \in Calls  BY DEF Calls, UpCalls
  <2> QED  BY <1>4, <2>1, <2>2 DEF Processes
<1>7. /\ u.at = "remove orphans" /\ u.todo = orphans /\ u.want = cmd[c].want /\ u.diverged = diverged
      /\ u.retried = FALSE
  BY <1>3 DEF Processes
<1> HIDE DEF u
<1>8. Held /\ Turns(c, "remove orphans", orphans) /\ cmd'[c].diverged = diverged /\ cmd'[c].retried = FALSE
  BY <1>3, <1>5, <1>6, <1>7 DEF Held, Turns, Only
<1>9. EngineOK'  BY <1>1, EngineKept DEF Typed
<1>10. Typed' /\ Acts(c)  BY <1>1, <1>2, <1>4, <1>8, <1>9, UpTurns DEF Quiet
<1>11. Moves(c, "list", "remove orphans", orphans)  BY <1>1, <1>8, <1>10 DEF Moves
<1> QED  BY <1>8, <1>10, <1>11 DEF diverged

LEMMA CreatesDoes ==
  ASSUME Typed, NEW c \in Commands, NEW n \in cmd[c].todo, At(c, "up", "converge"), Creates(c, n)
  PROVE  /\ Typed' /\ Acts(c) /\ Turns(c, "converge", cmd[c].todo \ {n}) /\ Remembers(c)
         /\ \A m \in Names : ctr'[m] = IF m = n THEN NewContainer ELSE ctr[m]
         /\ UNCHANGED volume \/ Made("none")
         /\ UNCHANGED network
<1>1. /\ Does(c, n) /\ Quiet /\ UNCHANGED network /\ ctr' = [ctr EXCEPT ![n] = NewContainer]
      /\ IF volume.id = None
         THEN volume' = [id |-> nextID, hash |-> "none"] /\ nextID' = nextID + 1
         ELSE UNCHANGED <<volume, nextID>>
  BY DEF Creates
<1>2. BooksOK /\ EngineOK /\ cmd[c].at = "converge"  BY DEF Typed, At
<1>3. Held /\ Turns(c, "converge", cmd[c].todo \ {n}) /\ Remembers(c)  BY <1>1, <1>2, DoesTurns
<1>4. NewContainer \in Containers  BY DEF NewContainer, Containers, States, Endpoints
<1>5. ctr \in [Names -> Containers]  BY <1>2 DEF EngineOK
<1>6. ctr' \in [Names -> Containers] /\ \A m \in Names : ctr'[m] = IF m = n THEN NewContainer ELSE ctr[m]
  BY <1>1, <1>4, <1>5
<1>7. EngineOK' /\ (UNCHANGED volume \/ Made("none"))  BY <1>1, <1>2, <1>6, VolumeMade
<1>8. "converge" \in UpCalls  BY DEF UpCalls
<1>9. cmd[c].todo \ {n} \in SUBSET Items  BY <1>2, CommandFields
<1>10. Typed' /\ Acts(c)  BY <1>1, <1>3, <1>7, <1>8, <1>9, UpTurns DEF Quiet
<1> QED  BY <1>1, <1>3, <1>6, <1>7, <1>10

\* What creating or recreating the container of n does.
Converges(c, n) ==
  /\ At(c, "up", "converge") /\ n \in cmd[c].todo
  /\ Acts(c) /\ Turns(c, "converge", cmd[c].todo \ {n}) /\ Remembers(c)
  /\ \A m \in Names : ctr'[m] = IF m = n THEN NewContainer ELSE ctr[m]
  /\ UNCHANGED volume \/ Made("none")
  /\ UNCHANGED network

LEMMA CreateContainerDoes ==
  ASSUME Typed, NEW c \in Commands, CreateContainer(c) \/ RecreateContainer(c)
  PROVE  (At(c, "up", "converge") /\ Fails(c)) \/ (Typed' /\ \E n \in cmd[c].todo : Converges(c, n))
<1>1. At(c, "up", "converge") /\ (Fails(c) \/ \E n \in cmd[c].todo : Creates(c, n))
  BY DEF CreateContainer, RecreateContainer
<1> QED  BY <1>1, CreatesDoes DEF Converges

LEMMA KeepContainerDoes ==
  ASSUME Typed, NEW c \in Commands, KeepContainer(c)
  PROVE  /\ Typed' /\ Remembers(c)
         /\ \E n \in cmd[c].todo :
              n \notin cmd[c].diverged /\ Moves(c, "converge", "converge", cmd[c].todo \ {n})
<1>1. PICK n \in cmd[c].todo :
        /\ At(c, "up", "converge") /\ Does(c, n) /\ UNCHANGED engine /\ Quiet
        /\ n \notin cmd[c].diverged
  BY DEF KeepContainer
<1>2. BooksOK /\ EngineOK /\ cmd[c].at = "converge"  BY <1>1 DEF Typed, At
<1>3. Held /\ Turns(c, "converge", cmd[c].todo \ {n}) /\ Remembers(c)  BY <1>1, <1>2, DoesTurns
<1>4. EngineOK'  BY <1>1, <1>2, EngineKept
<1>5. "converge" \in UpCalls  BY DEF UpCalls
<1>6. cmd[c].todo \ {n} \in SUBSET Items  BY <1>2, CommandFields
<1>7. Typed' /\ Acts(c)  BY <1>1, <1>3, <1>4, <1>5, <1>6, UpTurns DEF Quiet
<1> QED  BY <1>1, <1>3, <1>7 DEF Moves

LEMMA ListToStartDoes ==
  ASSUME Typed, NEW c \in Commands, ListToStart(c)
  PROVE  \/ At(c, "up", "list to start") /\ Fails(c)
         \/ Typed' /\ Moves(c, "list to start", "start", Services \ Running) /\ Remembers(c)
<1>1. At(c, "up", "list to start")  BY DEF ListToStart
<1>2. "list to start" \in UpCalls /\ "start" \in UpCalls  BY DEF UpCalls
<1>3. Services \ Running \in SUBSET Items  BY DEF Items, Names
<1>4. Fails(c) \/ (Goes(c, "start", Services \ Running) /\ UNCHANGED engine /\ Quiet)
  BY DEF ListToStart
<1> QED  BY <1>1, <1>2, <1>3, <1>4, UpMoves

\* down.

LEMMA DownTurns ==
  ASSUME Typed, NEW c \in Commands, NEW from \in DownCalls, NEW call \in DownCalls, NEW todo \in SUBSET Items,
         At(c, "down", from), Turns(c, call, todo), Held, EngineOK', Quiet,
         call = "remove" => todo \subseteq Scope(cmd[c].want),
         call = "resources" => /\ "remove network" \in todo => "inspect network" \notin todo
                               /\ "volume" \in todo => cmd[c].want.removeVolumes
  PROVE  Typed' /\ Acts(c)
<1>1. cmd[c].want.kind = "down" /\ cmd[c].at = from /\ cmd[c].at \notin Ended
  BY CallsDiffer DEF At
<1>2. /\ cmd'[c].at = call /\ cmd'[c].todo = todo /\ cmd'[c].want = cmd[c].want
      /\ cmd'[c].at \notin Ended /\ Only(c)
  BY CallsDiffer DEF Turns
<1>3. PlaceOK(c)  BY DEF Typed
<1>4. PlaceOK(c)'  BY <1>1, <1>2, <1>3 DEF PlaceOK, Scope
<1>5. Typed'  BY <1>2, <1>4, TypedKept DEF Quiet
<1> QED  BY <1>1, <1>2, <1>5 DEF Acts, Active, Quiet

LEMMA DownWants ==
  ASSUME Typed, NEW c \in Commands, NEW from \in DownCalls, At(c, "down", from)
  PROVE  /\ c \in Active /\ cmd[c].want \in Wants /\ cmd[c].want.removeVolumes \in BOOLEAN
         /\ cmd[c].want.removeOrphans \in BOOLEAN
<1>1. cmd[c].at \notin Ended /\ PlaceOK(c)  BY CallsDiffer DEF At, Typed
<1>2. cmd[c].want \in Wants /\ c \in Active  BY <1>1 DEF PlaceOK, Active
<1> QED  BY <1>2 DEF Wants

LEMMA ListToRemoveDoes ==
  ASSUME Typed, NEW c \in Commands, ListToRemove(c)
  PROVE  /\ Typed' /\ Acts(c) /\ At(c, "down", "list") /\ UNCHANGED engine
         /\ Turns(c, "remove", Scope(cmd[c].want) \cap Exist)
<1> DEFINE todo == {n \in Exist : n \in Services \/ cmd[c].want.removeOrphans}
<1>1. At(c, "down", "list") /\ Goes(c, "remove", todo) /\ UNCHANGED engine /\ Quiet  BY DEF ListToRemove
<1>2. todo = Scope(cmd[c].want) \cap Exist  BY DEF Scope, Exist
<1>3. todo \in SUBSET Items /\ todo \subseteq Scope(cmd[c].want)  BY <1>2 DEF Items, Scope
<1> HIDE DEF todo
<1>4. "list" \in DownCalls /\ "remove" \in DownCalls /\ "remove" \in Calls /\ "remove" # "resources"
  BY DEF DownCalls, Calls
<1>5. BooksOK /\ EngineOK'  BY <1>1, EngineKept DEF Typed
<1>6. Held /\ Turns(c, "remove", todo)  BY <1>1, <1>3, <1>4, <1>5, GoesTurns
<1>7. Typed' /\ Acts(c)  BY <1>1, <1>3, <1>4, <1>5, <1>6, DownTurns
<1> QED  BY <1>1, <1>2, <1>6, <1>7

LEMMA RemoveContainerDoes ==
  ASSUME Typed, NEW c \in Commands, RemoveContainer(c)
  PROVE  /\ Typed' /\ Acts(c) /\ At(c, "down", "remove")
         /\ UNCHANGED <<network, volume, nextID>>
         /\ \E n \in cmd[c].todo :
              /\ Turns(c, "remove", cmd[c].todo \ {n})
              /\ \A m \in Names : ctr'[m] = IF m = n THEN NoContainer ELSE ctr[m]
<1>1. PICK n \in cmd[c].todo :
        /\ At(c, "down", "remove") /\ Does(c, n) /\ Quiet
        /\ ctr' = [m \in Names |-> IF m \in {n} THEN NoContainer ELSE ctr[m]]
        /\ UNCHANGED <<network, volume, nextID>>
  BY DEF RemoveContainer, ForEach, OnContainers, Tolerated, Removed
<1>2. BooksOK /\ EngineOK /\ cmd[c].at = "remove" /\ PlaceOK(c)  BY <1>1 DEF Typed, At
<1>3. Held /\ Turns(c, "remove", cmd[c].todo \ {n})  BY <1>1, <1>2, DoesTurns
<1>4. ctr \in [Names -> Containers]  BY <1>2 DEF EngineOK
<1>5. ctr' \in [Names -> Containers] /\ \A m \in Names : ctr'[m] = IF m = n THEN NoContainer ELSE ctr[m]
  BY <1>1, <1>4, EmptyIsTyped
<1>6. EngineOK'  BY <1>1, <1>2, <1>5 DEF EngineOK
<1>7. cmd[c].todo \ {n} \in SUBSET Items  BY <1>2, CommandFields
<1>8. "remove" \in DownCalls /\ "remove" # "resources"  BY DEF DownCalls
<1>9. cmd[c].todo \ {n} \subseteq Scope(cmd[c].want)  BY <1>2 DEF PlaceOK
<1>10. Typed' /\ Acts(c)  BY <1>1, <1>3, <1>6, <1>7, <1>8, <1>9, DownTurns
<1> QED  BY <1>1, <1>3, <1>5, <1>10

LEMMA RemovedContainersDoes ==
  ASSUME Typed, NEW c \in Commands, RemovedContainers(c)
  PROVE  /\ Typed' /\ Acts(c) /\ At(c, "down", "remove") /\ cmd[c].todo = {} /\ UNCHANGED engine
         /\ Turns(c, "resources",
                  IF cmd[c].want.removeVolumes THEN {"inspect network", "volume"} ELSE {"inspect network"})
<1> DEFINE todo == IF cmd[c].want.removeVolumes THEN {"inspect network", "volume"} ELSE {"inspect network"}
<1>1. At(c, "down", "remove") /\ cmd[c].todo = {} /\ Goes(c, "resources", todo) /\ UNCHANGED engine /\ Quiet
  BY DEF RemovedContainers, Then
<1>2. "remove" \in DownCalls /\ "resources" \in DownCalls /\ "resources" \in Calls /\ "remove" # "resources"
  BY DEF DownCalls, Calls
<1>3. /\ todo \in SUBSET Items /\ "remove network" \notin todo
      /\ "volume" \in todo => cmd[c].want.removeVolumes
  BY DEF Items
<1> HIDE DEF todo
<1>4. BooksOK /\ EngineOK'  BY <1>1, EngineKept DEF Typed
<1>5. Held /\ Turns(c, "resources", todo)  BY <1>1, <1>2, <1>3, <1>4, GoesTurns
<1>6. Typed' /\ Acts(c)  BY <1>1, <1>2, <1>3, <1>4, <1>5, DownTurns
<1> QED  BY <1>1, <1>5, <1>6 DEF todo

LEMMA InspectToRemoveDoes ==
  ASSUME Typed, NEW c \in Commands, InspectToRemove(c)
  PROVE  /\ Typed' /\ Acts(c) /\ At(c, "down", "resources") /\ UNCHANGED engine
         /\ "inspect network" \in cmd[c].todo
         /\ cmd'[c].networkID = network.id
         /\ Turns(c, "resources",
                  (cmd[c].todo \ {"inspect network"}) \cup
                  (IF network.id = None \/ network.hash = "foreign" \/ Attached # {} THEN {} ELSE {"remove network"}))
<1> DEFINE todo == (cmd[c].todo \ {"inspect network"}) \cup
             (IF network.id = None \/ network.hash = "foreign" \/ Attached # {} THEN {} ELSE {"remove network"})
           u == [cmd[c] EXCEPT !.todo = todo, !.networkID = network.id]
<1>1. At(c, "down", "resources") /\ "inspect network" \in cmd[c].todo /\ UNCHANGED engine /\ Quiet
  BY DEF InspectToRemove, Resource
<1>2. cmd \in [Commands -> Processes] /\ BooksOK /\ EngineOK' /\ cmd[c].at = "resources" /\ PlaceOK(c)
  BY <1>1, EngineKept DEF Typed, BooksOK, At
<1>3. cmd' = [cmd EXCEPT ![c] = u]  BY <1>2 DEF InspectToRemove, Processes
<1>4. /\ todo \in SUBSET Items /\ "inspect network" \notin todo
      /\ "volume" \in todo => cmd[c].want.removeVolumes
  <2>1. cmd[c].todo \in SUBSET Items  BY <1>2, CommandFields
  <2>2. "volume" \in cmd[c].todo => cmd[c].want.removeVolumes  BY <1>2 DEF PlaceOK
  <2> QED  BY <2>1, <2>2 DEF Items
<1>5. network.id \in Nat  BY NetworkTyped DEF Typed
<1> HIDE DEF todo
<1>6. u \in Processes  BY <1>2, <1>4, <1>5 DEF Processes
<1>7. u.at = "resources" /\ u.todo = todo /\ u.want = cmd[c].want /\ u.networkID = network.id
  BY <1>2 DEF Processes
<1> HIDE DEF u
<1>8. Held /\ Turns(c, "resources", todo) /\ cmd'[c].networkID = network.id
  BY <1>2, <1>3, <1>6, <1>7 DEF Held, Turns, Only
<1>9. "resources" \in DownCalls /\ "remove" # "resources"  BY DEF DownCalls
<1>10. Typed' /\ Acts(c)  BY <1>1, <1>2, <1>4, <1>8, <1>9, DownTurns
<1> QED  BY <1>1, <1>8, <1>10 DEF todo

\* One of the two goroutines is done.
LEMMA GoroutineEnds ==
  ASSUME Typed, NEW c \in Commands, NEW op, At(c, "down", "resources"), Does(c, op), EngineOK', Quiet
  PROVE  Typed' /\ Acts(c) /\ Turns(c, "resources", cmd[c].todo \ {op}) /\ Remembers(c)
<1>1. BooksOK /\ cmd[c].at = "resources" /\ PlaceOK(c)  BY DEF Typed, At
<1>2. Held /\ Turns(c, "resources", cmd[c].todo \ {op}) /\ Remembers(c)  BY <1>1, DoesTurns
<1>3. cmd[c].todo \ {op} \in SUBSET Items  BY <1>1, CommandFields
<1>4. "resources" \in DownCalls /\ "remove" # "resources"  BY DEF DownCalls
<1>5. /\ "remove network" \in cmd[c].todo \ {op} => "inspect network" \notin cmd[c].todo \ {op}
      /\ "volume" \in cmd[c].todo \ {op} => cmd[c].want.removeVolumes
  BY <1>1 DEF PlaceOK
<1>6. Typed' /\ Acts(c)  BY <1>2, <1>3, <1>4, <1>5, DownTurns
<1> QED  BY <1>2, <1>6

LEMMA RemoveInspectedDoes ==
  ASSUME Typed, NEW c \in Commands, RemoveInspected(c)
  PROVE  /\ At(c, "down", "resources") /\ "remove network" \in cmd[c].todo
         /\ \/ Fails(c)
            \/ /\ Typed' /\ Acts(c) /\ Turns(c, "resources", cmd[c].todo \ {"remove network"}) /\ Remembers(c)
               /\ \/ network.id # cmd[c].networkID /\ UNCHANGED engine
                  \/ network' = NoNetwork /\ UNCHANGED <<volume, ctr, nextID>>
<1>1. At(c, "down", "resources") /\ "remove network" \in cmd[c].todo  BY DEF RemoveInspected, Resource
<1>2. \/ Fails(c)
      \/ /\ Does(c, "remove network") /\ Quiet
         /\ network.id # cmd[c].networkID /\ UNCHANGED engine
      \/ /\ Does(c, "remove network") /\ Quiet
         /\ network' = NoNetwork /\ UNCHANGED <<volume, ctr, nextID>>
  BY DEF RemoveInspected
<1>3. ASSUME ~Fails(c)
      PROVE  EngineOK'
  <2>1. CASE UNCHANGED engine  BY <2>1, EngineKept DEF Typed
  <2>2. CASE network' = NoNetwork /\ UNCHANGED <<volume, ctr, nextID>>
    BY <2>2, ResourcesTyped DEF Typed, EngineOK
  <2> QED  BY <1>2, <1>3, <2>1, <2>2
<1> QED  BY <1>1, <1>2, <1>3, GoroutineEnds

LEMMA RemoveVolumeDownDoes ==
  ASSUME Typed, NEW c \in Commands, RemoveVolumeDown(c)
  PROVE  /\ Typed' /\ Acts(c) /\ At(c, "down", "resources") /\ "volume" \in cmd[c].todo
         /\ Turns(c, "resources", cmd[c].todo \ {"volume"}) /\ Remembers(c)
         /\ volume' = IF Exist = {} THEN NoVolume ELSE volume
         /\ UNCHANGED <<network, ctr, nextID>>
<1>1. /\ At(c, "down", "resources") /\ "volume" \in cmd[c].todo /\ Does(c, "volume") /\ Quiet
      /\ volume' = IF Exist = {} THEN NoVolume ELSE volume
      /\ UNCHANGED <<network, ctr, nextID>>
  BY DEF RemoveVolumeDown, Resource
<1>2. EngineOK'  BY <1>1, ResourcesTyped DEF Typed, EngineOK
<1> QED  BY <1>1, <1>2, GoroutineEnds

----------------------------------------------------------------------------
(* The beginning of a command, and its ends.                               *)

\* The command is over; the engine is as it was.
Ends(c) ==
  /\ c \in Active /\ Only(c) /\ cmd'[c].at \in Ended
  /\ UNCHANGED engine
  /\ period'.want = period.want /\ period'.same = period.same /\ period'.first = period.first

LEMMA EndedPlace ==
  ASSUME NEW c \in Commands, cmd'[c].at \in Ended, cmd'[c].retried = FALSE
  PROVE  PlaceOK(c)'
BY DEF PlaceOK, Ended

LEMMA EndsTyped ==
  ASSUME Typed, NEW c \in Commands, c \in Active, NEW how \in Ended, cmd' = [cmd EXCEPT ![c] = Idle(how)],
         UNCHANGED engine, period' \in Periods, begun' = begun, deaths' \in 0..Deaths,
         period'.want = period.want /\ period'.same = period.same /\ period'.first = period.first
  PROVE  Typed' /\ Ends(c)
<1>1. BooksOK  BY DEF Typed
<1>2. Held /\ Only(c) /\ cmd'[c].at \in Ended /\ cmd'[c].retried = FALSE  BY <1>1, IdleTurns
<1>3. PlaceOK(c)'  BY <1>2, EndedPlace
<1>4. \A d \in Commands : PlaceOK(d)'  BY <1>2, <1>3, PlacesElsewhere
<1>5. EngineOK'  BY EngineKept DEF Typed
<1>6. BooksOK'  BY <1>1, <1>2 DEF BooksOK, Held
<1> QED  BY <1>2, <1>4, <1>5, <1>6 DEF Typed, Ends

LEMMA FailsDoes ==
  ASSUME Typed, NEW c \in Commands, c \in Active, Fails(c)
  PROVE  /\ Typed' /\ Ends(c) /\ ~period'.ok
         /\ period'.lost = (period.lost \/ cmd[c].at = "create network")
<1>1. /\ cmd' = [cmd EXCEPT ![c] = Idle("failed")] /\ UNCHANGED <<engine, begun, deaths>>
      /\ period' = [period EXCEPT !.ok = FALSE, !.lost = @ \/ cmd[c].at = "create network"]
  BY DEF Fails
<1>2. period \in Periods /\ deaths \in 0..Deaths  BY DEF Typed, BooksOK
<1>3. /\ period' \in Periods
      /\ period'.want = period.want /\ period'.same = period.same /\ period'.first = period.first
      /\ ~period'.ok /\ period'.lost = (period.lost \/ cmd[c].at = "create network")
  BY <1>1, <1>2 DEF Periods
<1>4. "failed" \in Ended  BY DEF Ended
<1> QED  BY <1>1, <1>2, <1>3, <1>4, EndsTyped

LEMMA DiesDoes ==
  ASSUME Typed, NEW c \in Commands, Dies(c)
  PROVE  Typed' /\ Ends(c) /\ ~period'.ok /\ period'.lost = period.lost
<1>1. /\ cmd' = [cmd EXCEPT ![c] = Idle("died")] /\ UNCHANGED <<engine, begun>> /\ c \in Active
      /\ period' = [period EXCEPT !.ok = FALSE]
  BY DEF Dies
<1>2. period \in Periods /\ deaths \in 0..Deaths /\ deaths < Deaths /\ deaths' = deaths + 1
  BY DEF Typed, BooksOK, Dies
<1>3. /\ period' \in Periods
      /\ period'.want = period.want /\ period'.same = period.same /\ period'.first = period.first
      /\ ~period'.ok /\ period'.lost = period.lost
  BY <1>1, <1>2 DEF Periods
<1>4. deaths' \in 0..Deaths  BY <1>2, BoundsAssumption
<1>5. "died" \in Ended  BY DEF Ended
<1> QED  BY <1>1, <1>3, <1>4, <1>5, EndsTyped

LEMMA SucceedsDoes ==
  ASSUME Typed, NEW c \in Commands, c \in Active, Succeeds(c)
  PROVE  Typed' /\ Ends(c) /\ UNCHANGED <<period, adrift>>
<1>1. cmd' = [cmd EXCEPT ![c] = Idle("ok")] /\ UNCHANGED <<engine, begun, deaths, period, adrift>>
  BY DEF Succeeds
<1>2. period' \in Periods /\ deaths' \in 0..Deaths  BY <1>1 DEF Typed, BooksOK
<1>3. "ok" \in Ended  BY DEF Ended
<1> QED  BY <1>1, <1>2, <1>3, EndsTyped

\* A command that begins, in a new period or in the one of those that run.
Begins(c, want) ==
  /\ c \notin Active /\ Only(c)
  /\ cmd'[c].want = want /\ ~cmd'[c].retried
  /\ cmd'[c].at = IF want.kind = "up" THEN "inspect network" ELSE "list"
  /\ UNCHANGED engine
  /\ adrift' = IF Active = {} THEN OffNetwork ELSE adrift
  /\ \/ /\ Active = {}
        /\ period'.want = want /\ period'.same /\ period'.first = c /\ ~period'.lost
     \/ /\ Active # {}
        /\ period'.same => period.same /\ period.want = want
        /\ period'.want = period.want /\ period'.ok = period.ok /\ period'.lost = period.lost
        /\ period'.first = "several"

LEMMA BeginDoes ==
  ASSUME Typed, NEW c \in Commands, Begin(c)
  PROVE  Typed' /\ \E want \in Wants : Begins(c, want)
<1>1. PICK want \in Wants :
        /\ cmd[c].at \in Ended /\ begun < MaxCommands /\ begun' = begun + 1
        /\ cmd' = [cmd EXCEPT ![c] = [Idle("none") EXCEPT
                     !.want = want, !.at = IF want.kind = "up" THEN "inspect network" ELSE "list"]]
        /\ period' = IF Active = {}
                     THEN [want |-> want, same |-> TRUE, ok |-> TRUE, first |-> c, lost |-> FALSE]
                     ELSE [period EXCEPT !.same = @ /\ period.want = want, !.first = "several"]
        /\ UNCHANGED <<engine, deaths>>
        /\ adrift' = IF Active = {} THEN OffNetwork ELSE adrift
  BY DEF Begin
<1> DEFINE call == IF want.kind = "up" THEN "inspect network" ELSE "list"
           u == [Idle("none") EXCEPT !.want = want, !.at = call]
<1>2. BooksOK /\ cmd \in [Commands -> Processes] /\ period \in Periods  BY DEF Typed, BooksOK
<1>3. call \in UpCalls \cup DownCalls /\ call \in Calls  BY DEF UpCalls, DownCalls, Calls
<1>4. u \in Processes /\ u.want = want /\ u.at = call /\ u.retried = FALSE
  <2>1. Idle("none") \in Processes /\ Idle("none").retried = FALSE
    BY DEF Idle, Processes, Nothing, Calls, Ended, None
  <2> HIDE DEF call
  <2> QED  BY <1>3, <2>1 DEF Processes
<1>5. cmd' = [cmd EXCEPT ![c] = u]  BY <1>1
<1>6. call \notin Ended  BY <1>3, CallsDiffer
<1>7. want.kind = "up" => call \in UpCalls  BY DEF UpCalls
<1>8. want.kind = "down" => call \in DownCalls  BY DEF DownCalls
<1>9. call \notin {"remove", "resources"}  OBVIOUS
<1> HIDE DEF u
<1>10. /\ Held /\ Only(c) /\ cmd'[c].want = want /\ cmd'[c].at = call /\ ~cmd'[c].retried
  BY <1>2, <1>4, <1>5 DEF Held, Only
<1>11. PlaceOK(c)'
  <2> HIDE DEF call
  <2> QED  BY <1>6, <1>7, <1>8, <1>9, <1>10 DEF PlaceOK
<1>12. period' \in Periods
  <2>1. CASE Active = {}  BY <1>1, <2>1 DEF Periods
  <2>2. CASE Active # {}  BY <1>1, <1>2, <2>2 DEF Periods
  <2> QED  BY <2>1, <2>2
<1>13. \/ /\ Active = {}
          /\ period'.want = want /\ period'.same /\ period'.first = c /\ ~period'.lost
       \/ /\ Active # {}
          /\ period'.same => period.same /\ period.want = want
          /\ period'.want = period.want /\ period'.ok = period.ok /\ period'.lost = period.lost
          /\ period'.first = "several"
  <2>1. CASE Active = {}  BY <1>1, <2>1
  <2>2. CASE Active # {}  BY <1>1, <1>2, <2>2 DEF Periods
  <2> QED  BY <2>1, <2>2
<1>14. begun' \in 0..MaxCommands
  <2>1. begun \in 0..MaxCommands  BY <1>2 DEF BooksOK
  <2> QED  BY <1>1, <2>1, BoundsAssumption
<1>15. BooksOK'  BY <1>1, <1>2, <1>10, <1>12, <1>14 DEF BooksOK, Held
<1>16. EngineOK'  BY <1>1, EngineKept DEF Typed
<1>17. \A d \in Commands : PlaceOK(d)'  BY <1>10, <1>11, PlacesElsewhere
<1>18. Typed'  BY <1>15, <1>16, <1>17 DEF Typed
<1>19. Begins(c, want)  BY <1>1, <1>10, <1>13 DEF Begins, Active
<1> QED  BY <1>18, <1>19

----------------------------------------------------------------------------
(* What any call of up does to the network and the volume.                 *)

UpStep(c) ==
  /\ Typed' /\ Only(c) /\ cmd'[c].want = cmd[c].want /\ cmd[c].want.kind = "up"
  /\ cmd'[c].at \in Emptying =>
       UNCHANGED volume /\ (cmd[c].at \in Emptying \/ (cmd[c].want.confirms /\ VolumeDiverged(c)))
  /\ cmd'[c].at \in Removers =>
       /\ UNCHANGED network
       /\ cmd[c].at \in Removers \/ (network.id # None /\ network.hash \notin {"none", cmd[c].want.network})
  /\ cmd'[c].at = "list networks" => network.id = None \/ (cmd[c].at = "remove network" /\ network' = NoNetwork)
  /\ cmd'[c].at = "create network" => network.id = None /\ UNCHANGED network
  /\ \/ UNCHANGED network
     \/ cmd[c].at = "remove network" /\ network' = NoNetwork
     \/ /\ cmd[c].at = "create network" /\ cmd'[c].at = "connect"
        /\ network.id = None /\ network'.id # None /\ network'.hash = cmd[c].want.network
  /\ \/ UNCHANGED volume
     \/ volume.id = None
     \/ cmd[c].at = "remove volume" /\ volume' = NoVolume
  /\ cmd'[c].retried =>
       \/ cmd[c].retried
       \/ cmd[c].at = "create network" /\ cmd'[c].at = "inspect network" /\ network.id # None /\ UNCHANGED network

LEMMA ActsIsNoFailure ==
  ASSUME Typed, NEW c \in Commands, Acts(c)
  PROVE  ~Fails(c)
<1> SUFFICES ASSUME Fails(c)  PROVE FALSE
  OBVIOUS
<1>1. cmd' = [cmd EXCEPT ![c] = Idle("failed")]  BY DEF Fails
<1>2. BooksOK /\ "failed" \in Ended  BY DEF Typed, Ended
<1>3. cmd'[c].at \in Ended  BY <1>1, <1>2, IdleTurns
<1> QED  BY <1>3 DEF Acts

LEMMA PlainStep ==
  ASSUME Typed', NEW c \in Commands, NEW from, NEW call, NEW todo, At(c, "up", from), Turns(c, call, todo),
         UNCHANGED network, UNCHANGED volume \/ volume.id = None,
         call \in Emptying => UNCHANGED volume,
         call \in Emptying => from \in Emptying,
         call \in Removers => from \in Removers,
         call \notin {"create network", "list networks"},
         cmd'[c].retried => cmd[c].retried
  PROVE  UpStep(c)
BY DEF At, Turns, UpStep

LEMMA PlainMove ==
  ASSUME Typed', NEW c \in Commands, NEW from, NEW call, NEW todo, Moves(c, from, call, todo), Remembers(c),
         call \in Emptying => from \in Emptying,
         call \in Removers => from \in Removers,
         call \notin {"create network", "list networks"}
  PROVE  UpStep(c)
BY PlainStep DEF Moves, Remembers, engine

LEMMA PlainTreat ==
  ASSUME Typed', NEW c \in Commands, NEW n, NEW k, NEW call, Treats(c, call, n, k),
         call \notin {"create network", "list networks"}
  PROVE  UpStep(c)
BY PlainStep DEF Treats, Remembers

LEMMA EnsureNetworkSteps ==
  ASSUME Typed, NEW c \in Commands, Acts(c), EnsureNetwork(c)
  PROVE  UpStep(c)
<1> USE DEF Removers, Emptying
<1>1. ~Fails(c)  BY ActsIsNoFailure
<1>2. ASSUME InspectNetwork(c)  PROVE UpStep(c)
  <2>1. CASE Typed' /\ network.id = None /\ Moves(c, "inspect network", "list networks", {}) /\ Remembers(c)
    BY <2>1 DEF Moves, At, Turns, Remembers, UpStep, engine
  <2>2. CASE /\ Typed' /\ Moves(c, "inspect network", "inspect volume", {})
             /\ cmd'[c].retried = cmd[c].retried
    BY <2>2, PlainStep DEF Moves, engine
  <2>3. CASE /\ Typed' /\ network.id # None /\ network.hash \notin {"none", cmd[c].want.network}
             /\ Moves(c, "inspect network", "stop for network", Services \cap Exist) /\ Remembers(c)
    BY <2>3 DEF Moves, At, Turns, Remembers, UpStep, engine
  <2> QED  BY <1>1, <1>2, <2>1, <2>2, <2>3, InspectNetworkDoes
<1>3. ASSUME StopForNetwork(c)  PROVE UpStep(c)
  <2>1. PICK n \in Exist : Treats(c, "stop for network", n, Stopped(ctr[n]))  BY <1>1, <1>3, StopForNetworkDoes
  <2>2. Typed'  BY <1>1, <1>3, StopForNetworkDoes
  <2> QED  BY <2>1, <2>2, PlainStep DEF Treats, Remembers
<1>4. ASSUME ListToDisconnect(c)  PROVE UpStep(c)
  <2>1. Typed' /\ Remembers(c)  BY <1>4, ListToDisconnectDoes
  <2>2. PICK todo : Moves(c, "stop for network", "disconnect", todo)  BY <1>4, ListToDisconnectDoes
  <2> QED  BY <2>1, <2>2 DEF Moves, At, Turns, Remembers, UpStep, engine
<1>5. ASSUME Disconnect(c)  PROVE UpStep(c)
  <2>1. PICK n \in Exist : Treats(c, "disconnect", n, Disconnected(ctr[n]))  BY <1>1, <1>5, DisconnectDoes
  <2>2. Typed'  BY <1>1, <1>5, DisconnectDoes
  <2> QED  BY <2>1, <2>2, PlainStep DEF Treats, Remembers
<1>6. ASSUME DisconnectedAll(c)  PROVE UpStep(c)
  BY <1>6, LoopsEnd, PlainMove
<1>7. ASSUME RemoveNetwork(c)  PROVE UpStep(c)
  <2>1. /\ Typed' /\ Turns(c, "list networks", {}) /\ Remembers(c)
        /\ At(c, "up", "remove network") /\ network' = NoNetwork /\ UNCHANGED <<volume, ctr, nextID>>
    BY <1>1, <1>7, RemoveNetworkDoes
  <2> QED  BY <2>1 DEF At, Turns, Remembers, UpStep
<1>8. ASSUME ListNetworks(c)  PROVE UpStep(c)
  <2>1. CASE Typed' /\ network.id = None /\ Moves(c, "list networks", "create network", {}) /\ Remembers(c)
    BY <2>1 DEF Moves, At, Turns, Remembers, UpStep, engine
  <2>2. CASE /\ Typed' /\ Moves(c, "list networks", "inspect volume", {})
             /\ cmd'[c].retried = cmd[c].retried
    BY <2>2, PlainStep DEF Moves, engine
  <2> QED  BY <1>8, <2>1, <2>2, ListNetworksDoes
<1>9. ASSUME CreateNetwork(c)  PROVE UpStep(c)
  <2>1. /\ Typed' /\ Turns(c, "connect", cmd[c].dangled) /\ cmd'[c].retried = cmd[c].retried
        /\ At(c, "up", "create network") /\ UNCHANGED <<volume, ctr>>
        /\ network.id = None /\ network'.id = nextID /\ network'.hash = cmd[c].want.network /\ nextID # None
    BY <1>9, CreateNetworkDoes
  <2> QED  BY <2>1 DEF At, Turns, UpStep
<1>10. ASSUME NetworkNameTaken(c)  PROVE UpStep(c)
  <2>1. /\ Typed' /\ Moves(c, "create network", "inspect network", cmd[c].todo)
        /\ At(c, "up", "create network") /\ network.id # None
    BY <1>1, <1>10, NetworkNameTakenDoes
  <2> QED  BY <2>1 DEF Moves, At, Turns, UpStep, engine
<1>11. ASSUME Connect(c)  PROVE UpStep(c)
  <2>1. PICK n \in Exist : Treats(c, "connect", n, Reconnected(ctr[n]))  BY <1>1, <1>11, ConnectDoes
  <2>2. Typed'  BY <1>1, <1>11, ConnectDoes
  <2> QED  BY <2>1, <2>2, PlainStep DEF Treats, Remembers
<1>12. ASSUME ConnectedAll(c)  PROVE UpStep(c)
  BY <1>12, LoopsEnd, PlainMove
<1> QED  BY <1>2, <1>3, <1>4, <1>5, <1>6, <1>7, <1>8, <1>9, <1>10, <1>11, <1>12 DEF EnsureNetwork

LEMMA EnsureVolumeSteps ==
  ASSUME Typed, NEW c \in Commands, Acts(c), EnsureVolume(c)
  PROVE  UpStep(c)
<1> USE DEF Removers, Emptying
<1>1. ~Fails(c)  BY ActsIsNoFailure
<1>2. ASSUME InspectVolume(c)  PROVE UpStep(c)
  <2>0. Typed' /\ Remembers(c)  BY <1>2, InspectVolumeDoes
  <2>1. CASE Moves(c, "inspect volume", "create volume", {})
    BY <2>0, <2>1, PlainStep DEF Moves, Remembers, engine
  <2>2. CASE /\ VolumeDiverged(c) /\ cmd[c].want.confirms
             /\ Moves(c, "inspect volume", "stop for volume", Services \cap Exist)
    BY <2>0, <2>2 DEF Moves, At, Turns, Remembers, UpStep, engine
  <2>3. CASE Moves(c, "inspect volume", "list", {})
    BY <2>0, <2>3, PlainStep DEF Moves, Remembers, engine
  <2> QED  BY <1>2, <2>1, <2>2, <2>3, InspectVolumeDoes
<1>3. ASSUME StopForVolume(c)  PROVE UpStep(c)
  <2>1. PICK n \in Exist : Treats(c, "stop for volume", n, Stopped(ctr[n]))  BY <1>1, <1>3, StopForVolumeDoes
  <2>2. Typed'  BY <1>1, <1>3, StopForVolumeDoes
  <2> QED  BY <2>1, <2>2, PlainStep DEF Treats, Remembers
<1>4. ASSUME StoppedForVolume(c)  PROVE UpStep(c)
  <2>1. Typed' /\ Remembers(c)  BY <1>4, LoopsEnd
  <2>2. PICK todo : Moves(c, "stop for volume", "remove for volume", todo)  BY <1>4, LoopsEnd
  <2> QED  BY <2>1, <2>2 DEF Moves, At, Turns, Remembers, UpStep, engine
<1>5. ASSUME RemoveForVolume(c)  PROVE UpStep(c)
  BY <1>1, <1>5, RemoveForVolumeDoes, PlainTreat
<1>6. ASSUME RemovedForVolume(c)  PROVE UpStep(c)
  BY <1>6, LoopsEnd, PlainMove
<1>7. ASSUME RemoveVolume(c)  PROVE UpStep(c)
  <2>1. /\ Typed' /\ Turns(c, "create volume", {}) /\ Remembers(c)
        /\ At(c, "up", "remove volume") /\ volume' = NoVolume /\ UNCHANGED <<network, ctr, nextID>>
    BY <1>1, <1>7, RemoveVolumeDoes
  <2> QED  BY <2>1 DEF At, Turns, Remembers, UpStep
<1>8. ASSUME CreateVolume(c)  PROVE UpStep(c)
  <2>1. /\ Typed' /\ Turns(c, "list", {}) /\ Remembers(c) /\ At(c, "up", "create volume")
        /\ UNCHANGED volume \/ volume.id = None
        /\ UNCHANGED <<network, ctr>>
    BY <1>8, CreateVolumeDoes DEF Made
  <2> QED  BY <2>1, PlainStep DEF Remembers
<1> QED  BY <1>2, <1>3, <1>4, <1>5, <1>6, <1>7, <1>8 DEF EnsureVolume

LEMMA ConvergeSteps ==
  ASSUME Typed, NEW c \in Commands, Acts(c), Converge(c)
  PROVE  UpStep(c)
<1> USE DEF Removers, Emptying
<1>1. ~Fails(c)  BY ActsIsNoFailure
<1>2. ASSUME List(c)  PROVE UpStep(c)
  <2>1. PICK todo : Moves(c, "list", "remove orphans", todo)  BY <1>2, ListDoes
  <2>2. Typed' /\ ~cmd'[c].retried  BY <1>2, ListDoes
  <2> QED  BY <2>1, <2>2, PlainStep DEF Moves, engine
<1>3. ASSUME RemoveOrphan(c)  PROVE UpStep(c)
  BY <1>1, <1>3, RemoveOrphanDoes, PlainTreat
<1>4. ASSUME RemovedOrphans(c)  PROVE UpStep(c)
  BY <1>4, LoopsEnd, PlainMove
<1>5. ASSUME CreateContainer(c) \/ RecreateContainer(c)  PROVE UpStep(c)
  <2>1. Typed' /\ \E n \in cmd[c].todo : Converges(c, n)  BY <1>1, <1>5, CreateContainerDoes
  <2> QED  BY <2>1, PlainStep DEF Converges, Remembers, Made
<1>6. ASSUME KeepContainer(c)  PROVE UpStep(c)
  <2>1. PICK n \in cmd[c].todo : Moves(c, "converge", "converge", cmd[c].todo \ {n})
    BY <1>6, KeepContainerDoes
  <2>2. Typed' /\ Remembers(c)  BY <1>6, KeepContainerDoes
  <2> QED  BY <2>1, <2>2, PlainMove
<1>7. ASSUME Converged(c)  PROVE UpStep(c)
  BY <1>7, LoopsEnd, PlainMove
<1>8. ASSUME ListToStart(c)  PROVE UpStep(c)
  <2>1. Typed' /\ Remembers(c)  BY <1>1, <1>8, ListToStartDoes
  <2>2. PICK todo : Moves(c, "list to start", "start", todo)  BY <1>1, <1>8, ListToStartDoes
  <2> QED  BY <2>1, <2>2 DEF Moves, At, Turns, Remembers, UpStep, engine
<1>9. ASSUME StartContainer(c)  PROVE UpStep(c)
  <2>1. PICK n \in Exist : Treats(c, "start", n, Started(ctr[n]))  BY <1>1, <1>9, StartContainerDoes
  <2>2. Typed'  BY <1>1, <1>9, StartContainerDoes
  <2> QED  BY <2>1, <2>2, PlainStep DEF Treats, Remembers
<1>10. ASSUME UpReturns(c)  PROVE UpStep(c)
  <2>1. Succeeds(c)  BY <1>10 DEF UpReturns
  <2>2. Ends(c)  BY <2>1, SucceedsDoes DEF Acts
  <2> QED  BY <2>2 DEF Ends, Acts
<1> QED  BY <1>2, <1>3, <1>4, <1>5, <1>6, <1>7, <1>8, <1>9, <1>10 DEF Converge

----------------------------------------------------------------------------
(* The kinds of steps: a command begins, breaks off, returns nil, or makes *)
(* a call of up or of down.                                                *)

\* The next call, and not the one that creates the network.
Elsewhere(c) == cmd[c].at \in (UpCalls \cup DownCalls) \ {"create network"}

LEMMA EnsureNetworkPlaces ==
  ASSUME NEW c \in Commands, EnsureNetwork(c)
  PROVE  Elsewhere(c) \/ CreateNetwork(c) \/ NetworkNameTaken(c)
<1>1. InspectNetwork(c) => cmd[c].at = "inspect network"  BY DEF InspectNetwork, At
<1>2. StopForNetwork(c) => cmd[c].at = "stop for network"  BY DEF StopForNetwork, At, ForEach
<1>3. ListToDisconnect(c) => cmd[c].at = "stop for network"  BY DEF ListToDisconnect, At
<1>4. Disconnect(c) => cmd[c].at = "disconnect"  BY DEF Disconnect, At, ForEach
<1>5. DisconnectedAll(c) => cmd[c].at = "disconnect"  BY DEF DisconnectedAll, At, Then
<1>6. RemoveNetwork(c) => cmd[c].at = "remove network"  BY DEF RemoveNetwork, At
<1>7. ListNetworks(c) => cmd[c].at = "list networks"  BY DEF ListNetworks, At
<1>8. Connect(c) => cmd[c].at = "connect"  BY DEF Connect, At, ForEach
<1>9. ConnectedAll(c) => cmd[c].at = "connect"  BY DEF ConnectedAll, At, Then
<1> QED  BY <1>1, <1>2, <1>3, <1>4, <1>5, <1>6, <1>7, <1>8, <1>9 DEF EnsureNetwork, Elsewhere, UpCalls

LEMMA EnsureVolumePlaces ==
  ASSUME NEW c \in Commands, EnsureVolume(c)
  PROVE  Elsewhere(c)
<1>1. InspectVolume(c) => cmd[c].at = "inspect volume"  BY DEF InspectVolume, At
<1>2. StopForVolume(c) => cmd[c].at = "stop for volume"  BY DEF StopForVolume, At, ForEach
<1>3. StoppedForVolume(c) => cmd[c].at = "stop for volume"  BY DEF StoppedForVolume, At, Then
<1>4. RemoveForVolume(c) => cmd[c].at = "remove for volume"  BY DEF RemoveForVolume, At, ForEach
<1>5. RemovedForVolume(c) => cmd[c].at = "remove for volume"  BY DEF RemovedForVolume, At, Then
<1>6. RemoveVolume(c) => cmd[c].at = "remove volume"  BY DEF RemoveVolume, At
<1>7. CreateVolume(c) => cmd[c].at = "create volume"  BY DEF CreateVolume, At
<1> QED  BY <1>1, <1>2, <1>3, <1>4, <1>5, <1>6, <1>7 DEF EnsureVolume, Elsewhere, UpCalls

LEMMA ConvergePlaces ==
  ASSUME NEW c \in Commands, Converge(c)
  PROVE  Elsewhere(c)
<1>1. List(c) => cmd[c].at = "list"  BY DEF List, At
<1>2. RemoveOrphan(c) => cmd[c].at = "remove orphans"  BY DEF RemoveOrphan, At, ForEach
<1>3. RemovedOrphans(c) => cmd[c].at = "remove orphans"  BY DEF RemovedOrphans, At, Then
<1>4. CreateContainer(c) => cmd[c].at = "converge"  BY DEF CreateContainer, At
<1>5. RecreateContainer(c) => cmd[c].at = "converge"  BY DEF RecreateContainer, At
<1>6. KeepContainer(c) => cmd[c].at = "converge"  BY DEF KeepContainer, At
<1>7. Converged(c) => cmd[c].at = "converge"  BY DEF Converged, At, Then
<1>8. ListToStart(c) => cmd[c].at = "list to start"  BY DEF ListToStart, At
<1>9. StartContainer(c) => cmd[c].at = "start"  BY DEF StartContainer, At, ForEach
<1>10. UpReturns(c) => cmd[c].at = "start"  BY DEF UpReturns, At
<1> QED  BY <1>1, <1>2, <1>3, <1>4, <1>5, <1>6, <1>7, <1>8, <1>9, <1>10 DEF Converge, Elsewhere, UpCalls

LEMMA DownPlaces ==
  ASSUME NEW c \in Commands, Down(c)
  PROVE  Elsewhere(c)
<1>1. ListToRemove(c) => cmd[c].at = "list"  BY DEF ListToRemove, At
<1>2. RemoveContainer(c) => cmd[c].at = "remove"  BY DEF RemoveContainer, At, ForEach
<1>3. RemovedContainers(c) => cmd[c].at = "remove"  BY DEF RemovedContainers, At, Then
<1>4. InspectToRemove(c) => cmd[c].at = "resources"  BY DEF InspectToRemove, At, Resource
<1>5. RemoveInspected(c) => cmd[c].at = "resources"  BY DEF RemoveInspected, At, Resource
<1>6. RemoveVolumeDown(c) => cmd[c].at = "resources"  BY DEF RemoveVolumeDown, At, Resource
<1>7. DownReturns(c) => cmd[c].at = "resources"  BY DEF DownReturns, At
<1> QED  BY <1>1, <1>2, <1>3, <1>4, <1>5, <1>6, <1>7 DEF Down, Elsewhere, DownCalls

Breaks(c) ==
  /\ Ends(c) /\ ~period'.ok
  /\ period'.lost => period.lost \/ (At(c, "up", "create network") /\ cmd[c].retried)

Returns(c) ==
  /\ Ends(c) /\ UNCHANGED <<period, adrift>> /\ cmd[c].todo = {}
  /\ At(c, "up", "start") \/ At(c, "down", "resources")

UpCall(c) == Acts(c) /\ (EnsureNetwork(c) \/ EnsureVolume(c) \/ Converge(c))

DownCall(c) == Acts(c) /\ Down(c)

LEMMA FailureBreaks ==
  ASSUME Typed, NEW c \in Commands, EnsureNetwork(c) \/ EnsureVolume(c) \/ Converge(c) \/ Down(c), Fails(c)
  PROVE  Typed' /\ Breaks(c)
<1>1. Elsewhere(c) \/ CreateNetwork(c) \/ NetworkNameTaken(c)
  BY EnsureNetworkPlaces, EnsureVolumePlaces, ConvergePlaces, DownPlaces
<1>2. CASE CreateNetwork(c)
  <2>1. Acts(c)  BY <1>2, CreateNetworkDoes
  <2> QED  BY <2>1, ActsIsNoFailure
<1>3. CASE NetworkNameTaken(c)
  <2>1. At(c, "up", "create network")  BY <1>3, NetworkNameTakenDoes
  <2>2. "create network" \in UpCalls  BY DEF UpCalls
  <2>3. c \in Active  BY <2>1, <2>2, UpWants
  <2>4. cmd[c].retried
    <3> SUFFICES ASSUME ~cmd[c].retried  PROVE FALSE
      OBVIOUS
    <3>1. Acts(c)  BY <1>3, NetworkNameTakenDoes DEF Moves
    <3> QED  BY <3>1, ActsIsNoFailure
  <2> QED  BY <2>1, <2>3, <2>4, FailsDoes DEF Breaks
<1>4. CASE Elsewhere(c)
  <2>1. c \in Active /\ cmd[c].at # "create network"  BY <1>4, CallsDiffer DEF Elsewhere, Active
  <2> QED  BY <2>1, FailsDoes DEF Breaks
<1> QED  BY <1>1, <1>2, <1>3, <1>4

LEMMA UpReturnsReturns ==
  ASSUME Typed, NEW c \in Commands, UpReturns(c) \/ DownReturns(c)
  PROVE  Typed' /\ Returns(c)
<1>1. /\ At(c, "up", "start") \/ At(c, "down", "resources")
      /\ cmd[c].todo = {} /\ Succeeds(c)
  BY DEF UpReturns, DownReturns
<1>2. c \in Active  BY <1>1 DEF At, Active, Ended
<1> QED  BY <1>1, <1>2, SucceedsDoes DEF Returns

LEMMA DownSteps ==
  ASSUME Typed, NEW c \in Commands, DownCall(c)
  PROVE  /\ Typed' /\ Only(c) /\ cmd'[c].want = cmd[c].want /\ cmd[c].want.kind = "down"
         /\ UNCHANGED volume \/ cmd[c].want.removeVolumes
<1>1. Acts(c) /\ ~Fails(c)  BY ActsIsNoFailure DEF DownCall
<1>2. CASE ListToRemove(c)  BY <1>2, ListToRemoveDoes DEF At, Turns, engine
<1>3. CASE RemoveContainer(c)  BY <1>3, RemoveContainerDoes DEF At, Turns
<1>4. CASE RemovedContainers(c)  BY <1>4, RemovedContainersDoes DEF At, Turns, engine
<1>5. CASE InspectToRemove(c)  BY <1>5, InspectToRemoveDoes DEF At, Turns, engine
<1>6. CASE RemoveInspected(c)  BY <1>1, <1>6, RemoveInspectedDoes DEF At, Turns, engine
<1>7. CASE RemoveVolumeDown(c)
  <2>1. Typed' /\ At(c, "down", "resources") /\ "volume" \in cmd[c].todo /\ Turns(c, "resources", cmd[c].todo \ {"volume"})
    BY <1>7, RemoveVolumeDownDoes
  <2>2. PlaceOK(c)  BY DEF Typed
  <2> QED  BY <2>1, <2>2 DEF At, Turns, PlaceOK
<1>8. CASE DownReturns(c)
  <2>1. cmd'[c].at \in Ended  BY <1>8, UpReturnsReturns DEF Returns, Ends
  <2> QED  BY <1>1, <2>1 DEF Acts
<1> QED  BY <1>2, <1>3, <1>4, <1>5, <1>6, <1>7, <1>8 DEF DownCall, Down

LEMMA UpSteps ==
  ASSUME Typed, NEW c \in Commands, UpCall(c)
  PROVE  UpStep(c)
BY EnsureNetworkSteps, EnsureVolumeSteps, ConvergeSteps DEF UpCall

LEMMA UpCallActs ==
  ASSUME Typed, NEW c \in Commands, EnsureNetwork(c) \/ EnsureVolume(c) \/ Converge(c), ~Fails(c), ~UpReturns(c)
  PROVE  Acts(c)
<1>1. CASE InspectNetwork(c)  BY <1>1, InspectNetworkDoes DEF Moves
<1>2. CASE StopForNetwork(c)  BY <1>2, StopForNetworkDoes DEF Treats
<1>3. CASE ListToDisconnect(c)  BY <1>3, ListToDisconnectDoes DEF Moves
<1>4. CASE Disconnect(c)  BY <1>4, DisconnectDoes DEF Treats
<1>5. CASE DisconnectedAll(c)  BY <1>5, LoopsEnd DEF Moves
<1>6. CASE RemoveNetwork(c)  BY <1>6, RemoveNetworkDoes
<1>7. CASE ListNetworks(c)  BY <1>7, ListNetworksDoes DEF Moves
<1>8. CASE CreateNetwork(c)  BY <1>8, CreateNetworkDoes
<1>9. CASE NetworkNameTaken(c)  BY <1>9, NetworkNameTakenDoes DEF Moves
<1>10. CASE Connect(c)  BY <1>10, ConnectDoes DEF Treats
<1>11. CASE ConnectedAll(c)  BY <1>11, LoopsEnd DEF Moves
<1>12. CASE InspectVolume(c)  BY <1>12, InspectVolumeDoes DEF Moves
<1>13. CASE StopForVolume(c)  BY <1>13, StopForVolumeDoes DEF Treats
<1>14. CASE StoppedForVolume(c)  BY <1>14, LoopsEnd DEF Moves
<1>15. CASE RemoveForVolume(c)  BY <1>15, RemoveForVolumeDoes DEF Treats
<1>16. CASE RemovedForVolume(c)  BY <1>16, LoopsEnd DEF Moves
<1>17. CASE RemoveVolume(c)  BY <1>17, RemoveVolumeDoes
<1>18. CASE CreateVolume(c)  BY <1>18, CreateVolumeDoes
<1>19. CASE List(c)  BY <1>19, ListDoes DEF Moves
<1>20. CASE RemoveOrphan(c)  BY <1>20, RemoveOrphanDoes DEF Treats
<1>21. CASE RemovedOrphans(c)  BY <1>21, LoopsEnd DEF Moves
<1>22. CASE CreateContainer(c)  BY <1>22, CreateContainerDoes DEF Converges
<1>23. CASE RecreateContainer(c)  BY <1>23, CreateContainerDoes DEF Converges
<1>24. CASE KeepContainer(c)  BY <1>24, KeepContainerDoes DEF Moves
<1>25. CASE Converged(c)  BY <1>25, LoopsEnd DEF Moves
<1>26. CASE ListToStart(c)  BY <1>26, ListToStartDoes DEF Moves
<1>27. CASE StartContainer(c)  BY <1>27, StartContainerDoes DEF Treats
<1> QED  BY <1>1, <1>2, <1>3, <1>4, <1>5, <1>6, <1>7, <1>8, <1>9, <1>10, <1>11, <1>12, <1>13, <1>14,
           <1>15, <1>16, <1>17, <1>18, <1>19, <1>20, <1>21, <1>22, <1>23, <1>24, <1>25, <1>26, <1>27 DEF EnsureNetwork, EnsureVolume, Converge

LEMMA DownCallActs ==
  ASSUME Typed, NEW c \in Commands, Down(c), ~Fails(c), ~DownReturns(c)
  PROVE  Acts(c)
<1>1. CASE ListToRemove(c)  BY <1>1, ListToRemoveDoes
<1>2. CASE RemoveContainer(c)  BY <1>2, RemoveContainerDoes
<1>3. CASE RemovedContainers(c)  BY <1>3, RemovedContainersDoes
<1>4. CASE InspectToRemove(c)  BY <1>4, InspectToRemoveDoes
<1>5. CASE RemoveInspected(c)  BY <1>5, RemoveInspectedDoes
<1>6. CASE RemoveVolumeDown(c)  BY <1>6, RemoveVolumeDownDoes
<1> QED  BY <1>1, <1>2, <1>3, <1>4, <1>5, <1>6 DEF Down

LEMMA StepKinds ==
  ASSUME Typed, Next
  PROVE  /\ Typed'
         /\ \E c \in Commands :
              \/ \E want \in Wants : Begins(c, want)
              \/ Breaks(c) \/ Returns(c) \/ UpCall(c) \/ DownCall(c)
<1>1. PICK c \in Commands :
        Begin(c) \/ Dies(c) \/ EnsureNetwork(c) \/ EnsureVolume(c) \/ Converge(c) \/ Down(c)
  BY DEF Next
<1>2. CASE Begin(c)  BY <1>2, BeginDoes
<1>3. CASE Dies(c)  BY <1>3, DiesDoes DEF Breaks
<1>4. CASE (EnsureNetwork(c) \/ EnsureVolume(c) \/ Converge(c) \/ Down(c)) /\ Fails(c)
  BY <1>4, FailureBreaks
<1>5. CASE UpReturns(c) \/ DownReturns(c)  BY <1>5, UpReturnsReturns
<1>6. CASE (EnsureNetwork(c) \/ EnsureVolume(c) \/ Converge(c)) /\ ~Fails(c) /\ ~UpReturns(c)
  <2>1. Acts(c)  BY <1>6, UpCallActs
  <2> QED  BY <1>6, <2>1, UpSteps DEF UpCall, UpStep
<1>7. CASE Down(c) /\ ~Fails(c) /\ ~DownReturns(c)
  <2>1. Acts(c)  BY <1>7, DownCallActs
  <2> QED  BY <1>7, <2>1, DownSteps DEF DownCall
<1> QED  BY <1>1, <1>2, <1>3, <1>4, <1>5, <1>6, <1>7

----------------------------------------------------------------------------
(* What was asked.                                                         *)

LEMMA ActiveStays ==
  ASSUME NEW c \in Commands, Acts(c), Only(c)
  PROVE  Active' = Active /\ c \in Active
BY DEF Acts, Only, Active

LEMMA ActiveShrinks ==
  ASSUME NEW c \in Commands, Ends(c)
  PROVE  Active' = Active \ {c} /\ c \in Active
BY DEF Ends, Only, Active

LEMMA ActiveGrows ==
  ASSUME NEW c \in Commands, NEW want, Begins(c, want)
  PROVE  Active' = Active \cup {c} /\ c \notin Active
<1>1. cmd'[c].at \notin Ended  BY DEF Begins, Ended
<1> QED  BY <1>1 DEF Begins, Only, Active

LEMMA VolumeDivergedElsewhere ==
  ASSUME UNCHANGED volume, NEW c \in Commands, cmd'[c].want = cmd[c].want
  PROVE  VolumeDiverged(c)' <=> VolumeDiverged(c)
BY DEF VolumeDiverged

LEMMA AskedBegins ==
  ASSUME Typed, Asked, NEW c \in Commands, NEW want \in Wants, Begins(c, want)
  PROVE  Asked'
<1>1. Active' = Active \cup {c} /\ c \notin Active  BY ActiveGrows
<1>2. Only(c) /\ cmd'[c].want = want /\ UNCHANGED engine /\ cmd'[c].at \in {"inspect network", "list"}
  BY DEF Begins
<1>3. CASE Active = {} /\ period'.want = want /\ period'.first = c
  <2>1. Active' = {c}  BY <1>1, <1>3
  <2> QED  BY <1>2, <1>3, <2>1 DEF Asked, SameWants, FirstAlone, Agreed, Emptying
<1>4. CASE /\ period'.same => period.same /\ period.want = want
           /\ period'.want = period.want /\ period'.first = "several"
  <2>1. period'.first \notin Commands  BY <1>4, CommandsAssumption
  <2>2. \A d \in Active : cmd'[d] = cmd[d]  BY <1>1, <1>2 DEF Only, Active
  <2>3. SameWants'  BY <1>1, <1>2, <1>4, <2>2 DEF Asked, SameWants
  <2> QED  BY <2>1, <2>3 DEF Asked, FirstAlone, Agreed
<1> QED  BY <1>3, <1>4 DEF Begins

LEMMA AskedEnds ==
  ASSUME Typed, Asked, NEW c \in Commands, Ends(c)
  PROVE  Asked'
<1>1. Active' = Active \ {c} /\ c \in Active  BY ActiveShrinks
<1>2. /\ Only(c) /\ UNCHANGED volume
      /\ period'.want = period.want /\ period'.same = period.same /\ period'.first = period.first
  BY DEF Ends, engine
<1>3. \A d \in Active' : d \in Active /\ cmd'[d] = cmd[d] /\ (VolumeDiverged(d)' <=> VolumeDiverged(d))
  <2> TAKE d \in Active'
  <2>1. d \in Active /\ d \in Commands /\ cmd'[d] = cmd[d]  BY <1>1, <1>2 DEF Only, Active
  <2> QED  BY <1>2, <2>1, VolumeDivergedElsewhere
<1> QED  BY <1>2, <1>3 DEF Asked, SameWants, FirstAlone, Agreed

\* The calls of a command that goes on.
LEMMA AskedActs ==
  ASSUME Typed, Asked, NEW c \in Commands, Acts(c), Only(c), cmd'[c].want = cmd[c].want,
         cmd[c].want.kind = "up" /\ cmd'[c].at \in Emptying =>
           UNCHANGED volume /\ (cmd[c].at \in Emptying \/ (cmd[c].want.confirms /\ VolumeDiverged(c)))
  PROVE  Asked'
<1>1. Active' = Active /\ c \in Active  BY ActiveStays
<1>2. UNCHANGED period  BY DEF Acts
<1>3. \A d \in Active : cmd'[d].want = cmd[d].want  BY DEF Only, Active
<1>4. SameWants' /\ FirstAlone'  BY <1>1, <1>2, <1>3 DEF Asked, SameWants, FirstAlone
<1>5. Agreed'
  <2> SUFFICES ASSUME period.first \in Commands, NEW d \in Active,
                      cmd'[d].want.kind = "up", cmd'[d].at \in Emptying
               PROVE  cmd'[d].want.confirms /\ VolumeDiverged(d)'
    BY <1>1, <1>2 DEF Agreed
  <2>1. d = c  BY <1>1 DEF Asked, FirstAlone
  <2>2. cmd[c].want.kind = "up" /\ cmd'[c].at \in Emptying  BY <2>1
  <2>3. cmd[c].want.confirms /\ VolumeDiverged(c)  BY <1>1, <2>2 DEF Asked, Agreed
  <2>4. VolumeDiverged(c)'  BY <2>2, <2>3, VolumeDivergedElsewhere
  <2> QED  BY <2>1, <2>3, <2>4
<1> QED  BY <1>4, <1>5 DEF Asked

LEMMA VarsKeepTypes ==
  ASSUME Typed, UNCHANGED vars
  PROVE  Typed'
BY DEF Typed, EngineOK, BooksOK, PlaceOK, Scope, vars, engine

LEMMA VarsKeepAsked ==
  ASSUME Asked, UNCHANGED vars
  PROVE  Asked'
BY DEF Asked, SameWants, FirstAlone, Agreed, Active, VolumeDiverged, vars, engine

LEMMA TypedInitially == Init => Typed
<1> SUFFICES ASSUME Init  PROVE Typed
  OBVIOUS
<1>1. PICK hash \in Configs \cup {"none", "foreign"}, left \in BOOLEAN :
       /\ network = IF left THEN [id |-> 1, hash |-> hash] ELSE NoNetwork
       /\ volume = IF left /\ hash # "foreign" THEN [id |-> 1, hash |-> hash] ELSE NoVolume
       /\ ctr = [n \in Names |-> IF left /\ n \in Orphans
                                 THEN [state |-> "running", endpoint |-> 1, aliases |-> TRUE]
                                 ELSE NoContainer]
  BY DEF Init
<1>2. network \in Resources /\ (network.id = None => network.hash = "none")
  <2>1. [id |-> 1, hash |-> hash] \in Resources  BY DEF Resources
  <2> QED  BY <1>1, <2>1, ResourcesTyped DEF None
<1>3. volume \in Resources /\ (volume.id = None => volume.hash = "none")
  <2>1. [id |-> 1, hash |-> hash] \in Resources  BY DEF Resources
  <2> QED  BY <1>1, <2>1, ResourcesTyped DEF None
<1>4. ctr \in [Names -> Containers]
  <2>1. [state |-> "running", endpoint |-> 1, aliases |-> TRUE] \in Containers
    BY DEF Containers, States, Endpoints
  <2> QED  BY <1>1, <2>1, EmptyIsTyped
<1>5. EngineOK  BY <1>2, <1>3, <1>4 DEF EngineOK, Init
<1>6. Idle("none") \in Processes /\ Idle("none").at = "none" /\ Idle("none").retried = FALSE
  BY DEF Idle, Processes, Nothing, Calls, Ended, None
<1>7. cmd = [c \in Commands |-> Idle("none")]  BY DEF Init
<1>8. period \in Periods  BY DEF Init, Periods, Nothing
<1>9. BooksOK  BY <1>6, <1>7, <1>8, BoundsAssumption DEF BooksOK, Init
<1>10. ASSUME NEW c \in Commands  PROVE PlaceOK(c)
  <2>1. cmd[c].at = "none" /\ ~cmd[c].retried  BY <1>6, <1>7
  <2> QED  BY <2>1 DEF PlaceOK, Ended
<1> QED  BY <1>5, <1>9, <1>10 DEF Typed

LEMMA NobodyInitially == Init => Active = {} /\ period.want.kind = "none" /\ period.first = "none" /\ ~period.lost
BY DEF Init, Active, Idle, Ended

LEMMA TypedStep ==
  ASSUME Typed, [Next]_vars
  PROVE  Typed'
BY StepKinds, VarsKeepTypes

LEMMA AskedStep ==
  ASSUME Typed, Asked, [Next]_vars
  PROVE  Asked'
<1>1. CASE UNCHANGED vars  BY <1>1, VarsKeepAsked
<1>2. CASE Next
  <2>1. PICK c \in Commands :
          (\E want \in Wants : Begins(c, want)) \/ Breaks(c) \/ Returns(c) \/ UpCall(c) \/ DownCall(c)
    BY <1>2, StepKinds
  <2>2. CASE \E want \in Wants : Begins(c, want)  BY <2>2, AskedBegins
  <2>3. CASE Breaks(c) \/ Returns(c)  BY <2>3, AskedEnds DEF Breaks, Returns
  <2>4. CASE UpCall(c)
    <3>1. UpStep(c) /\ Acts(c)  BY <2>4, UpSteps DEF UpCall
    <3> QED  BY <3>1, AskedActs DEF UpStep
  <2>5. CASE DownCall(c)
    <3>1. Acts(c) /\ Only(c) /\ cmd'[c].want = cmd[c].want /\ cmd[c].want.kind = "down"
      BY <2>5, DownSteps DEF DownCall
    <3> QED  BY <3>1, AskedActs
  <2> QED  BY <2>1, <2>2, <2>3, <2>4, <2>5
<1> QED  BY <1>1, <1>2

LEMMA AskedInitially == Init => Asked
BY NobodyInitially, CommandsAssumption DEF Asked, SameWants, FirstAlone, Agreed

LEMMA TypedAlways == Spec => [](Typed /\ Asked)
BY TypedInitially, AskedInitially, TypedStep, AskedStep, PTL DEF Spec

(* A single command destroys the data of a volume only with consent, when  *)
(* the volume is of another configuration, or for --volumes: removeVolume, *)
(* called by ensureVolume (create.go) and by down.                         *)
THEOREM DataKeptHolds == Spec => DataKept
<1> DEFINE Kept == volume.id # None /\ volume'.id # volume.id /\ period.first \in Commands =>
                     LET want == period.want
                     IN  \/ want.removeVolumes
                         \/ want.confirms /\ volume.hash # want.volume
<1>1. ASSUME Typed, Asked, [Next]_vars  PROVE [Kept]_vars
  <2> SUFFICES ASSUME Next, volume.id # None, volume'.id # volume.id, period.first \in Commands
               PROVE  period.want.removeVolumes \/ (period.want.confirms /\ volume.hash # period.want.volume)
    BY <1>1
  <2>1. PICK c \in Commands :
          (\E want \in Wants : Begins(c, want)) \/ Breaks(c) \/ Returns(c) \/ UpCall(c) \/ DownCall(c)
    BY <1>1, StepKinds
  <2>2. ASSUME UNCHANGED engine  PROVE FALSE
    BY <2>2 DEF engine
  <2>3. UpCall(c) \/ DownCall(c)  BY <2>1, <2>2 DEF Begins, Breaks, Returns, Ends
  <2>4. c \in Active  BY <2>3 DEF UpCall, DownCall, Acts
  <2>5. cmd[c].want = period.want  BY <1>1, <2>4 DEF Asked, FirstAlone
  <2>6. CASE UpCall(c)
    <3>1. cmd[c].at = "remove volume" /\ cmd[c].want.kind = "up"  BY <1>1, <2>6, UpSteps DEF UpStep
    <3>2. cmd[c].want.confirms /\ VolumeDiverged(c)  BY <1>1, <2>4, <3>1 DEF Asked, Agreed, Emptying
    <3> QED  BY <2>5, <3>2 DEF VolumeDiverged
  <2>7. CASE DownCall(c)
    <3>1. cmd[c].want.removeVolumes  BY <1>1, <2>7, DownSteps
    <3> QED  BY <2>5, <3>1
  <2> QED  BY <2>3, <2>6, <2>7
<1> QED  BY <1>1, TypedAlways, PTL DEF Spec, DataKept

----------------------------------------------------------------------------
(* Equal ups.                                                              *)

LEMMA UpsWant ==
  ASSUME Asked, Ups, NEW c \in Active
  PROVE  cmd[c].want = period.want /\ cmd[c].want.kind = "up"
BY DEF Asked, SameWants, Ups

\* What c does not spoil, and does not leave undone, keeps the invariant.
LEMMA UpKept ==
  ASSUME Typed, UpInv, NEW c \in Commands, Acts(c), Only(c),
         Ups /\ NetworkBad' => NetworkBad /\ cmd'[c].at \in Inspecting,
         Ups /\ VolumeBad' => VolumeBad /\ cmd'[c].at \in BeforeVolume,
         \A n \in Services : Ups /\ Wrong(n)' =>
           Wrong(n) /\ ctr'[n].endpoint = ctr[n].endpoint /\ LeavesWrong(c, n)',
         \A n \in Services : Ups /\ ctr'[n].state # "running" =>
           Owes(c, n)' \/ (ctr[n].state # "running" /\ ~Owes(c, n))
  PROVE  UpInv'
<1>1. Active' = Active /\ c \in Active  BY ActiveStays
<1>2. UNCHANGED period  BY DEF Acts
<1>3. Ups' <=> Ups  BY <1>2 DEF Ups
<1>4. \A d \in Active : d # c => cmd'[d] = cmd[d]  BY DEF Only, Active
<1>5. BadNetworkStays'
  <2> SUFFICES ASSUME Ups, NetworkBad', NEW d \in Active  PROVE cmd'[d].at \in Inspecting
    BY <1>1, <1>3 DEF BadNetworkStays
  <2>1. CASE d = c  BY <2>1
  <2>2. CASE d # c
    <3>1. cmd[d].at \in Inspecting  BY DEF UpInv, BadNetworkStays
    <3> QED  BY <1>4, <2>2, <3>1
  <2> QED  BY <2>1, <2>2
<1>6. BadVolumeStays'
  <2> SUFFICES ASSUME Ups, VolumeBad', NEW d \in Active  PROVE cmd'[d].at \in BeforeVolume
    BY <1>1, <1>3 DEF BadVolumeStays
  <2>1. CASE d = c  BY <2>1
  <2>2. CASE d # c
    <3>1. cmd[d].at \in BeforeVolume  BY DEF UpInv, BadVolumeStays
    <3> QED  BY <1>4, <2>2, <3>1
  <2> QED  BY <2>1, <2>2
<1>7. WrongStays'
  <2> SUFFICES ASSUME Ups, NEW n \in Services, Wrong(n)', NEW d \in Active  PROVE LeavesWrong(d, n)'
    BY <1>1, <1>3 DEF WrongStays
  <2>1. CASE d = c  BY <2>1
  <2>2. CASE d # c
    <3>1. LeavesWrong(d, n) /\ ctr'[n].endpoint = ctr[n].endpoint  BY DEF UpInv, WrongStays
    <3>2. cmd'[d] = cmd[d]  BY <1>4, <2>2
    <3> QED  BY <3>1, <3>2 DEF LeavesWrong
  <2> QED  BY <2>1, <2>2
<1>8. SomebodyStarts'
  <2> SUFFICES ASSUME Ups, period.ok, NEW n \in Services, ctr'[n].state # "running"
               PROVE  \E d \in Active : Owes(d, n)'
    BY <1>1, <1>2, <1>3 DEF SomebodyStarts
  <2>1. CASE Owes(c, n)'  BY <1>1, <2>1
  <2>2. CASE ctr[n].state # "running" /\ ~Owes(c, n)
    <3>1. PICK d \in Active : Owes(d, n)  BY <2>2 DEF UpInv, SomebodyStarts
    <3>2. cmd'[d] = cmd[d]  BY <1>4, <2>2, <3>1
    <3>3. Owes(d, n)'  BY <3>1, <3>2 DEF Owes
    <3> QED  BY <3>3
  <2> QED  BY <2>1, <2>2
<1>9. SomebodyWorks'  BY <1>1 DEF SomebodyWorks
<1> QED  BY <1>5, <1>6, <1>7, <1>8, <1>9 DEF UpInv

LEMMA UpKeptByMove ==
  ASSUME Typed, UpInv, NEW c \in Commands, NEW from, NEW call, NEW todo, Moves(c, from, call, todo),
         Ups /\ NetworkBad => call \in Inspecting,
         Ups /\ VolumeBad => call \in BeforeVolume,
         \A n \in Services : Ups /\ Wrong(n) => LeavesWrong(c, n)',
         call \in BeforeStart \/ (call = "start" /\ todo = Services \ Running)
  PROVE  UpInv'
<1>1. Acts(c) /\ Only(c) /\ UNCHANGED engine /\ cmd'[c].at = call /\ cmd'[c].todo = todo
  BY DEF Moves, Turns
<1>2. UNCHANGED <<network, volume, ctr, period>>  BY <1>1 DEF engine, Acts
<1>3. (NetworkBad' <=> NetworkBad) /\ (VolumeBad' <=> VolumeBad)  BY <1>2 DEF NetworkBad, VolumeBad
<1>4. \A n \in Services : Wrong(n)' <=> Wrong(n)  BY <1>2 DEF Wrong
<1>5. \A n \in Services : Ups /\ ctr'[n].state # "running" => Owes(c, n)'
  <2>1. CASE call \in BeforeStart  BY <1>1, <2>1 DEF Owes
  <2>2. CASE call = "start" /\ todo = Services \ Running  BY <1>1, <1>2, <2>2 DEF Owes, Running
  <2> QED  BY <2>1, <2>2
<1> QED  BY <1>1, <1>2, <1>3, <1>4, <1>5, UpKept

LEMMA UpKeptByTreat ==
  ASSUME Typed, UpInv, NEW c \in Commands, NEW call, NEW n, NEW k, Treats(c, call, n, k),
         call # "converge",
         k.state = "running" /\ k.endpoint \notin {None, network.id} =>
           Wrong(n) /\ k.endpoint = ctr[n].endpoint,
         call \in BeforeStart \/ (call = "start" /\ k.state = "running")
  PROVE  UpInv'
<1>1. /\ Acts(c) /\ Only(c) /\ cmd[c].at = call /\ cmd'[c].at = call /\ cmd'[c].todo = cmd[c].todo \ {n}
      /\ cmd'[c].networkID = cmd[c].networkID /\ cmd'[c].diverged = cmd[c].diverged
      /\ \A m \in Names : ctr'[m] = IF m = n THEN k ELSE ctr[m]
      /\ UNCHANGED <<network, volume, period>>
  BY DEF Treats, Turns, At, Remembers, Acts
<1>2. c \in Active  BY <1>1 DEF Acts
<1>3. Ups /\ NetworkBad' => NetworkBad /\ cmd'[c].at \in Inspecting
  <2>1. NetworkBad' <=> NetworkBad  BY <1>1 DEF NetworkBad
  <2>2. Ups /\ NetworkBad => cmd[c].at \in Inspecting  BY <1>2 DEF UpInv, BadNetworkStays
  <2> QED  BY <1>1, <2>1, <2>2
<1>4. Ups /\ VolumeBad' => VolumeBad /\ cmd'[c].at \in BeforeVolume
  <2>1. VolumeBad' <=> VolumeBad  BY <1>1 DEF VolumeBad
  <2>2. Ups /\ VolumeBad => cmd[c].at \in BeforeVolume  BY <1>2 DEF UpInv, BadVolumeStays
  <2> QED  BY <1>1, <2>1, <2>2
<1>5. ASSUME NEW m \in Services, Ups, Wrong(m)'
      PROVE  Wrong(m) /\ ctr'[m].endpoint = ctr[m].endpoint /\ LeavesWrong(c, m)'
  <2>1. m \in Names  BY DEF Names
  <2>2. Wrong(m) /\ ctr'[m].endpoint = ctr[m].endpoint
    <3>1. CASE m = n  BY <1>1, <1>5, <2>1, <3>1 DEF Wrong
    <3>2. CASE m # n  BY <1>1, <1>5, <2>1, <3>2 DEF Wrong
    <3> QED  BY <3>1, <3>2
  <2>3. LeavesWrong(c, m)  BY <1>2, <1>5, <2>2 DEF UpInv, WrongStays
  <2>4. LeavesWrong(c, m)'  BY <1>1, <2>2, <2>3 DEF LeavesWrong
  <2> QED  BY <2>2, <2>4
<1>6. ASSUME NEW m \in Services, Ups, ctr'[m].state # "running"
      PROVE  Owes(c, m)' \/ (ctr[m].state # "running" /\ ~Owes(c, m))
  <2>1. m \in Names  BY DEF Names
  <2>2. CASE call \in BeforeStart  BY <1>1, <2>2 DEF Owes
  <2>3. CASE call = "start" /\ k.state = "running"
    <3>1. m # n /\ ctr'[m] = ctr[m]  BY <1>1, <1>6, <2>1, <2>3
    <3> QED  BY <1>1, <1>6, <2>3, <3>1 DEF Owes, BeforeStart, Resolving, Inspecting, Removers, WithNetwork, Emptying
  <2> QED  BY <2>2, <2>3
<1> QED  BY <1>1, <1>3, <1>4, <1>5, <1>6, UpKept

\* What may still be bad or wrong where a command is.
LEMMA UpPlaces ==
  ASSUME Typed, UpInv, Ups, NEW c \in Active
  PROVE  /\ NetworkBad => cmd[c].at \in Inspecting
         /\ VolumeBad => cmd[c].at \in BeforeVolume
         /\ \A n \in Services : Wrong(n) => LeavesWrong(c, n)
BY DEF UpInv, BadNetworkStays, BadVolumeStays, WrongStays

LEMMA CallsOfUp ==
  /\ Inspecting = {"inspect network", "stop for network", "disconnect", "remove network"}
  /\ Resolving = Inspecting \cup {"list networks", "create network"}
  /\ WithNetwork = {"connect", "inspect volume", "create volume", "list",
                     "stop for volume", "remove for volume", "remove volume"}
  /\ BeforeVolume = Resolving \cup {"connect", "inspect volume", "stop for volume", "remove for volume", "remove volume"}
  /\ BeforeStart = Resolving \cup WithNetwork \cup {"remove orphans", "converge", "list to start"}
BY DEF Inspecting, Removers, Resolving, WithNetwork, Emptying, BeforeVolume, BeforeStart

\* A command that stays before the volume, or goes on there.
LEMMA UpKeptBefore ==
  ASSUME Typed, UpInv, NEW c \in Commands, NEW from, NEW call, NEW todo, Moves(c, from, call, todo), Remembers(c),
         \/ from \in Inspecting /\ call \in Inspecting
         \/ from \in WithNetwork \cap BeforeVolume /\ call \in WithNetwork \cap BeforeVolume
  PROVE  UpInv'
<1>1. /\ Acts(c) /\ c \in Active /\ cmd[c].at = from /\ cmd'[c].at = call
      /\ cmd'[c].networkID = cmd[c].networkID /\ UNCHANGED ctr
  BY DEF Moves, Acts, At, Turns, Remembers, engine
<1>2. Ups /\ NetworkBad => call \in Inspecting
  <2>1. Ups /\ NetworkBad => from \in Inspecting  BY <1>1, UpPlaces
  <2> QED  BY <2>1, CallsOfUp
<1>3. call \in BeforeVolume /\ call \in BeforeStart  BY CallsOfUp
<1>4. \A n \in Services : Ups /\ Wrong(n) => LeavesWrong(c, n)'
  <2> SUFFICES ASSUME NEW n \in Services, Ups, Wrong(n)  PROVE LeavesWrong(c, n)'
    OBVIOUS
  <2>1. LeavesWrong(c, n)  BY <1>1, UpPlaces
  <2> QED  BY <1>1, <2>1, CallsOfUp DEF LeavesWrong
<1> QED  BY <1>2, <1>3, <1>4, UpKeptByMove

\* A command that has found a network that is as wanted, or taken one.
LEMMA UpKeptFound ==
  ASSUME Typed, UpInv, NEW c \in Commands, NEW from, Moves(c, from, "inspect volume", {}),
         cmd'[c].networkID = network.id, Ups => ~NetworkBad
  PROVE  UpInv'
<1>1. cmd'[c].at = "inspect volume" /\ UNCHANGED ctr  BY DEF Moves, Turns, engine
<1>2. "inspect volume" \in BeforeVolume /\ "inspect volume" \in BeforeStart /\ "inspect volume" \in WithNetwork
  BY CallsOfUp
<1>3. \A n \in Services : Ups /\ Wrong(n) => LeavesWrong(c, n)'
  BY <1>1, <1>2 DEF Wrong, LeavesWrong
<1> QED  BY <1>2, <1>3, UpKeptByMove

LEMMA UpNetworkKept ==
  ASSUME Typed, Asked, UpInv, NEW c \in Commands, Acts(c), EnsureNetwork(c)
  PROVE  UpInv'
<1>1. ~Fails(c) /\ c \in Active  BY ActsIsNoFailure DEF Acts
<1>2. Ups => cmd[c].want = period.want  BY <1>1, UpsWant
<1>3. ASSUME InspectNetwork(c)  PROVE UpInv'
  <2>1. CASE network.id = None /\ Moves(c, "inspect network", "list networks", {})
    <3>1. ~NetworkBad  BY <2>1 DEF NetworkBad
    <3>2. /\ "list networks" \in BeforeVolume /\ "list networks" \in BeforeStart /\ "list networks" \in Resolving
          /\ cmd'[c].at = "list networks"
      BY <2>1, CallsOfUp DEF Moves, Turns
    <3>3. \A n \in Services : LeavesWrong(c, n)'  BY <3>2 DEF LeavesWrong
    <3> QED  BY <2>1, <3>1, <3>2, <3>3, UpKeptByMove
  <2>2. CASE /\ network.hash \in {"none", cmd[c].want.network}
             /\ Moves(c, "inspect network", "inspect volume", {}) /\ cmd'[c].networkID = network.id
    <3>1. Ups => ~NetworkBad  BY <1>2, <2>2 DEF NetworkBad
    <3> QED  BY <2>2, <3>1, UpKeptFound
  <2>3. CASE Moves(c, "inspect network", "stop for network", Services \cap Exist) /\ Remembers(c)
    <3>1. "inspect network" \in Inspecting /\ "stop for network" \in Inspecting  BY CallsOfUp
    <3> QED  BY <2>3, <3>1, UpKeptBefore
  <2> QED  BY <1>1, <1>3, <2>1, <2>2, <2>3, InspectNetworkDoes
<1>4. ASSUME StopForNetwork(c)  PROVE UpInv'
  <2>1. PICK n \in Exist : Treats(c, "stop for network", n, Stopped(ctr[n]))  BY <1>1, <1>4, StopForNetworkDoes
  <2> DEFINE k == Stopped(ctr[n])
  <2>2. k.state # "running"
    <3>1. ctr[n] \in Containers  BY ContainersTyped DEF Typed, Exist
    <3> QED  BY <3>1 DEF Stopped, Containers
  <2>3. "stop for network" \in BeforeStart  BY CallsOfUp
  <2>4. Treats(c, "stop for network", n, k)  BY <2>1
  <2> HIDE DEF k
  <2> QED  BY <2>2, <2>3, <2>4, UpKeptByTreat
<1>5. ASSUME ListToDisconnect(c)  PROVE UpInv'
  <2>1. Moves(c, "stop for network", "disconnect", Services \cap Exist) /\ Remembers(c)
    BY <1>5, ListToDisconnectDoes
  <2>2. "stop for network" \in Inspecting /\ "disconnect" \in Inspecting  BY CallsOfUp
  <2> QED  BY <2>1, <2>2, UpKeptBefore
<1>6. ASSUME Disconnect(c)  PROVE UpInv'
  <2>1. PICK n \in Exist : Treats(c, "disconnect", n, Disconnected(ctr[n]))  BY <1>1, <1>6, DisconnectDoes
  <2> DEFINE k == Disconnected(ctr[n])
  <2>2. k.endpoint = None
    <3>1. ctr[n] \in Containers  BY ContainersTyped DEF Typed, Exist
    <3> QED  BY <3>1 DEF Disconnected, Containers
  <2>3. "disconnect" \in BeforeStart  BY CallsOfUp
  <2>4. Treats(c, "disconnect", n, k)  BY <2>1
  <2> HIDE DEF k
  <2> QED  BY <2>2, <2>3, <2>4, UpKeptByTreat
<1>7. ASSUME DisconnectedAll(c)  PROVE UpInv'
  <2>1. Moves(c, "disconnect", "remove network", {}) /\ Remembers(c)  BY <1>7, LoopsEnd
  <2>2. "disconnect" \in Inspecting /\ "remove network" \in Inspecting  BY CallsOfUp
  <2> QED  BY <2>1, <2>2, UpKeptBefore
<1>8. ASSUME RemoveNetwork(c)  PROVE UpInv'
  <2>1. /\ Acts(c) /\ Turns(c, "list networks", {}) /\ At(c, "up", "remove network")
        /\ Attached = {} /\ network' = NoNetwork /\ UNCHANGED <<volume, ctr, nextID>>
    BY <1>1, <1>8, RemoveNetworkDoes
  <2>2. cmd'[c].at = "list networks" /\ cmd[c].at = "remove network" /\ Only(c) /\ UNCHANGED period
    BY <2>1 DEF Turns, At, Acts
  <2>3. "list networks" \in BeforeVolume /\ "list networks" \in BeforeStart /\ "list networks" \in Resolving
    BY CallsOfUp
  <2>4. ~NetworkBad'  BY <2>1, ResourcesTyped DEF NetworkBad
  <2>5. VolumeBad' <=> VolumeBad  BY <2>1, <2>2 DEF VolumeBad
  <2>6. ASSUME NEW n \in Services, Wrong(n)'
        PROVE  Wrong(n) /\ ctr'[n].endpoint = ctr[n].endpoint /\ LeavesWrong(c, n)'
    <3>1. ctr'[n] = ctr[n] /\ ctr[n].state = "running" /\ ctr[n].endpoint # None  BY <2>1, <2>6 DEF Wrong
    <3>2. n \in Running  BY <3>1 DEF Running, Names
    <3>3. ctr[n].endpoint # network.id  BY <2>1, <3>2 DEF Attached
    <3> QED  BY <2>2, <2>3, <3>1, <3>3 DEF Wrong, LeavesWrong
  <2>7. \A n \in Services : Owes(c, n)'  BY <2>2, <2>3 DEF Owes
  <2> QED  BY <2>1, <2>2, <2>3, <2>4, <2>5, <2>6, <2>7, UpKept
<1>9. ASSUME ListNetworks(c)  PROVE UpInv'
  <2>1. CASE network.id = None /\ Moves(c, "list networks", "create network", {})
    <3>1. ~NetworkBad  BY <2>1 DEF NetworkBad
    <3>2. /\ "create network" \in BeforeVolume /\ "create network" \in BeforeStart /\ "create network" \in Resolving
          /\ cmd'[c].at = "create network"
      BY <2>1, CallsOfUp DEF Moves, Turns
    <3>3. \A n \in Services : LeavesWrong(c, n)'  BY <3>2 DEF LeavesWrong
    <3> QED  BY <2>1, <3>1, <3>2, <3>3, UpKeptByMove
  <2>2. CASE Moves(c, "list networks", "inspect volume", {}) /\ cmd'[c].networkID = network.id
    <3>1. cmd[c].at \notin Inspecting  BY <2>2, CallsOfUp DEF Moves, At
    <3>2. Ups => ~NetworkBad  BY <1>1, <3>1, UpPlaces
    <3> QED  BY <2>2, <3>2, UpKeptFound
  <2> QED  BY <1>9, <2>1, <2>2, ListNetworksDoes
<1>10. ASSUME CreateNetwork(c)  PROVE UpInv'
  <2>1. /\ Acts(c) /\ Turns(c, "connect", cmd[c].dangled) /\ At(c, "up", "create network")
        /\ cmd'[c].networkID = nextID /\ UNCHANGED <<volume, ctr>>
        /\ network.id = None /\ network'.id = nextID /\ network'.hash = cmd[c].want.network
    BY <1>10, CreateNetworkDoes
  <2>2. cmd'[c].at = "connect" /\ Only(c) /\ UNCHANGED period
    BY <2>1 DEF Turns, At, Acts
  <2>3. "connect" \in BeforeVolume /\ "connect" \in BeforeStart /\ "connect" \in WithNetwork
    BY CallsOfUp
  <2>4. Ups => ~NetworkBad'  BY <1>2, <2>1, <2>2 DEF NetworkBad
  <2>5. VolumeBad' <=> VolumeBad  BY <2>1, <2>2 DEF VolumeBad
  <2>6. ASSUME NEW n \in Services, Wrong(n)'
        PROVE  Wrong(n) /\ ctr'[n].endpoint = ctr[n].endpoint /\ LeavesWrong(c, n)'
    <3>1. /\ ctr'[n] = ctr[n] /\ ctr[n].state = "running"
          /\ ctr[n].endpoint # None /\ ctr[n].endpoint # nextID
      BY <2>1, <2>6 DEF Wrong
    <3> QED  BY <2>1, <2>2, <2>3, <3>1 DEF Wrong, LeavesWrong
  <2>7. \A n \in Services : Owes(c, n)'  BY <2>2, <2>3 DEF Owes
  <2> QED  BY <2>1, <2>2, <2>3, <2>4, <2>5, <2>6, <2>7, UpKept
<1>11. ASSUME NetworkNameTaken(c)  PROVE UpInv'
  <2>1. Moves(c, "create network", "inspect network", cmd[c].todo)
    BY <1>1, <1>11, NetworkNameTakenDoes
  <2>2. /\ "inspect network" \in BeforeVolume /\ "inspect network" \in BeforeStart
        /\ "inspect network" \in Resolving /\ "inspect network" \in Inspecting
        /\ cmd'[c].at = "inspect network"
    BY <2>1, CallsOfUp DEF Moves, Turns
  <2>3. \A n \in Services : LeavesWrong(c, n)'  BY <2>2 DEF LeavesWrong
  <2> QED  BY <2>1, <2>2, <2>3, UpKeptByMove
<1>12. ASSUME Connect(c)  PROVE UpInv'
  <2>1. PICK n \in Exist : Treats(c, "connect", n, Reconnected(ctr[n]))  BY <1>1, <1>12, ConnectDoes
  <2> DEFINE k == Reconnected(ctr[n])
  <2>2. k.endpoint = network.id
    <3>1. ctr[n] \in Containers  BY ContainersTyped DEF Typed, Exist
    <3> QED  BY <3>1 DEF Reconnected, Containers
  <2>3. "connect" \in BeforeStart  BY CallsOfUp
  <2>4. Treats(c, "connect", n, k)  BY <2>1
  <2> HIDE DEF k
  <2> QED  BY <2>2, <2>3, <2>4, UpKeptByTreat
<1>13. ASSUME ConnectedAll(c)  PROVE UpInv'
  <2>1. Moves(c, "connect", "inspect volume", {}) /\ Remembers(c)  BY <1>13, LoopsEnd
  <2>2. "connect" \in WithNetwork \cap BeforeVolume /\ "inspect volume" \in WithNetwork \cap BeforeVolume
    BY CallsOfUp
  <2> QED  BY <2>1, <2>2, UpKeptBefore
<1> QED  BY <1>3, <1>4, <1>5, <1>6, <1>7, <1>8, <1>9, <1>10, <1>11, <1>12, <1>13 DEF EnsureNetwork

LEMMA UpVolumeKept ==
  ASSUME Typed, Asked, UpInv, NEW c \in Commands, Acts(c), EnsureVolume(c)
  PROVE  UpInv'
<1>1. ~Fails(c) /\ c \in Active  BY ActsIsNoFailure DEF Acts
<1>2. Ups => cmd[c].want = period.want  BY <1>1, UpsWant
<1>3. ASSUME NEW from \in WithNetwork, NEW call \in WithNetwork, Moves(c, from, call, {}), Remembers(c),
             Ups => ~VolumeBad
      PROVE  UpInv'
  <2>1. /\ cmd[c].at = from /\ cmd'[c].at = call /\ cmd'[c].networkID = cmd[c].networkID /\ UNCHANGED ctr
    BY <1>3 DEF Moves, At, Turns, Remembers, engine
  <2>2. from \notin Resolving /\ from \notin Inspecting /\ from \notin {"remove orphans", "converge"}
    BY CallsOfUp
  <2>3. Ups => ~NetworkBad  BY <1>1, <2>1, <2>2, UpPlaces
  <2>4. ASSUME NEW n \in Services, Ups, Wrong(n)  PROVE LeavesWrong(c, n)'
    <3>1. LeavesWrong(c, n)  BY <1>1, <2>4, UpPlaces
    <3> QED  BY <2>1, <2>2, <3>1 DEF LeavesWrong
  <2>5. call \in BeforeStart  BY CallsOfUp
  <2> QED  BY <1>3, <2>3, <2>4, <2>5, UpKeptByMove
<1>4. ASSUME InspectVolume(c)  PROVE UpInv'
  <2>0. Remembers(c)  BY <1>4, InspectVolumeDoes
  <2>1. CASE volume.id = None /\ Moves(c, "inspect volume", "create volume", {})
    <3>1. ~VolumeBad  BY <2>1 DEF VolumeBad
    <3>2. "inspect volume" \in WithNetwork /\ "create volume" \in WithNetwork  BY CallsOfUp
    <3> QED  BY <1>3, <2>0, <2>1, <3>1, <3>2
  <2>2. CASE Moves(c, "inspect volume", "stop for volume", Services \cap Exist)
    <3>1. "inspect volume" \in WithNetwork \cap BeforeVolume /\ "stop for volume" \in WithNetwork \cap BeforeVolume
      BY CallsOfUp
    <3> QED  BY <2>0, <2>2, <3>1, UpKeptBefore
  <2>3. CASE ~(VolumeDiverged(c) /\ cmd[c].want.confirms) /\ Moves(c, "inspect volume", "list", {})
    <3>1. Ups => ~VolumeBad  BY <1>2, <2>3 DEF VolumeBad, VolumeDiverged
    <3>2. "inspect volume" \in WithNetwork /\ "list" \in WithNetwork  BY CallsOfUp
    <3> QED  BY <1>3, <2>0, <2>3, <3>1, <3>2
  <2> QED  BY <1>4, <2>1, <2>2, <2>3, InspectVolumeDoes
<1>5. ASSUME StopForVolume(c)  PROVE UpInv'
  <2>1. PICK n \in Exist : Treats(c, "stop for volume", n, Stopped(ctr[n]))  BY <1>1, <1>5, StopForVolumeDoes
  <2> DEFINE k == Stopped(ctr[n])
  <2>2. k.state # "running"
    <3>1. ctr[n] \in Containers  BY ContainersTyped DEF Typed, Exist
    <3> QED  BY <3>1 DEF Stopped, Containers
  <2>3. "stop for volume" \in BeforeStart  BY CallsOfUp
  <2>4. Treats(c, "stop for volume", n, k)  BY <2>1
  <2> HIDE DEF k
  <2> QED  BY <2>2, <2>3, <2>4, UpKeptByTreat
<1>6. ASSUME StoppedForVolume(c)  PROVE UpInv'
  <2>1. Moves(c, "stop for volume", "remove for volume", Services \cap Exist) /\ Remembers(c)
    BY <1>6, LoopsEnd
  <2>2. "stop for volume" \in WithNetwork \cap BeforeVolume /\ "remove for volume" \in WithNetwork \cap BeforeVolume
    BY CallsOfUp
  <2> QED  BY <2>1, <2>2, UpKeptBefore
<1>7. ASSUME RemoveForVolume(c)  PROVE UpInv'
  <2>1. PICK n \in Exist : Treats(c, "remove for volume", n, NoContainer)  BY <1>1, <1>7, RemoveForVolumeDoes
  <2>2. NoContainer.state # "running"  BY DEF NoContainer
  <2>3. "remove for volume" \in BeforeStart  BY CallsOfUp
  <2> QED  BY <2>1, <2>2, <2>3, UpKeptByTreat
<1>8. ASSUME RemovedForVolume(c)  PROVE UpInv'
  <2>1. Moves(c, "remove for volume", "remove volume", {}) /\ Remembers(c)  BY <1>8, LoopsEnd
  <2>2. "remove for volume" \in WithNetwork \cap BeforeVolume /\ "remove volume" \in WithNetwork \cap BeforeVolume
    BY CallsOfUp
  <2> QED  BY <2>1, <2>2, UpKeptBefore
<1>9. ASSUME NEW from \in WithNetwork, NEW call \in WithNetwork, At(c, "up", from), Turns(c, call, {}), Remembers(c),
             UNCHANGED <<network, ctr>>, Ups => ~VolumeBad'
      PROVE  UpInv'
  <2>1. /\ cmd[c].at = from /\ cmd'[c].at = call /\ cmd'[c].networkID = cmd[c].networkID /\ UNCHANGED ctr
        /\ Only(c)
    BY <1>9 DEF At, Turns, Remembers
  <2>2. from \notin Resolving /\ from \notin Inspecting /\ from \notin {"remove orphans", "converge"}
    BY CallsOfUp
  <2>3. Ups => ~NetworkBad  BY <1>1, <2>1, <2>2, UpPlaces
  <2>4. NetworkBad' <=> NetworkBad  BY <1>9 DEF NetworkBad, Acts
  <2>5. ASSUME NEW n \in Services, Ups, Wrong(n)'
        PROVE  Wrong(n) /\ ctr'[n].endpoint = ctr[n].endpoint /\ LeavesWrong(c, n)'
    <3>1. Wrong(n)  BY <1>9, <2>5 DEF Wrong
    <3>2. LeavesWrong(c, n)  BY <1>1, <2>5, <3>1, UpPlaces
    <3> QED  BY <2>1, <2>2, <3>1, <3>2 DEF LeavesWrong
  <2>6. call \in BeforeStart  BY CallsOfUp
  <2>7. \A n \in Services : Owes(c, n)'  BY <2>1, <2>6 DEF Owes
  <2> QED  BY <1>9, <2>1, <2>3, <2>4, <2>5, <2>7, UpKept
<1>10. ASSUME RemoveVolume(c)  PROVE UpInv'
  <2>1. /\ Turns(c, "create volume", {}) /\ Remembers(c) /\ At(c, "up", "remove volume")
        /\ volume' = NoVolume /\ UNCHANGED <<network, ctr>>
    BY <1>1, <1>10, RemoveVolumeDoes
  <2>2. ~VolumeBad'  BY <2>1, ResourcesTyped DEF VolumeBad
  <2>3. "remove volume" \in WithNetwork /\ "create volume" \in WithNetwork  BY CallsOfUp
  <2> QED  BY <1>9, <2>1, <2>2, <2>3
<1>11. ASSUME CreateVolume(c)  PROVE UpInv'
  <2>1. /\ Turns(c, "list", {}) /\ Remembers(c) /\ At(c, "up", "create volume") /\ UNCHANGED <<network, ctr>>
        /\ UNCHANGED volume \/ Made(cmd[c].want.volume)
    BY <1>11, CreateVolumeDoes
  <2>2. UNCHANGED period  BY DEF Acts
  <2>3. Ups => ~VolumeBad'
    <3>1. CASE UNCHANGED volume
      <4>1. "create volume" \notin BeforeVolume  BY CallsOfUp
      <4>2. Ups => ~VolumeBad  BY <1>1, <2>1, <4>1, UpPlaces DEF At
      <4> QED  BY <2>2, <3>1, <4>2 DEF VolumeBad
    <3>2. CASE Made(cmd[c].want.volume)  BY <1>2, <2>2, <3>2 DEF Made, VolumeBad
    <3> QED  BY <2>1, <3>1, <3>2
  <2>4. "create volume" \in WithNetwork /\ "list" \in WithNetwork  BY CallsOfUp
  <2> QED  BY <1>9, <2>1, <2>3, <2>4
<1> QED  BY <1>4, <1>5, <1>6, <1>7, <1>8, <1>10, <1>11 DEF EnsureVolume

\* Past the volume nothing is bad any more.
LEMMA NothingBad ==
  ASSUME Typed, UpInv, NEW c \in Active,
         cmd[c].at \in {"create volume", "list", "remove orphans", "converge", "list to start", "start"}
  PROVE  Ups => ~NetworkBad /\ ~VolumeBad
BY UpPlaces, CallsOfUp

LEMMA UpConvergeKept ==
  ASSUME Typed, Asked, UpInv, NEW c \in Commands, Acts(c), Converge(c)
  PROVE  UpInv'
<1>1. ~Fails(c) /\ c \in Active  BY ActsIsNoFailure DEF Acts
<1>2. ASSUME List(c)  PROVE UpInv'
  <2>1. PICK todo : Moves(c, "list", "remove orphans", todo)  BY <1>2, ListDoes
  <2>2. cmd'[c].diverged = MustRecreate(cmd[c].networkID)  BY <1>2, ListDoes
  <2>3. cmd[c].at = "list" /\ cmd'[c].at = "remove orphans" /\ UNCHANGED ctr
    BY <2>1 DEF Moves, At, Turns, engine
  <2>4. ASSUME NEW n \in Services, Ups, Wrong(n)  PROVE LeavesWrong(c, n)'
    <3>1. LeavesWrong(c, n)  BY <1>1, <2>4, UpPlaces
    <3>2. cmd[c].networkID # ctr[n].endpoint  BY <2>3, <3>1, CallsOfUp DEF LeavesWrong
    <3>3. n \in Running  BY <2>4 DEF Wrong, Running, Names
    <3>4. n \in cmd'[c].diverged  BY <2>2, <3>2, <3>3 DEF MustRecreate
    <3> QED  BY <2>3, <3>4 DEF LeavesWrong
  <2>5. "remove orphans" \in BeforeStart  BY CallsOfUp
  <2>6. Ups => ~NetworkBad /\ ~VolumeBad  BY <1>1, <2>3, NothingBad
  <2> QED  BY <2>1, <2>4, <2>5, <2>6, UpKeptByMove
<1>3. ASSUME RemoveOrphan(c)  PROVE UpInv'
  <2>1. PICK n \in cmd[c].todo : Treats(c, "remove orphans", n, NoContainer)  BY <1>1, <1>3, RemoveOrphanDoes
  <2>2. NoContainer.state # "running"  BY DEF NoContainer
  <2>3. "remove orphans" \in BeforeStart  BY CallsOfUp
  <2> QED  BY <2>1, <2>2, <2>3, UpKeptByTreat
<1>4. ASSUME RemovedOrphans(c)  PROVE UpInv'
  <2>1. Moves(c, "remove orphans", "converge", Services) /\ Remembers(c)  BY <1>4, LoopsEnd
  <2>2. /\ cmd[c].at = "remove orphans" /\ cmd'[c].at = "converge" /\ cmd'[c].todo = Services
        /\ cmd'[c].diverged = cmd[c].diverged
    BY <2>1 DEF Moves, At, Turns, Remembers
  <2>3. ASSUME NEW n \in Services, Ups, Wrong(n)  PROVE LeavesWrong(c, n)'
    <3>1. LeavesWrong(c, n)  BY <1>1, <2>3, UpPlaces
    <3>2. n \in cmd[c].diverged  BY <2>2, <3>1, CallsOfUp DEF LeavesWrong
    <3> QED  BY <2>2, <3>2 DEF LeavesWrong
  <2>4. "converge" \in BeforeStart  BY CallsOfUp
  <2>5. Ups => ~NetworkBad /\ ~VolumeBad  BY <1>1, <2>2, NothingBad
  <2> QED  BY <2>1, <2>3, <2>4, <2>5, UpKeptByMove
<1>5. ASSUME CreateContainer(c) \/ RecreateContainer(c)  PROVE UpInv'
  <2>1. PICK n \in cmd[c].todo : Converges(c, n)  BY <1>1, <1>5, CreateContainerDoes
  <2>2. /\ cmd[c].at = "converge" /\ cmd'[c].at = "converge" /\ cmd'[c].todo = cmd[c].todo \ {n} /\ Only(c)
        /\ cmd'[c].diverged = cmd[c].diverged
        /\ \A m \in Names : ctr'[m] = IF m = n THEN NewContainer ELSE ctr[m]
        /\ UNCHANGED volume \/ Made("none")
        /\ UNCHANGED <<network, period>>
    BY <2>1 DEF Converges, At, Turns, Remembers, Acts
  <2>3. Ups => ~NetworkBad /\ ~VolumeBad  BY <1>1, <2>2, NothingBad
  <2>4. Ups => ~NetworkBad' /\ ~VolumeBad'  BY <2>2, <2>3 DEF NetworkBad, VolumeBad, Made
  <2>5. ASSUME NEW m \in Services, Ups, Wrong(m)'
        PROVE  Wrong(m) /\ ctr'[m].endpoint = ctr[m].endpoint /\ LeavesWrong(c, m)'
    <3>1. m # n /\ ctr'[m] = ctr[m]  BY <2>2, <2>5 DEF Wrong, NewContainer, Names
    <3>2. Wrong(m)  BY <2>2, <2>5, <3>1 DEF Wrong
    <3>3. LeavesWrong(c, m)  BY <1>1, <2>5, <3>2, UpPlaces
    <3>4. m \in cmd[c].diverged \cap cmd[c].todo  BY <2>2, <3>3, CallsOfUp DEF LeavesWrong
    <3> QED  BY <2>2, <3>1, <3>2, <3>4 DEF LeavesWrong
  <2>6. "converge" \in BeforeStart  BY CallsOfUp
  <2>7. \A m \in Services : Owes(c, m)'  BY <2>2, <2>6 DEF Owes
  <2> QED  BY <2>2, <2>4, <2>5, <2>7, UpKept
<1>6. ASSUME KeepContainer(c)  PROVE UpInv'
  <2>1. PICK n \in cmd[c].todo : n \notin cmd[c].diverged /\ Moves(c, "converge", "converge", cmd[c].todo \ {n})
    BY <1>6, KeepContainerDoes
  <2>2. Remembers(c)  BY <1>6, KeepContainerDoes
  <2>3. /\ cmd[c].at = "converge" /\ cmd'[c].at = "converge" /\ cmd'[c].todo = cmd[c].todo \ {n}
        /\ cmd'[c].diverged = cmd[c].diverged
    BY <2>1, <2>2 DEF Moves, At, Turns, Remembers
  <2>4. ASSUME NEW m \in Services, Ups, Wrong(m)  PROVE LeavesWrong(c, m)'
    <3>1. LeavesWrong(c, m)  BY <1>1, <2>4, UpPlaces
    <3>2. m \in cmd[c].diverged \cap cmd[c].todo  BY <2>3, <3>1, CallsOfUp DEF LeavesWrong
    <3> QED  BY <2>1, <2>3, <3>2 DEF LeavesWrong
  <2>5. "converge" \in BeforeStart  BY CallsOfUp
  <2>6. Ups => ~NetworkBad /\ ~VolumeBad  BY <1>1, <2>3, NothingBad
  <2> QED  BY <2>1, <2>4, <2>5, <2>6, UpKeptByMove
<1>7. ASSUME Converged(c)  PROVE UpInv'
  <2>1. Moves(c, "converge", "list to start", {}) /\ cmd[c].todo = {}  BY <1>7, LoopsEnd
  <2>2. cmd[c].at = "converge"  BY <2>1 DEF Moves, At
  <2>3. ASSUME NEW n \in Services, Ups, Wrong(n)  PROVE FALSE
    <3>1. LeavesWrong(c, n)  BY <1>1, <2>3, UpPlaces
    <3> QED  BY <2>1, <2>2, <3>1, CallsOfUp DEF LeavesWrong
  <2>4. "list to start" \in BeforeStart  BY CallsOfUp
  <2>5. Ups => ~NetworkBad /\ ~VolumeBad  BY <1>1, <2>2, NothingBad
  <2> QED  BY <2>1, <2>3, <2>4, <2>5, UpKeptByMove
<1>8. ASSUME ListToStart(c)  PROVE UpInv'
  <2>1. Moves(c, "list to start", "start", Services \ Running)  BY <1>1, <1>8, ListToStartDoes
  <2>2. cmd[c].at = "list to start"  BY <2>1 DEF Moves, At
  <2>3. ASSUME NEW n \in Services, Ups, Wrong(n)  PROVE FALSE
    <3>1. LeavesWrong(c, n)  BY <1>1, <2>3, UpPlaces
    <3> QED  BY <2>2, <3>1, CallsOfUp DEF LeavesWrong
  <2>4. Ups => ~NetworkBad /\ ~VolumeBad  BY <1>1, <2>2, NothingBad
  <2> DEFINE todo == Services \ Running
  <2>5. Moves(c, "list to start", "start", todo) /\ todo = Services \ Running  BY <2>1
  <2> HIDE DEF todo
  <2> QED  BY <2>3, <2>4, <2>5, UpKeptByMove
<1>9. ASSUME StartContainer(c)  PROVE UpInv'
  <2>1. PICK n \in Exist : CanStart(n) /\ Treats(c, "start", n, Started(ctr[n]))  BY <1>1, <1>9, StartContainerDoes
  <2> DEFINE k == Started(ctr[n])
  <2>2. k.state = "running" /\ k.endpoint \in {None, network.id}
    <3>1. ctr[n] \in Containers  BY ContainersTyped DEF Typed, Exist
    <3> QED  BY <2>1, <3>1 DEF Started, Containers, CanStart
  <2>3. Treats(c, "start", n, k)  BY <2>1
  <2> HIDE DEF k
  <2> QED  BY <2>2, <2>3, UpKeptByTreat
<1>10. ASSUME UpReturns(c)  PROVE FALSE
  <2>1. cmd'[c].at \in Ended  BY <1>10, UpReturnsReturns DEF Returns, Ends
  <2> QED  BY <2>1 DEF Acts
<1> QED  BY <1>2, <1>3, <1>4, <1>5, <1>6, <1>7, <1>8, <1>9, <1>10 DEF Converge

LEMMA EngineUpKept ==
  ASSUME UNCHANGED engine, period'.want = period.want
  PROVE  /\ NetworkBad' <=> NetworkBad
         /\ VolumeBad' <=> VolumeBad
         /\ \A n \in Services : (Wrong(n)' <=> Wrong(n)) /\ ctr'[n] = ctr[n]
BY DEF engine, NetworkBad, VolumeBad, Wrong

LEMMA UpBegins ==
  ASSUME Typed, UpInv, NEW c \in Commands, NEW want \in Wants, Begins(c, want)
  PROVE  UpInv'
<1>1. Active' = Active \cup {c} /\ c \notin Active  BY ActiveGrows
<1>2. /\ Only(c) /\ cmd'[c].want = want /\ UNCHANGED engine
      /\ want.kind = "up" => cmd'[c].at = "inspect network"
  BY DEF Begins
<1>3. \A d \in Active : cmd'[d] = cmd[d]  BY <1>1, <1>2 DEF Only, Active
<1>4. want.kind = "up" => /\ cmd'[c].at \in Inspecting /\ cmd'[c].at \in BeforeVolume
                          /\ \A n \in Services : LeavesWrong(c, n)' /\ Owes(c, n)'
  BY <1>2, CallsOfUp DEF LeavesWrong, Owes
<1>5. SomebodyWorks'  BY <1>1 DEF SomebodyWorks
<1>6. CASE Active = {} /\ period'.want = want
  <2>1. Active' = {c}  BY <1>1, <1>6
  <2>2. Ups' => want.kind = "up"  BY <1>6 DEF Ups
  <2> QED  BY <1>4, <1>5, <2>1, <2>2 DEF UpInv, BadNetworkStays, BadVolumeStays, WrongStays, SomebodyStarts
<1>7. CASE /\ period'.same => period.same /\ period.want = want
           /\ period'.want = period.want /\ period'.ok = period.ok
  <2>1. Ups' => Ups /\ want.kind = "up"  BY <1>7 DEF Ups
  <2>2. /\ NetworkBad' <=> NetworkBad
        /\ VolumeBad' <=> VolumeBad
        /\ \A n \in Services : (Wrong(n)' <=> Wrong(n)) /\ ctr'[n] = ctr[n]
    BY <1>2, <1>7, EngineUpKept
  <2>3. BadNetworkStays' /\ BadVolumeStays'
    BY <1>1, <1>3, <1>4, <2>1, <2>2 DEF UpInv, BadNetworkStays, BadVolumeStays
  <2>4. WrongStays'
    <3> SUFFICES ASSUME Ups', NEW n \in Services, Wrong(n)', NEW d \in Active'  PROVE LeavesWrong(d, n)'
      BY DEF WrongStays
    <3>1. CASE d = c  BY <1>4, <2>1, <3>1
    <3>2. CASE d \in Active
      <4>1. LeavesWrong(d, n)  BY <2>1, <2>2, <3>2 DEF UpInv, WrongStays
      <4>2. cmd'[d] = cmd[d] /\ ctr'[n] = ctr[n]  BY <1>3, <2>2, <3>2
      <4> QED  BY <4>1, <4>2 DEF LeavesWrong
    <3> QED  BY <1>1, <3>1, <3>2
  <2>5. SomebodyStarts'  BY <1>1, <1>4, <2>1 DEF SomebodyStarts
  <2> QED  BY <1>5, <2>3, <2>4, <2>5 DEF UpInv
<1> QED  BY <1>6, <1>7 DEF Begins

LEMMA UpEnds ==
  ASSUME Typed, UpInv, NEW c \in Commands, Ends(c),
         Ups /\ period'.ok =>
           /\ period.ok /\ ~NetworkBad /\ ~VolumeBad
           /\ \A n \in Services : ~Wrong(n) /\ ~Owes(c, n)
  PROVE  UpInv'
<1>1. Active' = Active \ {c} /\ c \in Active  BY ActiveShrinks
<1>2. Only(c) /\ UNCHANGED engine /\ period'.want = period.want /\ period'.same = period.same  BY DEF Ends
<1>3. \A d \in Active' : d \in Active /\ cmd'[d] = cmd[d]  BY <1>1, <1>2 DEF Only, Active
<1>4. Ups' <=> Ups  BY <1>2 DEF Ups
<1>5. /\ NetworkBad' <=> NetworkBad
      /\ VolumeBad' <=> VolumeBad
      /\ \A n \in Services : (Wrong(n)' <=> Wrong(n)) /\ ctr'[n] = ctr[n]
  BY <1>2, EngineUpKept
<1>6. BadNetworkStays' /\ BadVolumeStays'
  BY <1>3, <1>4, <1>5 DEF UpInv, BadNetworkStays, BadVolumeStays
<1>7. WrongStays'
  <2> SUFFICES ASSUME Ups, NEW n \in Services, Wrong(n)', NEW d \in Active'  PROVE LeavesWrong(d, n)'
    BY <1>4 DEF WrongStays
  <2>1. LeavesWrong(d, n)  BY <1>3, <1>5 DEF UpInv, WrongStays
  <2>2. cmd'[d] = cmd[d] /\ ctr'[n] = ctr[n]  BY <1>3, <1>5
  <2> QED  BY <2>1, <2>2 DEF LeavesWrong
<1>8. SomebodyStarts'
  <2> SUFFICES ASSUME Ups, period'.ok, NEW n \in Services, ctr'[n].state # "running"
               PROVE  \E d \in Active' : Owes(d, n)'
    BY <1>4 DEF SomebodyStarts
  <2>1. PICK d \in Active : Owes(d, n)  BY <1>5 DEF UpInv, SomebodyStarts
  <2>2. d # c  BY <2>1
  <2>3. d \in Active' /\ cmd'[d] = cmd[d]  BY <1>1, <1>3, <2>2
  <2>4. Owes(d, n)'  BY <2>1, <2>3 DEF Owes
  <2> QED  BY <2>3, <2>4
<1>9. SomebodyWorks'  BY <1>4, <1>5 DEF SomebodyWorks
<1> QED  BY <1>6, <1>7, <1>8, <1>9 DEF UpInv

LEMMA UpReturnsKept ==
  ASSUME Typed, Asked, UpInv, NEW c \in Commands, Returns(c)
  PROVE  UpInv'
<1>1. Ends(c) /\ UNCHANGED period /\ cmd[c].todo = {} /\ c \in Active  BY DEF Returns, Ends
<1>2. Ups => cmd[c].want.kind = "up"  BY <1>1, UpsWant
<1>3. Ups => cmd[c].at = "start"  BY <1>2 DEF Returns, At
<1>4. Ups => ~NetworkBad /\ ~VolumeBad  BY <1>1, <1>3, NothingBad
<1>5. ASSUME NEW n \in Services, Ups  PROVE ~Wrong(n) /\ ~Owes(c, n)
  <2>1. Wrong(n) => LeavesWrong(c, n)  BY <1>1, <1>5, UpPlaces
  <2> QED  BY <1>1, <1>3, <1>5, <2>1, CallsOfUp DEF LeavesWrong, Owes
<1> QED  BY <1>1, <1>4, <1>5, UpEnds

LEMMA UpDownKept ==
  ASSUME Typed, Asked, UpInv, NEW c \in Commands, DownCall(c)
  PROVE  UpInv'
<1>1. Acts(c) /\ Only(c) /\ cmd[c].want.kind = "down" /\ UNCHANGED period  BY DownSteps DEF DownCall, Acts
<1>2. ~Ups  BY <1>1, UpsWant DEF Acts
<1> QED  BY <1>1, <1>2, UpKept

LEMMA VarsKeepUp ==
  ASSUME UpInv, UNCHANGED vars
  PROVE  UpInv'
<1>1. UNCHANGED <<network, volume, ctr, cmd, period>>  BY DEF vars, engine
<1> QED  BY <1>1 DEF UpInv, BadNetworkStays, BadVolumeStays, WrongStays, SomebodyStarts, SomebodyWorks, Ups,
                   NetworkBad, VolumeBad, Wrong, LeavesWrong, Owes, Active

LEMMA UpStepKept ==
  ASSUME Typed, Asked, UpInv, [Next]_vars
  PROVE  UpInv'
<1>1. CASE UNCHANGED vars  BY <1>1, VarsKeepUp
<1>2. CASE Next
  <2>1. PICK c \in Commands :
          (\E want \in Wants : Begins(c, want)) \/ Breaks(c) \/ Returns(c) \/ UpCall(c) \/ DownCall(c)
    BY <1>2, StepKinds
  <2>2. CASE \E want \in Wants : Begins(c, want)  BY <2>2, UpBegins
  <2>3. CASE Breaks(c)  BY <2>3, UpEnds DEF Breaks
  <2>4. CASE Returns(c)  BY <2>4, UpReturnsKept
  <2>5. CASE UpCall(c)  BY <2>5, UpNetworkKept, UpVolumeKept, UpConvergeKept DEF UpCall
  <2>6. CASE DownCall(c)  BY <2>6, UpDownKept
  <2> QED  BY <2>1, <2>2, <2>3, <2>4, <2>5, <2>6
<1> QED  BY <1>1, <1>2

LEMMA UpInitially == Init => UpInv
<1> SUFFICES ASSUME Init  PROVE UpInv
  OBVIOUS
<1>1. ~Ups  BY NobodyInitially DEF Ups
<1> QED  BY <1>1 DEF UpInv, BadNetworkStays, BadVolumeStays, WrongStays, SomebodyStarts, SomebodyWorks

LEMMA UpAlways == Spec => []UpInv
BY TypedAlways, UpInitially, UpStepKept, PTL DEF Spec

----------------------------------------------------------------------------
(* Equal ups, and the containers that are off the network.  One that is    *)
(* not adrift is left to a command that will connect it, or replace it, as *)
(* it runs.                                                                *)

Off(n) == ctr[n].state # "none" /\ ctr[n].endpoint = None /\ n \notin adrift

Runs(n) == ctr[n].state = "running"

\* It will put n on the network, if nobody stops n meanwhile.
Mends(c, n) ==
  \/ cmd[c].at \in {"stop for network", "stop for volume"}
  \/ cmd[c].at \in {"disconnect", "remove network", "list networks", "create network"} /\ n \in cmd[c].dangled
  \/ cmd[c].at \in {"connect", "remove for volume"} /\ n \in cmd[c].todo
  \/ /\ cmd[c].at \in {"inspect network", "list networks", "create network", "connect", "inspect volume",
                       "create volume", "list"}
     /\ Runs(n)
  \/ cmd[c].at = "remove orphans" /\ n \in cmd[c].diverged
  \/ cmd[c].at = "converge" /\ n \in cmd[c].diverged \cap cmd[c].todo

EachMended == Ups /\ period.ok => \A n \in Services : Off(n) => \E c \in Active : Mends(c, n)

\* What a command remembers when it mends.
HoldsOK(c) ==
  /\ cmd[c].at = "disconnect" => cmd[c].todo \subseteq cmd[c].dangled
  /\ cmd[c].want.kind = "up" /\ cmd[c].at \in WithNetwork => cmd[c].networkID # None

\* A command that is alone keeps the network's name.
AloneFinds ==
  period.first \in Commands =>
    \A c \in Active : cmd[c].at \in {"list networks", "create network"} => network.id = None

MendInv == adrift \subseteq Names /\ EachMended /\ AloneFinds /\ \A c \in Active : HoldsOK(c)

LEMMA FailsLeaves ==
  ASSUME NEW c, Fails(c)
  PROVE  UNCHANGED adrift
BY DEF Fails

\* The two calls at which a command may leave its containers adrift.
LEMMA NetworkLeaves ==
  ASSUME NEW c \in Commands, EnsureNetwork(c), ~ListNetworks(c), ~NetworkNameTaken(c)
  PROVE  UNCHANGED adrift
<1> USE FailsLeaves DEF Quiet
<1>1. CASE InspectNetwork(c)  BY <1>1 DEF InspectNetwork
<1>2. CASE StopForNetwork(c)  BY <1>2 DEF StopForNetwork, ForEach, OnContainers
<1>3. CASE ListToDisconnect(c)  BY <1>3 DEF ListToDisconnect
<1>4. CASE Disconnect(c)  BY <1>4 DEF Disconnect, ForEach, OnContainers
<1>5. CASE DisconnectedAll(c)  BY <1>5 DEF DisconnectedAll, Then
<1>6. CASE RemoveNetwork(c)  BY <1>6 DEF RemoveNetwork
<1>7. CASE CreateNetwork(c)  BY <1>7 DEF CreateNetwork
<1>8. CASE Connect(c)  BY <1>8 DEF Connect, ForEach, OnContainers
<1>9. CASE ConnectedAll(c)  BY <1>9 DEF ConnectedAll, Then
<1> QED  BY <1>1, <1>2, <1>3, <1>4, <1>5, <1>6, <1>7, <1>8, <1>9 DEF EnsureNetwork

LEMMA VolumeLeaves ==
  ASSUME NEW c \in Commands, EnsureVolume(c)
  PROVE  UNCHANGED adrift
<1> USE FailsLeaves DEF Quiet
<1>1. CASE InspectVolume(c)  BY <1>1 DEF InspectVolume
<1>2. CASE StopForVolume(c)  BY <1>2 DEF StopForVolume, ForEach, OnContainers
<1>3. CASE StoppedForVolume(c)  BY <1>3 DEF StoppedForVolume, Then
<1>4. CASE RemoveForVolume(c)  BY <1>4 DEF RemoveForVolume, ForEach, OnContainers
<1>5. CASE RemovedForVolume(c)  BY <1>5 DEF RemovedForVolume, Then
<1>6. CASE RemoveVolume(c)  BY <1>6 DEF RemoveVolume
<1>7. CASE CreateVolume(c)  BY <1>7 DEF CreateVolume
<1> QED  BY <1>1, <1>2, <1>3, <1>4, <1>5, <1>6, <1>7 DEF EnsureVolume

LEMMA ConvergeLeaves ==
  ASSUME NEW c \in Commands, Converge(c)
  PROVE  UNCHANGED adrift
<1> USE FailsLeaves DEF Quiet
<1>1. CASE List(c)  BY <1>1 DEF List
<1>2. CASE RemoveOrphan(c)  BY <1>2 DEF RemoveOrphan, ForEach, OnContainers
<1>3. CASE RemovedOrphans(c)  BY <1>3 DEF RemovedOrphans, Then
<1>4. CASE CreateContainer(c)  BY <1>4 DEF CreateContainer, Creates
<1>5. CASE RecreateContainer(c)  BY <1>5 DEF RecreateContainer, Creates
<1>6. CASE KeepContainer(c)  BY <1>6 DEF KeepContainer
<1>7. CASE Converged(c)  BY <1>7 DEF Converged, Then
<1>8. CASE ListToStart(c)  BY <1>8 DEF ListToStart
<1>9. CASE StartContainer(c)  BY <1>9 DEF StartContainer, ForEach, OnContainers
<1>10. CASE UpReturns(c)  BY <1>10 DEF UpReturns, Succeeds
<1> QED  BY <1>1, <1>2, <1>3, <1>4, <1>5, <1>6, <1>7, <1>8, <1>9, <1>10 DEF Converge

LEMMA DownLeaves ==
  ASSUME NEW c \in Commands, Down(c)
  PROVE  UNCHANGED adrift
<1> USE FailsLeaves DEF Quiet
<1>1. CASE ListToRemove(c)  BY <1>1 DEF ListToRemove
<1>2. CASE RemoveContainer(c)  BY <1>2 DEF RemoveContainer, ForEach, OnContainers
<1>3. CASE RemovedContainers(c)  BY <1>3 DEF RemovedContainers, Then
<1>4. CASE InspectToRemove(c)  BY <1>4 DEF InspectToRemove
<1>5. CASE RemoveInspected(c)  BY <1>5 DEF RemoveInspected
<1>6. CASE RemoveVolumeDown(c)  BY <1>6 DEF RemoveVolumeDown
<1>7. CASE DownReturns(c)  BY <1>7 DEF DownReturns, Succeeds
<1> QED  BY <1>1, <1>2, <1>3, <1>4, <1>5, <1>6, <1>7 DEF Down

LEMMA AdriftGrows ==
  ASSUME NEW c \in Commands, EnsureNetwork(c) \/ EnsureVolume(c) \/ Converge(c) \/ Down(c)
  PROVE  adrift \subseteq adrift' /\ adrift' \subseteq adrift \cup Names
<1>1. CASE ListNetworks(c)  BY <1>1 DEF ListNetworks, Quiet, Forgets, OffNetwork, Exist
<1>2. CASE NetworkNameTaken(c)  BY <1>2, FailsLeaves DEF NetworkNameTaken, Forgets, OffNetwork, Exist
<1> QED  BY <1>1, <1>2, NetworkLeaves, VolumeLeaves, ConvergeLeaves, DownLeaves

LEMMA AdriftTyped ==
  ASSUME adrift \subseteq Names, [Next]_vars
  PROVE  adrift' \subseteq Names
<1>1. CASE UNCHANGED vars  BY <1>1 DEF vars
<1>2. CASE Next
  <2>1. PICK c \in Commands :
          Begin(c) \/ Dies(c) \/ EnsureNetwork(c) \/ EnsureVolume(c) \/ Converge(c) \/ Down(c)
    BY <1>2 DEF Next
  <2>2. CASE Begin(c)  BY <2>2 DEF Begin, OffNetwork, Exist
  <2>3. CASE Dies(c)  BY <2>3 DEF Dies
  <2> QED  BY <2>1, <2>2, <2>3, AdriftGrows
<1> QED  BY <1>1, <1>2

\* What c does not leave undone stays somebody's to mend.
LEMMA MendKept ==
  ASSUME EachMended, NEW c \in Commands, Acts(c), Only(c),
         \A n \in Services : Ups /\ Off(n)' =>
           Mends(c, n)' \/ (Off(n) /\ ~Mends(c, n) /\ (Runs(n) => Runs(n)'))
  PROVE  EachMended'
<1>1. Active' = Active /\ c \in Active  BY ActiveStays
<1>2. UNCHANGED period /\ (Ups' <=> Ups)  BY DEF Acts, Ups
<1> SUFFICES ASSUME Ups, period.ok, NEW n \in Services, Off(n)'  PROVE \E d \in Active : Mends(d, n)'
  BY <1>1, <1>2 DEF EachMended
<1>3. CASE Mends(c, n)'  BY <1>1, <1>3
<1>4. CASE Off(n) /\ ~Mends(c, n) /\ (Runs(n) => Runs(n)')
  <2>1. PICK d \in Active : Mends(d, n)  BY <1>4 DEF EachMended
  <2>2. cmd'[d] = cmd[d]  BY <1>4, <2>1 DEF Only, Active
  <2>3. Mends(d, n)'  BY <1>4, <2>1, <2>2 DEF Mends
  <2> QED  BY <2>1, <2>3
<1> QED  BY <1>3, <1>4

LEMMA MendKeptByMove ==
  ASSUME EachMended, NEW c \in Commands, adrift \subseteq adrift', Acts(c), Only(c), UNCHANGED ctr,
         \A n \in Services : Off(n) /\ n \notin adrift' /\ Mends(c, n) => Mends(c, n)'
  PROVE  EachMended'
BY MendKept DEF Off, Runs

LEMMA MendKeptByTreat ==
  ASSUME EachMended, NEW c \in Commands, UNCHANGED adrift, NEW call, NEW k, NEW n, Treats(c, call, n, k),
         cmd'[c].dangled = cmd[c].dangled,
         \/ k.state = "none" \/ k.endpoint # None \/ Mends(c, n)'
         \/ Off(n) /\ ~Mends(c, n) /\ k.state = "running"
  PROVE  EachMended'
<1>1. /\ Acts(c) /\ Only(c) /\ cmd[c].at = call /\ cmd'[c].at = call /\ cmd'[c].todo = cmd[c].todo \ {n}
      /\ cmd'[c].diverged = cmd[c].diverged
      /\ \A m \in Names : ctr'[m] = IF m = n THEN k ELSE ctr[m]
  BY DEF Treats, Turns, At, Remembers
<1>2. ASSUME NEW m \in Services, Off(m)'
      PROVE  Mends(c, m)' \/ (Off(m) /\ ~Mends(c, m) /\ (Runs(m) => Runs(m)'))
  <2>1. m \in Names  BY DEF Names
  <2>2. CASE m = n  BY <1>1, <1>2, <2>1, <2>2 DEF Off, Runs
  <2>3. CASE m # n
    <3>1. ctr'[m] = ctr[m]  BY <1>1, <2>1, <2>3
    <3>2. Off(m) /\ (Runs(m)' <=> Runs(m))  BY <1>2, <3>1 DEF Off, Runs
    <3>3. Mends(c, m) => Mends(c, m)'  BY <1>1, <2>3, <3>2 DEF Mends
    <3> QED  BY <3>2, <3>3
  <2> QED  BY <2>2, <2>3
<1> QED  BY <1>1, <1>2, MendKept

LEMMA DangledStays ==
  ASSUME Typed, NEW c \in Commands, NEW call, NEW todo, NEW name, Goes(c, call, todo) \/ Does(c, name)
  PROVE  cmd'[c].dangled = cmd[c].dangled
<1>1. cmd \in [Commands -> Processes]  BY DEF Typed, BooksOK
<1>2. CASE Goes(c, call, todo)  BY <1>1, <1>2 DEF Goes, Processes
<1>3. CASE Does(c, name)  BY <1>1, <1>3 DEF Does, Processes
<1> QED  BY <1>2, <1>3

LEMMA DangledKept ==
  ASSUME Typed, NEW c \in Commands, ~Fails(c),
         \/ StopForNetwork(c) \/ Disconnect(c) \/ DisconnectedAll(c) \/ RemoveNetwork(c) \/ Connect(c)
         \/ StopForVolume(c) \/ RemoveForVolume(c) \/ RemoveOrphan(c) \/ StartContainer(c)
         \/ ListNetworks(c) /\ network.id = None
  PROVE  cmd'[c].dangled = cmd[c].dangled
<1> USE DangledStays
<1>1. CASE StopForNetwork(c)  BY <1>1 DEF StopForNetwork, ForEach
<1>2. CASE Disconnect(c)  BY <1>2 DEF Disconnect, ForEach
<1>3. CASE DisconnectedAll(c)  BY <1>3 DEF DisconnectedAll, Then
<1>4. CASE RemoveNetwork(c)  BY <1>4 DEF RemoveNetwork
<1>5. CASE Connect(c)  BY <1>5 DEF Connect, ForEach
<1>6. CASE StopForVolume(c)  BY <1>6 DEF StopForVolume, ForEach
<1>7. CASE RemoveForVolume(c)  BY <1>7 DEF RemoveForVolume, ForEach
<1>8. CASE RemoveOrphan(c)  BY <1>8 DEF RemoveOrphan, ForEach
<1>9. CASE StartContainer(c)  BY <1>9 DEF StartContainer, ForEach
<1>10. CASE ListNetworks(c) /\ network.id = None  BY <1>10 DEF ListNetworks
<1> QED  BY <1>1, <1>2, <1>3, <1>4, <1>5, <1>6, <1>7, <1>8, <1>9, <1>10

LEMMA ListedDangles ==
  ASSUME Typed, NEW c \in Commands, ListToDisconnect(c)
  PROVE  cmd'[c].dangled = Services \cap Exist /\ cmd'[c].todo = Services \cap Exist
<1>1. cmd \in [Commands -> Processes]  BY DEF Typed, BooksOK
<1> QED  BY <1>1 DEF ListToDisconnect, Processes

\* A command that finds the name taken was not alone, and what it forgets is adrift.
LEMMA ForgottenIsAdrift ==
  ASSUME Typed, MendInv, NEW c \in Active, Forgets(c), network.id # None,
         cmd[c].at \in {"list networks", "create network"}, NEW n \in Services,
         Off(n), n \in cmd[c].dangled, ~Runs(n)
  PROVE  n \in adrift'
<1>1. period.first \notin Commands  BY DEF MendInv, AloneFinds
<1>2. n \in OffNetwork  BY DEF OffNetwork, Off, Runs, Exist, Running, Names
<1> QED  BY <1>1, <1>2 DEF Forgets

LEMMA MendNetworkKept ==
  ASSUME Typed, MendInv, NEW c \in Commands, Acts(c), EnsureNetwork(c)
  PROVE  EachMended'
<1>1. ~Fails(c) /\ c \in Active /\ EachMended /\ HoldsOK(c)  BY ActsIsNoFailure DEF Acts, MendInv
<1>2. adrift \subseteq adrift'  BY AdriftGrows
<1>3. ASSUME InspectNetwork(c)  PROVE EachMended'
  <2>1. CASE Moves(c, "inspect network", "list networks", {})
    BY <1>1, <1>2, <2>1, MendKeptByMove DEF Moves, At, Turns, Mends, Runs, engine
  <2>2. CASE Moves(c, "inspect network", "inspect volume", {})
    BY <1>1, <1>2, <2>2, MendKeptByMove DEF Moves, At, Turns, Mends, Runs, engine
  <2>3. CASE Moves(c, "inspect network", "stop for network", Services \cap Exist)
    <3>1. cmd'[c].at = "stop for network" /\ Only(c) /\ UNCHANGED ctr  BY <2>3 DEF Moves, Turns, engine
    <3> QED  BY <1>1, <1>2, <3>1, MendKeptByMove DEF Mends
  <2> QED  BY <1>1, <1>3, <2>1, <2>2, <2>3, InspectNetworkDoes
<1>4. ASSUME StopForNetwork(c)  PROVE EachMended'
  <2>1. PICK n \in Exist : Treats(c, "stop for network", n, Stopped(ctr[n]))  BY <1>1, <1>4, StopForNetworkDoes
  <2>2. Mends(c, n)'  BY <2>1 DEF Treats, Turns, Mends
  <2>3. cmd'[c].dangled = cmd[c].dangled /\ UNCHANGED adrift
    BY <1>1, <1>4, DangledKept, FailsLeaves DEF StopForNetwork, ForEach, OnContainers, Quiet
  <2> QED  BY <1>1, <2>1, <2>2, <2>3, MendKeptByTreat
<1>5. ASSUME ListToDisconnect(c)  PROVE EachMended'
  <2>1. Only(c) /\ UNCHANGED ctr /\ cmd'[c].at = "disconnect"
    BY <1>5, ListToDisconnectDoes DEF Moves, Turns, engine
  <2>2. \A n \in Services : Off(n) => Mends(c, n)'
    BY <1>5, <2>1, ListedDangles DEF Mends, Off, Exist, Names
  <2> QED  BY <1>1, <1>2, <2>1, <2>2, MendKeptByMove
<1>6. ASSUME Disconnect(c)  PROVE EachMended'
  <2>1. PICK n \in Exist : Treats(c, "disconnect", n, Disconnected(ctr[n]))  BY <1>1, <1>6, DisconnectDoes
  <2>2. cmd'[c].dangled = cmd[c].dangled /\ UNCHANGED adrift
    BY <1>1, <1>6, DangledKept, FailsLeaves DEF Disconnect, ForEach, OnContainers, Quiet
  <2>3. Mends(c, n)'  BY <1>1, <2>1, <2>2 DEF Treats, At, Turns, Mends, HoldsOK
  <2> QED  BY <1>1, <2>1, <2>2, <2>3, MendKeptByTreat
<1>7. ASSUME DisconnectedAll(c)  PROVE EachMended'
  <2>1. Moves(c, "disconnect", "remove network", {}) /\ cmd'[c].dangled = cmd[c].dangled
    BY <1>1, <1>7, LoopsEnd, DangledKept
  <2> QED  BY <1>1, <1>2, <2>1, MendKeptByMove DEF Moves, At, Turns, Mends, engine
<1>8. ASSUME RemoveNetwork(c)  PROVE EachMended'
  <2>1. /\ Turns(c, "list networks", {}) /\ cmd[c].at = "remove network" /\ UNCHANGED ctr
        /\ cmd'[c].dangled = cmd[c].dangled
    BY <1>1, <1>8, RemoveNetworkDoes, DangledKept DEF At
  <2> QED  BY <1>1, <1>2, <2>1, MendKeptByMove DEF Turns, Mends
<1>9. ASSUME ListNetworks(c)  PROVE EachMended'
  <2>1. CASE network.id = None
    <3>1. Moves(c, "list networks", "create network", {}) /\ cmd'[c].dangled = cmd[c].dangled
      BY <1>1, <1>9, <2>1, ListNetworksDoes, DangledKept
    <3> QED  BY <1>1, <1>2, <3>1, MendKeptByMove DEF Moves, At, Turns, Mends, Runs, engine
  <2>2. CASE network.id # None
    <3>1. Moves(c, "list networks", "inspect volume", {}) /\ Forgets(c)
      BY <1>9, <2>2, ListNetworksDoes DEF ListNetworks
    <3>2. cmd[c].at = "list networks" /\ cmd'[c].at = "inspect volume" /\ Only(c) /\ UNCHANGED ctr
      BY <3>1 DEF Moves, At, Turns, engine
    <3>3. ASSUME NEW n \in Services, Off(n), n \notin adrift', Mends(c, n)  PROVE Mends(c, n)'
      <4>1. Runs(n) \/ n \in cmd[c].dangled  BY <3>2, <3>3 DEF Mends
      <4>2. Runs(n)  BY <1>1, <2>2, <3>1, <3>2, <3>3, <4>1, ForgottenIsAdrift
      <4> QED  BY <3>2, <4>2 DEF Mends, Runs
    <3> QED  BY <1>1, <1>2, <3>2, <3>3, MendKeptByMove
  <2> QED  BY <2>1, <2>2
<1>10. ASSUME CreateNetwork(c)  PROVE EachMended'
  <2>1. /\ Turns(c, "connect", cmd[c].dangled) /\ cmd[c].at = "create network" /\ UNCHANGED ctr
    BY <1>10, CreateNetworkDoes DEF At
  <2> QED  BY <1>1, <1>2, <2>1, MendKeptByMove DEF Turns, Mends, Runs
<1>11. ASSUME NetworkNameTaken(c)  PROVE EachMended'
  <2>1. Moves(c, "create network", "inspect network", cmd[c].todo) /\ network.id # None
    BY <1>1, <1>11, NetworkNameTakenDoes
  <2>2. Forgets(c)  BY <1>1, <1>11 DEF NetworkNameTaken
  <2>3. cmd[c].at = "create network" /\ cmd'[c].at = "inspect network" /\ Only(c) /\ UNCHANGED ctr
    BY <2>1 DEF Moves, At, Turns, engine
  <2>4. ASSUME NEW n \in Services, Off(n), n \notin adrift', Mends(c, n)  PROVE Mends(c, n)'
    <3>1. Runs(n) \/ n \in cmd[c].dangled  BY <2>3, <2>4 DEF Mends
    <3>2. Runs(n)  BY <1>1, <2>1, <2>2, <2>3, <2>4, <3>1, ForgottenIsAdrift
    <3> QED  BY <2>3, <3>2 DEF Mends, Runs
  <2> QED  BY <1>1, <1>2, <2>3, <2>4, MendKeptByMove
<1>12. ASSUME Connect(c)  PROVE EachMended'
  <2>1. PICK n \in Exist : Treats(c, "connect", n, Reconnected(ctr[n]))  BY <1>1, <1>12, ConnectDoes
  <2>2. cmd'[c].dangled = cmd[c].dangled /\ UNCHANGED adrift /\ network.id # None
    BY <1>1, <1>12, DangledKept, FailsLeaves DEF Connect, ForEach, OnContainers, Quiet, CanConnect
  <2>3. Reconnected(ctr[n]).endpoint = network.id
    <3>1. ctr[n] \in Containers  BY ContainersTyped DEF Typed, Exist
    <3> QED  BY <3>1 DEF Reconnected, Containers
  <2> QED  BY <1>1, <2>1, <2>2, <2>3, MendKeptByTreat
<1>13. ASSUME ConnectedAll(c)  PROVE EachMended'
  <2>1. Moves(c, "connect", "inspect volume", {}) /\ cmd[c].todo = {}
    BY <1>13, LoopsEnd DEF ConnectedAll, Then
  <2> QED  BY <1>1, <1>2, <2>1, MendKeptByMove DEF Moves, At, Turns, Mends, Runs, engine
<1> QED  BY <1>3, <1>4, <1>5, <1>6, <1>7, <1>8, <1>9, <1>10, <1>11, <1>12, <1>13 DEF EnsureNetwork

LEMMA MendVolumeKept ==
  ASSUME Typed, MendInv, NEW c \in Commands, Acts(c), EnsureVolume(c)
  PROVE  EachMended'
<1>1. ~Fails(c) /\ c \in Active /\ EachMended  BY ActsIsNoFailure DEF Acts, MendInv
<1>2. UNCHANGED adrift /\ adrift \subseteq adrift'  BY VolumeLeaves
<1>3. ASSUME InspectVolume(c)  PROVE EachMended'
  <2>1. PICK call \in {"create volume", "stop for volume", "list"}, todo \in {{}, Services \cap Exist} :
          Moves(c, "inspect volume", call, todo)
    BY <1>3, InspectVolumeDoes
  <2>2. cmd[c].at = "inspect volume" /\ cmd'[c].at = call /\ Only(c) /\ UNCHANGED ctr
    BY <2>1 DEF Moves, At, Turns, engine
  <2> QED  BY <1>1, <1>2, <2>2, MendKeptByMove DEF Mends, Runs
<1>4. ASSUME StopForVolume(c)  PROVE EachMended'
  <2>1. PICK n \in Exist : Treats(c, "stop for volume", n, Stopped(ctr[n]))  BY <1>1, <1>4, StopForVolumeDoes
  <2>2. Mends(c, n)'  BY <2>1 DEF Treats, Turns, Mends
  <2>3. cmd'[c].dangled = cmd[c].dangled  BY <1>1, <1>4, DangledKept
  <2> QED  BY <1>1, <1>2, <2>1, <2>2, <2>3, MendKeptByTreat
<1>5. ASSUME StoppedForVolume(c)  PROVE EachMended'
  <2>1. Moves(c, "stop for volume", "remove for volume", Services \cap Exist)  BY <1>5, LoopsEnd
  <2>2. /\ cmd'[c].at = "remove for volume" /\ cmd'[c].todo = Services \cap Exist /\ Only(c) /\ UNCHANGED ctr
    BY <2>1 DEF Moves, Turns, engine
  <2>3. \A n \in Services : Off(n) => Mends(c, n)'  BY <2>2 DEF Mends, Off, Exist, Names
  <2> QED  BY <1>1, <1>2, <2>2, <2>3, MendKeptByMove
<1>6. ASSUME RemoveForVolume(c)  PROVE EachMended'
  <2>1. PICK n \in Exist : Treats(c, "remove for volume", n, NoContainer)  BY <1>1, <1>6, RemoveForVolumeDoes
  <2>2. cmd'[c].dangled = cmd[c].dangled  BY <1>1, <1>6, DangledKept
  <2>3. NoContainer.state = "none"  BY DEF NoContainer
  <2> QED  BY <1>1, <1>2, <2>1, <2>2, <2>3, MendKeptByTreat
<1>7. ASSUME RemovedForVolume(c)  PROVE EachMended'
  <2>1. Moves(c, "remove for volume", "remove volume", {}) /\ cmd[c].todo = {}
    BY <1>7, LoopsEnd DEF RemovedForVolume, Then
  <2>2. \A n \in Services : ~Mends(c, n)  BY <2>1 DEF Moves, At, Mends
  <2> QED  BY <1>1, <1>2, <2>1, <2>2, MendKeptByMove DEF Moves, Turns, engine
<1>8. ASSUME RemoveVolume(c)  PROVE EachMended'
  <2>1. Turns(c, "create volume", {}) /\ cmd[c].at = "remove volume" /\ UNCHANGED ctr
    BY <1>1, <1>8, RemoveVolumeDoes DEF At
  <2>2. \A n \in Services : ~Mends(c, n)  BY <2>1 DEF Mends
  <2> QED  BY <1>1, <1>2, <2>1, <2>2, MendKeptByMove DEF Turns
<1>9. ASSUME CreateVolume(c)  PROVE EachMended'
  <2>1. Turns(c, "list", {}) /\ cmd[c].at = "create volume" /\ UNCHANGED ctr  BY <1>9, CreateVolumeDoes DEF At
  <2> QED  BY <1>1, <1>2, <2>1, MendKeptByMove DEF Turns, Mends, Runs
<1> QED  BY <1>3, <1>4, <1>5, <1>6, <1>7, <1>8, <1>9 DEF EnsureVolume

LEMMA MendConvergeKept ==
  ASSUME Typed, Asked, MendInv, NEW c \in Commands, Acts(c), Converge(c)
  PROVE  EachMended'
<1>1. ~Fails(c) /\ c \in Active /\ EachMended /\ HoldsOK(c)  BY ActsIsNoFailure DEF Acts, MendInv
<1>2. UNCHANGED adrift /\ adrift \subseteq adrift'  BY ConvergeLeaves
<1>3. ASSUME List(c)  PROVE EachMended'
  <2>1. PICK todo : Moves(c, "list", "remove orphans", todo)  BY <1>3, ListDoes
  <2>2. cmd'[c].diverged = MustRecreate(cmd[c].networkID)  BY <1>3, ListDoes
  <2>3. At(c, "up", "list") /\ cmd'[c].at = "remove orphans" /\ Only(c) /\ UNCHANGED ctr
    BY <2>1 DEF Moves, Turns, engine
  <2>4. cmd[c].networkID # None  BY <1>1, <2>3, CallsOfUp DEF HoldsOK, At
  <2>5. ASSUME NEW n \in Services, Off(n), Mends(c, n)  PROVE Mends(c, n)'
    <3>1. Runs(n)  BY <2>3, <2>5 DEF Mends, At
    <3>2. n \in cmd'[c].diverged  BY <2>2, <2>4, <2>5, <3>1 DEF MustRecreate, Runs, Running, Off, Names
    <3> QED  BY <2>3, <3>2 DEF Mends
  <2> QED  BY <1>1, <1>2, <2>3, <2>5, MendKeptByMove
<1>4. ASSUME RemoveOrphan(c)  PROVE EachMended'
  <2>1. PICK n \in cmd[c].todo : Treats(c, "remove orphans", n, NoContainer)  BY <1>1, <1>4, RemoveOrphanDoes
  <2>2. cmd'[c].dangled = cmd[c].dangled  BY <1>1, <1>4, DangledKept
  <2>3. NoContainer.state = "none"  BY DEF NoContainer
  <2> QED  BY <1>1, <1>2, <2>1, <2>2, <2>3, MendKeptByTreat
<1>5. ASSUME RemovedOrphans(c)  PROVE EachMended'
  <2>1. Moves(c, "remove orphans", "converge", Services) /\ Remembers(c)  BY <1>5, LoopsEnd
  <2> QED  BY <1>1, <1>2, <2>1, MendKeptByMove DEF Moves, At, Turns, Remembers, Mends, engine
<1>6. ASSUME CreateContainer(c) \/ RecreateContainer(c)  PROVE EachMended'
  <2>1. PICK n \in cmd[c].todo : Converges(c, n)  BY <1>1, <1>6, CreateContainerDoes
  <2>2. /\ cmd[c].at = "converge" /\ cmd'[c].at = "converge" /\ cmd'[c].todo = cmd[c].todo \ {n} /\ Only(c)
        /\ cmd'[c].diverged = cmd[c].diverged
        /\ \A m \in Names : ctr'[m] = IF m = n THEN NewContainer ELSE ctr[m]
    BY <2>1 DEF Converges, At, Turns, Remembers
  <2>3. ASSUME NEW m \in Services, Off(m)'
        PROVE  Mends(c, m)' \/ (Off(m) /\ ~Mends(c, m) /\ (Runs(m) => Runs(m)'))
    <3>1. m # n  BY <2>2, <2>3 DEF Off, NewContainer, ByName, None, Names
    <3>2. ctr'[m] = ctr[m]  BY <2>2, <3>1 DEF Names
    <3> QED  BY <1>2, <2>2, <2>3, <3>1, <3>2 DEF Off, Runs, Mends
  <2> QED  BY <1>1, <2>2, <2>3, MendKept
<1>7. ASSUME KeepContainer(c)  PROVE EachMended'
  <2>1. PICK n \in cmd[c].todo : n \notin cmd[c].diverged /\ Moves(c, "converge", "converge", cmd[c].todo \ {n})
    BY <1>7, KeepContainerDoes
  <2>2. Remembers(c)  BY <1>7, KeepContainerDoes
  <2> QED  BY <1>1, <1>2, <2>1, <2>2, MendKeptByMove DEF Moves, At, Turns, Remembers, Mends, engine
<1>8. ASSUME Converged(c)  PROVE EachMended'
  <2>1. Moves(c, "converge", "list to start", {}) /\ cmd[c].todo = {}  BY <1>8, LoopsEnd
  <2>2. \A n \in Services : ~Mends(c, n)  BY <2>1 DEF Moves, At, Mends
  <2> QED  BY <1>1, <1>2, <2>1, <2>2, MendKeptByMove DEF Moves, Turns, engine
<1>9. ASSUME ListToStart(c)  PROVE EachMended'
  <2>1. Moves(c, "list to start", "start", Services \ Running)  BY <1>1, <1>9, ListToStartDoes
  <2>2. \A n \in Services : ~Mends(c, n)  BY <2>1 DEF Moves, At, Mends
  <2>3. Only(c) /\ UNCHANGED ctr  BY <2>1 DEF Moves, Turns, engine
  <2> QED  BY <1>1, <1>2, <2>2, <2>3, MendKeptByMove
<1>10. ASSUME StartContainer(c)  PROVE EachMended'
  <2>1. PICK n \in Exist : CanStart(n) /\ Treats(c, "start", n, Started(ctr[n]))  BY <1>1, <1>10, StartContainerDoes
  <2> DEFINE k == Started(ctr[n])
  <2>2. k.state = "running" /\ (k.endpoint = None => ctr[n].endpoint = None)
    <3>1. ctr[n] \in Containers  BY ContainersTyped DEF Typed, Exist
    <3> QED  BY <2>1, <3>1 DEF Started, Containers, CanStart
  <2>3. ~Mends(c, n)  BY <2>1 DEF Treats, At, Mends
  <2>4. cmd'[c].dangled = cmd[c].dangled  BY <1>1, <1>10, DangledKept
  <2>5. Treats(c, "start", n, k) /\ n \in Exist  BY <2>1
  <2> HIDE DEF k
  <2>6. CASE Off(n) \/ k.endpoint # None  BY <1>1, <1>2, <2>2, <2>3, <2>4, <2>5, <2>6, MendKeptByTreat
  <2>7. CASE ~Off(n) /\ k.endpoint = None
    <3>1. n \in adrift  BY <2>2, <2>5, <2>7 DEF Off, Exist
    <3>2. ASSUME NEW m \in Services, Off(m)'
          PROVE  Off(m) /\ ~Mends(c, m) /\ (Runs(m) => Runs(m)')
      <4>1. m # n /\ ctr'[m] = ctr[m]  BY <1>2, <2>5, <3>1, <3>2 DEF Treats, Off, Names
      <4> QED  BY <1>2, <2>5, <3>2, <4>1 DEF Off, Runs, Mends, Treats, At
    <3>3. Only(c)  BY <2>5 DEF Treats, Turns
    <3> QED  BY <1>1, <3>2, <3>3, MendKept
  <2> QED  BY <2>6, <2>7
<1>11. ASSUME UpReturns(c)  PROVE FALSE
  <2>1. cmd'[c].at \in Ended  BY <1>11, UpReturnsReturns DEF Returns, Ends
  <2> QED  BY <2>1 DEF Acts
<1> QED  BY <1>3, <1>4, <1>5, <1>6, <1>7, <1>8, <1>9, <1>10, <1>11 DEF Converge

LEMMA HoldsMoves ==
  ASSUME NEW c \in Commands, HoldsOK(c), NEW from, NEW call, At(c, "up", from), cmd'[c].at = call,
         call # "disconnect", cmd'[c].networkID = cmd[c].networkID, call \in WithNetwork => from \in WithNetwork
  PROVE  HoldsOK(c)'
BY DEF HoldsOK, At

LEMMA HoldsNetwork ==
  ASSUME Typed, NEW c \in Commands, HoldsOK(c), Acts(c), EnsureNetwork(c)
  PROVE  HoldsOK(c)'
<1>1. ~Fails(c)  BY ActsIsNoFailure
<1> USE CallsOfUp
<1>2. ASSUME InspectNetwork(c)  PROVE HoldsOK(c)'
  <2>1. CASE Moves(c, "inspect network", "list networks", {}) /\ Remembers(c)
    BY <2>1, HoldsMoves DEF Moves, Turns, Remembers
  <2>2. CASE /\ network.id # None /\ Moves(c, "inspect network", "inspect volume", {})
             /\ cmd'[c].networkID = network.id
    BY <2>2 DEF Moves, Turns, HoldsOK
  <2>3. CASE Moves(c, "inspect network", "stop for network", Services \cap Exist) /\ Remembers(c)
    <3>1. At(c, "up", "inspect network") /\ cmd'[c].at = "stop for network" /\ cmd'[c].networkID = cmd[c].networkID
      BY <2>3 DEF Moves, Turns, Remembers
    <3> QED  BY <3>1, HoldsMoves
  <2> QED  BY <1>1, <1>2, <2>1, <2>2, <2>3, InspectNetworkDoes
<1>3. ASSUME StopForNetwork(c)  PROVE HoldsOK(c)'
  <2>1. PICK n \in Exist : Treats(c, "stop for network", n, Stopped(ctr[n]))  BY <1>1, <1>3, StopForNetworkDoes
  <2>2. /\ At(c, "up", "stop for network") /\ cmd'[c].at = "stop for network"
        /\ cmd'[c].networkID = cmd[c].networkID
    BY <2>1 DEF Treats, Turns, Remembers
  <2> QED  BY <2>2, HoldsMoves
<1>4. ASSUME ListToDisconnect(c)  PROVE HoldsOK(c)'
  <2>1. cmd'[c].at = "disconnect"  BY <1>4, ListToDisconnectDoes DEF Moves, Turns
  <2> QED  BY <1>4, <2>1, ListedDangles DEF HoldsOK
<1>5. ASSUME Disconnect(c)  PROVE HoldsOK(c)'
  <2>1. PICK n \in Exist : Treats(c, "disconnect", n, Disconnected(ctr[n]))  BY <1>1, <1>5, DisconnectDoes
  <2>2. cmd'[c].dangled = cmd[c].dangled  BY <1>1, <1>5, DangledKept
  <2>3. cmd[c].at = "disconnect" /\ cmd'[c].at = "disconnect" /\ cmd'[c].todo = cmd[c].todo \ {n}
    BY <2>1 DEF Treats, Turns, At
  <2> QED  BY <2>2, <2>3 DEF HoldsOK
<1>6. ASSUME DisconnectedAll(c)  PROVE HoldsOK(c)'
  <2>1. Moves(c, "disconnect", "remove network", {}) /\ Remembers(c)  BY <1>6, LoopsEnd
  <2> QED  BY <2>1, HoldsMoves DEF Moves, Turns, Remembers
<1>7. ASSUME RemoveNetwork(c)  PROVE HoldsOK(c)'
  <2>1. Turns(c, "list networks", {}) /\ Remembers(c) /\ At(c, "up", "remove network")
    BY <1>1, <1>7, RemoveNetworkDoes
  <2> QED  BY <2>1, HoldsMoves DEF Turns, Remembers
<1>8. ASSUME ListNetworks(c)  PROVE HoldsOK(c)'
  <2>1. CASE Moves(c, "list networks", "create network", {}) /\ Remembers(c)
    BY <2>1, HoldsMoves DEF Moves, Turns, Remembers
  <2>2. CASE /\ network.id # None /\ Moves(c, "list networks", "inspect volume", {})
             /\ cmd'[c].networkID = network.id
    BY <2>2 DEF Moves, Turns, HoldsOK
  <2> QED  BY <1>8, <2>1, <2>2, ListNetworksDoes
<1>9. ASSUME CreateNetwork(c)  PROVE HoldsOK(c)'
  <2>1. cmd'[c].at = "connect" /\ cmd'[c].networkID = nextID /\ nextID # None
    BY <1>9, CreateNetworkDoes DEF Turns
  <2> QED  BY <2>1 DEF HoldsOK
<1>10. ASSUME NetworkNameTaken(c)  PROVE HoldsOK(c)'
  <2>1. cmd'[c].at = "inspect network"  BY <1>1, <1>10, NetworkNameTakenDoes DEF Moves, Turns
  <2> QED  BY <2>1 DEF HoldsOK
<1>11. ASSUME Connect(c)  PROVE HoldsOK(c)'
  <2>1. PICK n \in Exist : Treats(c, "connect", n, Reconnected(ctr[n]))  BY <1>1, <1>11, ConnectDoes
  <2>2. At(c, "up", "connect") /\ cmd'[c].at = "connect" /\ cmd'[c].networkID = cmd[c].networkID
    BY <2>1 DEF Treats, Turns, Remembers
  <2> QED  BY <2>2, HoldsMoves
<1>12. ASSUME ConnectedAll(c)  PROVE HoldsOK(c)'
  <2>1. Moves(c, "connect", "inspect volume", {}) /\ Remembers(c)  BY <1>12, LoopsEnd
  <2> QED  BY <2>1, HoldsMoves DEF Moves, Turns, Remembers
<1> QED  BY <1>2, <1>3, <1>4, <1>5, <1>6, <1>7, <1>8, <1>9, <1>10, <1>11, <1>12 DEF EnsureNetwork

LEMMA HoldsVolume ==
  ASSUME Typed, NEW c \in Commands, HoldsOK(c), Acts(c), EnsureVolume(c)
  PROVE  HoldsOK(c)'
<1>1. ~Fails(c)  BY ActsIsNoFailure
<1>2. \E from, call \in WithNetwork :
        At(c, "up", from) /\ cmd'[c].at = call /\ cmd'[c].networkID = cmd[c].networkID
  <2> USE CallsOfUp DEF Moves, Treats, Turns, Remembers
  <2>1. CASE InspectVolume(c)
    <3>1. Remembers(c)  BY <2>1, InspectVolumeDoes
    <3>2. CASE Moves(c, "inspect volume", "create volume", {})  BY <3>1, <3>2
    <3>3. CASE Moves(c, "inspect volume", "stop for volume", Services \cap Exist)  BY <3>1, <3>3
    <3>4. CASE Moves(c, "inspect volume", "list", {})  BY <3>1, <3>4
    <3> QED  BY <2>1, <3>2, <3>3, <3>4, InspectVolumeDoes
  <2>2. CASE StopForVolume(c)
    <3>1. PICK n \in Exist : Treats(c, "stop for volume", n, Stopped(ctr[n]))  BY <1>1, <2>2, StopForVolumeDoes
    <3> QED  BY <3>1
  <2>3. CASE StoppedForVolume(c)
    <3>1. Moves(c, "stop for volume", "remove for volume", Services \cap Exist) /\ Remembers(c)
      BY <2>3, LoopsEnd
    <3> QED  BY <3>1
  <2>4. CASE RemoveForVolume(c)  BY <1>1, <2>4, RemoveForVolumeDoes
  <2>5. CASE RemovedForVolume(c)
    <3>1. Moves(c, "remove for volume", "remove volume", {}) /\ Remembers(c)  BY <2>5, LoopsEnd
    <3> QED  BY <3>1
  <2>6. CASE RemoveVolume(c)  BY <1>1, <2>6, RemoveVolumeDoes
  <2>7. CASE CreateVolume(c)  BY <2>7, CreateVolumeDoes
  <2> QED  BY <2>1, <2>2, <2>3, <2>4, <2>5, <2>6, <2>7 DEF EnsureVolume
<1>3. "disconnect" \notin WithNetwork  BY CallsOfUp
<1> QED  BY <1>2, <1>3, HoldsMoves

LEMMA HoldsConverge ==
  ASSUME Typed, NEW c \in Commands, Acts(c), Converge(c)
  PROVE  HoldsOK(c)'
<1>1. ~Fails(c)  BY ActsIsNoFailure
<1>2. cmd'[c].at \in {"remove orphans", "converge", "list to start", "start"}
  <2> USE DEF Moves, Treats, Turns
  <2>1. CASE List(c)  BY <2>1, ListDoes
  <2>2. CASE RemoveOrphan(c)  BY <1>1, <2>2, RemoveOrphanDoes
  <2>3. CASE RemovedOrphans(c)  BY <2>3, LoopsEnd
  <2>4. CASE CreateContainer(c) \/ RecreateContainer(c)  BY <1>1, <2>4, CreateContainerDoes DEF Converges
  <2>5. CASE KeepContainer(c)  BY <2>5, KeepContainerDoes
  <2>6. CASE Converged(c)  BY <2>6, LoopsEnd
  <2>7. CASE ListToStart(c)
    <3>1. Moves(c, "list to start", "start", Services \ Running)  BY <1>1, <2>7, ListToStartDoes
    <3> QED  BY <3>1
  <2>8. CASE StartContainer(c)
    <3>1. PICK n \in Exist : Treats(c, "start", n, Started(ctr[n]))  BY <1>1, <2>8, StartContainerDoes
    <3> QED  BY <3>1
  <2>9. CASE UpReturns(c)
    <3>1. cmd'[c].at \in Ended  BY <2>9, UpReturnsReturns DEF Returns, Ends
    <3> QED  BY <3>1 DEF Acts
  <2> QED  BY <2>1, <2>2, <2>3, <2>4, <2>5, <2>6, <2>7, <2>8, <2>9 DEF Converge
<1> QED  BY <1>2, CallsOfUp DEF HoldsOK

LEMMA AloneFindsKept ==
  ASSUME Typed, Asked, MendInv, NEW c \in Commands, UpCall(c)
  PROVE  AloneFinds'
<1>1. UpStep(c) /\ Acts(c) /\ Only(c)  BY UpSteps DEF UpCall, UpStep
<1>2. Active' = Active /\ c \in Active /\ UNCHANGED period  BY <1>1, ActiveStays DEF Acts
<1> SUFFICES ASSUME period.first \in Commands, NEW d \in Active,
                    cmd'[d].at \in {"list networks", "create network"}
             PROVE  network'.id = None
  BY <1>2 DEF AloneFinds
<1>3. d = c  BY <1>2 DEF Asked, FirstAlone
<1>4. CASE cmd'[c].at = "create network"  BY <1>1, <1>4 DEF UpStep
<1>5. CASE cmd'[c].at = "list networks"
  <2>1. network.id = None \/ network' = NoNetwork  BY <1>1, <1>5 DEF UpStep
  <2>2. UNCHANGED network \/ network' = NoNetwork  BY <1>1, <1>5 DEF UpStep
  <2> QED  BY <2>1, <2>2, ResourcesTyped
<1> QED  BY <1>3, <1>4, <1>5

\* The other commands, and those that go on.
LEMMA HoldsElsewhere ==
  ASSUME MendInv, NEW c \in Commands, Only(c), NEW d \in Active, d # c
  PROVE  HoldsOK(d)'
<1>1. cmd'[d] = cmd[d]  BY DEF Only, Active
<1> QED  BY <1>1 DEF MendInv, HoldsOK

LEMMA MendUps ==
  ASSUME Typed, Asked, MendInv, NEW c \in Commands, UpCall(c)
  PROVE  EachMended' /\ AloneFinds' /\ \A d \in Active' : HoldsOK(d)'
<1>1. Acts(c) /\ Only(c)  BY UpSteps DEF UpCall, UpStep
<1>2. Active' = Active /\ c \in Active /\ HoldsOK(c)  BY <1>1, ActiveStays DEF MendInv
<1>3. EachMended'  BY MendNetworkKept, MendVolumeKept, MendConvergeKept DEF UpCall
<1>4. HoldsOK(c)'  BY <1>2, HoldsNetwork, HoldsVolume, HoldsConverge DEF UpCall
<1> QED  BY <1>1, <1>2, <1>3, <1>4, HoldsElsewhere, AloneFindsKept

LEMMA MendDowns ==
  ASSUME Typed, Asked, MendInv, NEW c \in Commands, DownCall(c)
  PROVE  EachMended' /\ AloneFinds' /\ \A d \in Active' : HoldsOK(d)'
<1>1. Acts(c) /\ Only(c) /\ Typed' /\ cmd'[c].want = cmd[c].want /\ cmd[c].want.kind = "down"
  BY DownSteps DEF DownCall
<1>2. Active' = Active /\ c \in Active /\ UNCHANGED period  BY <1>1, ActiveStays DEF Acts
<1>3. cmd'[c].at \in DownCalls
  <2>1. PlaceOK(c)'  BY <1>1 DEF Typed
  <2> QED  BY <1>1, <2>1 DEF PlaceOK, Acts
<1>4. ~Ups'
  <2>1. ~Ups  BY <1>1, <1>2, UpsWant
  <2> QED  BY <1>2, <2>1 DEF Ups
<1>5. HoldsOK(c)'  BY <1>1, <1>3 DEF HoldsOK, DownCalls
<1>6. AloneFinds'
  <2> SUFFICES ASSUME period.first \in Commands, NEW d \in Active,
                      cmd'[d].at \in {"list networks", "create network"}
               PROVE  FALSE
    BY <1>2 DEF AloneFinds
  <2>1. d = c  BY <1>2 DEF Asked, FirstAlone
  <2> QED  BY <1>3, <2>1 DEF DownCalls
<1> QED  BY <1>1, <1>2, <1>4, <1>5, <1>6, HoldsElsewhere DEF EachMended

LEMMA MendBegins ==
  ASSUME Typed, MendInv, NEW c \in Commands, NEW want \in Wants, Begins(c, want)
  PROVE  EachMended' /\ AloneFinds' /\ \A d \in Active' : HoldsOK(d)'
<1>1. Active' = Active \cup {c} /\ c \notin Active  BY ActiveGrows
<1>2. /\ Only(c) /\ cmd'[c].want = want /\ UNCHANGED <<network, ctr>>
      /\ cmd'[c].at = IF want.kind = "up" THEN "inspect network" ELSE "list"
  BY DEF Begins, engine
<1>3. \A d \in Active : cmd'[d] = cmd[d] /\ d # c  BY <1>1, <1>2 DEF Only, Active
<1>4. HoldsOK(c)'  BY <1>2, CallsOfUp DEF HoldsOK
<1>5. \A d \in Active' : HoldsOK(d)'  BY <1>1, <1>2, <1>3, <1>4, HoldsElsewhere
<1>6. CASE Active = {} /\ period'.want = want /\ adrift' = OffNetwork
  <2>1. Active' = {c}  BY <1>1, <1>6
  <2>2. ASSUME Ups', NEW n \in Services, Off(n)'  PROVE Mends(c, n)'
    <3>1. Runs(n)'  BY <1>2, <1>6, <2>2 DEF Off, Runs, OffNetwork, Exist, Running, Names
    <3> QED  BY <1>2, <1>6, <2>2, <3>1 DEF Mends, Ups
  <2> QED  BY <1>2, <1>5, <2>1, <2>2 DEF EachMended, AloneFinds
<1>7. CASE /\ Active # {} /\ adrift' = adrift
           /\ period'.same => period.same /\ period.want = want
           /\ period'.want = period.want /\ period'.ok = period.ok /\ period'.first = "several"
  <2>1. (Ups' => Ups) /\ period'.first \notin Commands  BY <1>7, CommandsAssumption DEF Ups
  <2>2. ASSUME Ups', period'.ok, NEW n \in Services, Off(n)'  PROVE \E d \in Active' : Mends(d, n)'
    <3>1. Ups /\ period.ok /\ Off(n)  BY <1>2, <1>7, <2>1, <2>2 DEF Off
    <3>2. PICK d \in Active : Mends(d, n)  BY <3>1 DEF MendInv, EachMended
    <3>3. Mends(d, n)'  BY <1>2, <1>3, <3>2 DEF Mends, Runs
    <3> QED  BY <1>1, <3>2, <3>3
  <2> QED  BY <1>5, <2>1, <2>2 DEF EachMended, AloneFinds
<1> QED  BY <1>5, <1>6, <1>7 DEF Begins

LEMMA MendEnds ==
  ASSUME Typed, MendInv, NEW c \in Commands, Breaks(c) \/ Returns(c)
  PROVE  EachMended' /\ AloneFinds' /\ \A d \in Active' : HoldsOK(d)'
<1>1. Ends(c)  BY DEF Breaks, Returns
<1>2. Active' = Active \ {c} /\ c \in Active  BY <1>1, ActiveShrinks
<1>3. Only(c) /\ UNCHANGED <<network, ctr>> /\ period'.first = period.first
      /\ period'.want = period.want /\ period'.same = period.same
  BY <1>1 DEF Ends, engine
<1>4. \A d \in Active' : d \in Active /\ d # c /\ cmd'[d] = cmd[d]  BY <1>2, <1>3 DEF Only, Active
<1>5. AloneFinds'  BY <1>3, <1>4 DEF MendInv, AloneFinds
<1>6. \A d \in Active' : HoldsOK(d)'  BY <1>3, <1>4, HoldsElsewhere
<1>7. CASE Breaks(c)  BY <1>5, <1>6, <1>7 DEF Breaks, EachMended
<1>8. CASE Returns(c)
  <2>1. UNCHANGED <<period, adrift>> /\ cmd[c].at \in {"start", "resources"}  BY <1>8 DEF Returns, At
  <2>2. ASSUME Ups, period.ok, NEW n \in Services, Off(n)'  PROVE \E d \in Active' : Mends(d, n)'
    <3>1. Off(n)  BY <1>3, <2>1, <2>2 DEF Off
    <3>2. PICK d \in Active : Mends(d, n)  BY <2>2, <3>1 DEF MendInv, EachMended
    <3>3. d # c  BY <2>1, <3>2 DEF Mends
    <3>4. Mends(d, n)'  BY <1>2, <1>3, <1>4, <3>2, <3>3 DEF Mends, Runs
    <3> QED  BY <1>2, <3>2, <3>3, <3>4
  <2>3. EachMended'  BY <2>1, <2>2 DEF EachMended, Ups
  <2> QED  BY <1>5, <1>6, <2>3
<1> QED  BY <1>7, <1>8

LEMMA VarsKeepMend ==
  ASSUME MendInv, UNCHANGED vars
  PROVE  MendInv'
<1>1. UNCHANGED <<network, ctr, cmd, period, adrift>>  BY DEF vars, engine
<1> QED  BY <1>1 DEF MendInv, EachMended, AloneFinds, HoldsOK, Ups, Off, Runs, Mends, Active

LEMMA MendStepKept ==
  ASSUME Typed, Asked, MendInv, [Next]_vars
  PROVE  MendInv'
<1>1. CASE UNCHANGED vars  BY <1>1, VarsKeepMend
<1>2. CASE Next
  <2>1. PICK c \in Commands :
          (\E want \in Wants : Begins(c, want)) \/ Breaks(c) \/ Returns(c) \/ UpCall(c) \/ DownCall(c)
    BY <1>2, StepKinds
  <2>2. EachMended' /\ AloneFinds' /\ \A d \in Active' : HoldsOK(d)'
    BY <2>1, MendBegins, MendEnds, MendUps, MendDowns
  <2>3. adrift' \subseteq Names  BY AdriftTyped DEF MendInv
  <2> QED  BY <2>2, <2>3 DEF MendInv
<1> QED  BY <1>1, <1>2

LEMMA MendInitially == Init => MendInv
<1> SUFFICES ASSUME Init  PROVE MendInv
  OBVIOUS
<1>1. Active = {} /\ ~Ups  BY NobodyInitially DEF Ups
<1>2. adrift = {}  BY DEF Init
<1> QED  BY <1>1, <1>2 DEF MendInv, EachMended, AloneFinds

LEMMA MendAlways == Spec => []MendInv
BY TypedAlways, MendInitially, MendStepKept, PTL DEF Spec

LEMMA TypesAreOK ==
  ASSUME Typed, MendInv
  PROVE  TypeOK
<1>1. \A c \in Commands : cmd[c].at \in Calls  BY CommandFields DEF Typed
<1> QED  BY <1>1 DEF Typed, EngineOK, BooksOK, TypeOK, Calls, Containers, States, Endpoints, MendInv

LEMMA UpIsUp ==
  ASSUME Typed, UpInv, MendInv
  PROVE  UpMeansUp
<1> SUFFICES ASSUME Ups, period.ok, Active = {}  PROVE IsUp(period.want)
  BY DEF UpMeansUp, Done, Ups
<1>1. ~NetworkBad /\ ~VolumeBad /\ \A n \in Services : ~Wrong(n)  BY DEF UpInv, SomebodyWorks
<1>2. \A n \in Services : ctr[n].state = "running" /\ n \in Running
  BY DEF UpInv, SomebodyStarts, Running, Names
<1>3. network.hash \in {period.want.network, "none"}  BY <1>1 DEF NetworkBad, Typed, EngineOK
<1>4. period.want.confirms => volume.hash \in {period.want.volume, "none"}
  BY <1>1 DEF VolumeBad, Typed, EngineOK
<1>5. ASSUME NEW n \in Services  PROVE n \in Attached \cup {m \in adrift : ctr[m].endpoint = None}
  <2>1. CASE ctr[n].endpoint = None
    <3>1. ~Off(n)  BY DEF MendInv, EachMended
    <3> QED  BY <1>2, <2>1, <3>1 DEF Off
  <2>2. CASE ctr[n].endpoint # None  BY <1>1, <1>2, <2>2 DEF Wrong, Attached
  <2> QED  BY <2>1, <2>2
<1> QED  BY <1>2, <1>3, <1>4, <1>5 DEF IsUp

(* However earlier commands ended, ups of the same options that nobody     *)
(* disturbs, however many, and that all return nil leave every service     *)
(* running on the network, and with consent on a volume, of the wanted     *)
(* configuration: create and start (create.go, start.go).  Only a service  *)
(* that is adrift may be on no network: an earlier command disconnected    *)
(* its container and ended before it connected it again, or one of several *)
(* did and found the name of the network taken by another.                 *)
THEOREM UpMeansUpHolds == Spec => [](TypeOK /\ UpMeansUp)
<1>1. Typed /\ UpInv /\ MendInv => TypeOK /\ UpMeansUp  BY TypesAreOK, UpIsUp
<1> QED  BY <1>1, TypedAlways, UpAlways, MendAlways, PTL

----------------------------------------------------------------------------
(* Equal downs.                                                            *)

LEMMA DownsWant ==
  ASSUME Asked, Downs, NEW c \in Active
  PROVE  cmd[c].want = period.want /\ cmd[c].want.kind = "down"
BY DEF Asked, SameWants, Downs

LEMMA DownKept ==
  ASSUME Typed, DownInv, NEW c \in Commands, Acts(c), Only(c),
         Downs => DownDone(c)',
         \A d \in Active : Downs /\ d # c /\ cmd'[d] = cmd[d] /\ DownDone(d) => DownDone(d)'
  PROVE  DownInv'
<1>1. Active' = Active /\ c \in Active  BY ActiveStays
<1>2. Downs' <=> Downs  BY DEF Acts, Downs
<1>3. \A d \in Active : d # c => cmd'[d] = cmd[d]  BY DEF Only, Active
<1>4. ASSUME Downs, NEW d \in Active  PROVE DownDone(d)'
  <2>1. CASE d = c  BY <1>4, <2>1
  <2>2. CASE d # c  BY <1>3, <1>4, <2>2 DEF DownInv
  <2> QED  BY <2>1, <2>2
<1>5. DownMeansDown'  BY <1>1 DEF DownMeansDown, Done
<1> QED  BY <1>1, <1>2, <1>4, <1>5 DEF DownInv

LEMMA DownElsewhere ==
  ASSUME NEW d, cmd'[d] = cmd[d], UNCHANGED <<network, volume, ctr>>, period'.want = period.want
  PROVE  DownDone(d)' <=> DownDone(d)
<1>1. Exist' = Exist /\ Running' = Running  BY DEF Exist, Running
<1> QED  BY <1>1 DEF DownDone, NetworkToRemove, VolumeToRemove, Scope

LEMMA ExistTyped ==
  ASSUME Typed
  PROVE  Running \subseteq Exist /\ Exist \subseteq Names
BY DEF Running, Exist

LEMMA DownCallsKept ==
  ASSUME Typed, Asked, DownInv, NEW c \in Commands, DownCall(c)
  PROVE  DownInv'
<1>1. /\ Acts(c) /\ Only(c) /\ c \in Active /\ ~Fails(c) /\ UNCHANGED period /\ PlaceOK(c)
      /\ cmd'[c].want = cmd[c].want
  BY DownSteps, ActsIsNoFailure DEF DownCall, Acts, Typed
<1>2. Downs => cmd[c].want = period.want /\ DownDone(c)  BY <1>1, DownsWant DEF DownInv
<1>3. ASSUME UNCHANGED engine, Downs => DownDone(c)'  PROVE DownInv'
  <2>1. UNCHANGED <<network, volume, ctr>> /\ period'.want = period.want  BY <1>1, <1>3 DEF engine
  <2>2. \A d \in Active : cmd'[d] = cmd[d] /\ DownDone(d) => DownDone(d)'  BY <2>1, DownElsewhere
  <2> QED  BY <1>1, <1>3, <2>2, DownKept
<1>4. ASSUME ListToRemove(c)  PROVE DownInv'
  <2>1. UNCHANGED engine /\ cmd'[c].at = "remove" /\ cmd'[c].todo = Scope(cmd[c].want) \cap Exist
    BY <1>4, ListToRemoveDoes DEF Turns
  <2>2. Exist' = Exist  BY <2>1 DEF Exist, engine
  <2>3. Downs => DownDone(c)'  BY <1>1, <1>2, <2>1, <2>2 DEF DownDone, Scope
  <2> QED  BY <1>3, <2>1, <2>3
<1>5. ASSUME RemoveContainer(c)  PROVE DownInv'
  <2>1. PICK n \in cmd[c].todo :
          /\ Turns(c, "remove", cmd[c].todo \ {n})
          /\ \A m \in Names : ctr'[m] = IF m = n THEN NoContainer ELSE ctr[m]
    BY <1>5, RemoveContainerDoes
  <2>2. UNCHANGED <<network, volume>> /\ cmd[c].at = "remove"  BY <1>5, RemoveContainerDoes DEF At
  <2>3. n \in Scope(cmd[c].want)  BY <1>1, <2>2 DEF PlaceOK
  <2>4. Exist' = Exist \ {n} /\ Running' = Running \ {n}
    BY <2>1 DEF Exist, Running, NoContainer
  <2>5. Downs => DownDone(c)'
    BY <1>1, <1>2, <2>1, <2>2, <2>4 DEF DownDone, Turns, Scope
  <2>6. ASSUME NEW d \in Active, Downs, cmd'[d] = cmd[d], DownDone(d)  PROVE DownDone(d)'
    <3>1. CASE cmd[d].at = "resources"
      <4>1. n \notin Exist  BY <1>2, <2>3, <2>6, <3>1 DEF DownDone
      <4>2. Exist' = Exist /\ Running' = Running  BY <2>4, <4>1 DEF Exist, Running
      <4> QED  BY <1>1, <2>2, <2>6, <4>2 DEF DownDone, NetworkToRemove, VolumeToRemove, Scope
    <3>2. CASE cmd[d].at # "resources"  BY <1>1, <2>4, <2>6, <3>2 DEF DownDone, Scope
    <3> QED  BY <3>1, <3>2
  <2> QED  BY <1>1, <2>5, <2>6, DownKept
<1>6. ASSUME RemovedContainers(c)  PROVE DownInv'
  <2>1. /\ UNCHANGED engine /\ cmd[c].at = "remove" /\ cmd[c].todo = {} /\ cmd'[c].at = "resources"
        /\ cmd'[c].todo = IF cmd[c].want.removeVolumes THEN {"inspect network", "volume"} ELSE {"inspect network"}
    BY <1>6, RemovedContainersDoes DEF Turns, At
  <2>2. Exist' = Exist  BY <2>1 DEF Exist, engine
  <2>3. Downs => Scope(period.want) \cap Exist = {}  BY <1>2, <2>1 DEF DownDone
  <2>4. NetworkToRemove(c)' /\ VolumeToRemove(c)'  BY <1>1, <2>1 DEF NetworkToRemove, VolumeToRemove
  <2>5. Downs => DownDone(c)'  BY <1>1, <2>1, <2>2, <2>3, <2>4 DEF DownDone, Scope
  <2> QED  BY <1>3, <2>1, <2>5
<1>7. ASSUME InspectToRemove(c)  PROVE DownInv'
  <2>1. /\ UNCHANGED engine /\ cmd[c].at = "resources" /\ cmd'[c].at = "resources" /\ cmd'[c].networkID = network.id
        /\ cmd'[c].todo =
             (cmd[c].todo \ {"inspect network"}) \cup
             (IF network.id = None \/ network.hash = "foreign" \/ Attached # {} THEN {} ELSE {"remove network"})
    BY <1>7, InspectToRemoveDoes DEF Turns, At
  <2>2. UNCHANGED <<network, volume, ctr>> /\ Exist' = Exist /\ Running' = Running
    BY <2>1 DEF Exist, Running, engine
  <2>3. NetworkToRemove(c)'
    <3>1. CASE network.id = None \/ network.hash = "foreign"  BY <2>2, <3>1 DEF NetworkToRemove
    <3>2. CASE Attached # {}
      <4>1. Running # {}  BY <3>2 DEF Attached
      <4> QED  BY <2>2, <4>1 DEF NetworkToRemove
    <3>3. CASE ~(network.id = None \/ network.hash = "foreign" \/ Attached # {})
      BY <2>1, <2>2, <3>3 DEF NetworkToRemove
    <3> QED  BY <3>1, <3>2, <3>3
  <2>4. Downs => VolumeToRemove(c)'
    <3>1. Downs => VolumeToRemove(c)  BY <1>2, <2>1 DEF DownDone
    <3>2. "volume" \in cmd[c].todo => "volume" \in cmd'[c].todo  BY <2>1
    <3> QED  BY <1>1, <2>2, <3>1, <3>2 DEF VolumeToRemove
  <2>5. Downs => DownDone(c)'  BY <1>1, <1>2, <2>1, <2>2, <2>3, <2>4 DEF DownDone, Scope
  <2> QED  BY <1>3, <2>1, <2>5
<1>8. ASSUME RemoveInspected(c)  PROVE DownInv'
  <2>1. /\ cmd[c].at = "resources" /\ cmd'[c].at = "resources" /\ "remove network" \in cmd[c].todo
        /\ cmd'[c].todo = cmd[c].todo \ {"remove network"}
    BY <1>1, <1>8, RemoveInspectedDoes DEF Turns, At
  <2>2. /\ UNCHANGED <<volume, ctr>>
        /\ \/ network.id # cmd[c].networkID /\ UNCHANGED engine
           \/ network' = NoNetwork
    BY <1>1, <1>8, RemoveInspectedDoes DEF engine
  <2>3. Exist' = Exist /\ Running' = Running  BY <2>2 DEF Exist, Running
  <2>4. Downs => VolumeToRemove(c)'
    <3>1. Downs => VolumeToRemove(c)  BY <1>2, <2>1 DEF DownDone
    <3>2. "volume" \in cmd[c].todo => "volume" \in cmd'[c].todo  BY <2>1
    <3> QED  BY <1>1, <2>2, <2>3, <3>1, <3>2 DEF VolumeToRemove
  <2>5. CASE network.id # cmd[c].networkID /\ UNCHANGED engine
    <3>1. "inspect network" \notin cmd[c].todo  BY <1>1, <2>1 DEF PlaceOK
    <3>2. Downs => NetworkToRemove(c)  BY <1>2, <2>1 DEF DownDone
    <3>3. Downs => network.id = None \/ network.hash = "foreign" \/ Running # {}
      BY <2>5, <3>1, <3>2 DEF NetworkToRemove
    <3>4. UNCHANGED network  BY <2>5 DEF engine
    <3>5. Downs => NetworkToRemove(c)'  BY <2>3, <3>3, <3>4 DEF NetworkToRemove
    <3>6. Downs => DownDone(c)'  BY <1>1, <1>2, <2>1, <2>3, <2>4, <3>5 DEF DownDone, Scope
    <3> QED  BY <1>3, <2>5, <3>6
  <2>6. CASE network' = NoNetwork
    <3>1. \A d \in Active : NetworkToRemove(d)'  BY <2>6, ResourcesTyped DEF NetworkToRemove
    <3>2. Downs => DownDone(c)'  BY <1>1, <1>2, <2>1, <2>3, <2>4, <3>1 DEF DownDone, Scope
    <3>3. ASSUME NEW d \in Active, Downs, cmd'[d] = cmd[d], DownDone(d)  PROVE DownDone(d)'
      BY <1>1, <2>2, <2>3, <3>1, <3>3 DEF DownDone, VolumeToRemove, Scope
    <3> QED  BY <1>1, <3>2, <3>3, DownKept
  <2> QED  BY <2>2, <2>5, <2>6
<1>9. ASSUME RemoveVolumeDown(c)  PROVE DownInv'
  <2>1. /\ cmd[c].at = "resources" /\ cmd'[c].at = "resources"
        /\ cmd'[c].todo = cmd[c].todo \ {"volume"} /\ cmd'[c].networkID = cmd[c].networkID
        /\ volume' = IF Exist = {} THEN NoVolume ELSE volume
        /\ UNCHANGED <<network, ctr>>
    BY <1>9, RemoveVolumeDownDoes DEF Turns, At, Remembers
  <2>2. Exist' = Exist /\ Running' = Running  BY <2>1 DEF Exist, Running
  <2>3. volume'.id = None \/ Exist # {}  BY <2>1, ResourcesTyped
  <2>4. VolumeToRemove(c)'  BY <2>2, <2>3 DEF VolumeToRemove
  <2>5. Downs => NetworkToRemove(c)'
    <3>1. Downs => NetworkToRemove(c)  BY <1>2, <2>1 DEF DownDone
    <3>2. /\ "inspect network" \in cmd[c].todo => "inspect network" \in cmd'[c].todo
          /\ "remove network" \in cmd[c].todo => "remove network" \in cmd'[c].todo
      BY <2>1
    <3> QED  BY <2>1, <2>2, <3>1, <3>2 DEF NetworkToRemove
  <2>6. Downs => DownDone(c)'  BY <1>1, <1>2, <2>1, <2>2, <2>4, <2>5 DEF DownDone, Scope
  <2>7. ASSUME NEW d \in Active, Downs, cmd'[d] = cmd[d], DownDone(d)  PROVE DownDone(d)'
    BY <1>1, <2>1, <2>2, <2>3, <2>7 DEF DownDone, NetworkToRemove, VolumeToRemove, Scope
  <2> QED  BY <1>1, <2>6, <2>7, DownKept
<1>10. ASSUME DownReturns(c)  PROVE FALSE
  <2>1. cmd'[c].at \in Ended  BY <1>10, UpReturnsReturns DEF Returns, Ends
  <2> QED  BY <1>1, <2>1 DEF Acts
<1> QED  BY <1>4, <1>5, <1>6, <1>7, <1>8, <1>9, <1>10 DEF DownCall, Down

LEMMA DownUpKept ==
  ASSUME Typed, Asked, DownInv, NEW c \in Commands, UpCall(c)
  PROVE  DownInv'
<1>1. Acts(c) /\ Only(c) /\ c \in Active /\ cmd[c].want.kind = "up"  BY UpSteps DEF UpCall, UpStep, Acts
<1>2. ~Downs  BY <1>1, DownsWant
<1> QED  BY <1>1, <1>2, DownKept

LEMMA DownReturnsKept ==
  ASSUME Typed, Asked, DownInv, NEW c \in Commands, Returns(c)
  PROVE  DownInv'
<1>1. Ends(c) /\ UNCHANGED period /\ cmd[c].todo = {} /\ c \in Active  BY DEF Returns, Ends
<1>2. UNCHANGED <<network, volume, ctr>> /\ Only(c)  BY <1>1 DEF Ends, engine
<1>3. Active' = Active \ {c}  BY <1>1, ActiveShrinks
<1>4. \A d \in Active' : d \in Active /\ cmd'[d] = cmd[d]  BY <1>2, <1>3 DEF Only, Active
<1>5. Downs' <=> Downs  BY <1>1 DEF Downs
<1>6. Downs' => \A d \in Active' : DownDone(d)'  BY <1>1, <1>2, <1>4, <1>5, DownElsewhere DEF DownInv
<1>7. DownMeansDown'
  <2> SUFFICES ASSUME Done', period.want.kind = "down"
               PROVE  /\ Services \cap Exist = {}
                      /\ period.want.removeOrphans => Exist = {}
                      /\ Running = {} => network.id = None \/ network.hash = "foreign"
                      /\ period.want.removeVolumes /\ Exist = {} => volume.id = None
    <3>1. Exist' = Exist /\ Running' = Running  BY <1>2 DEF Exist, Running
    <3> QED  BY <1>1, <1>2, <3>1 DEF DownMeansDown
  <2>1. Downs  BY <1>1 DEF Done, Downs
  <2>2. cmd[c].want = period.want /\ cmd[c].want.kind = "down"  BY <1>1, <2>1, DownsWant
  <2>3. cmd[c].at = "resources"  BY <2>2 DEF Returns, At
  <2>4. Scope(period.want) \cap Exist = {} /\ NetworkToRemove(c) /\ VolumeToRemove(c)
    BY <1>1, <2>1, <2>3 DEF DownInv, DownDone
  <2>5. Services \cap Exist = {}  BY <2>4 DEF Scope, Names
  <2>6. period.want.removeOrphans => Exist = {}  BY <2>4 DEF Scope, Exist
  <2> QED  BY <1>1, <2>2, <2>4, <2>5, <2>6 DEF NetworkToRemove, VolumeToRemove
<1> QED  BY <1>6, <1>7 DEF DownInv

LEMMA DownBreaksKept ==
  ASSUME NEW c \in Commands, Breaks(c)
  PROVE  DownInv'
BY DEF Breaks, DownInv, Downs, DownMeansDown, Done

LEMMA DownBegins ==
  ASSUME Typed, DownInv, NEW c \in Commands, NEW want \in Wants, Begins(c, want)
  PROVE  DownInv'
<1>1. Active' = Active \cup {c} /\ c \notin Active  BY ActiveGrows
<1>2. /\ Only(c) /\ UNCHANGED <<network, volume, ctr>>
      /\ cmd'[c].at \in {"inspect network", "list"}
  BY DEF Begins, engine
<1>3. \A d \in Active : cmd'[d] = cmd[d]  BY <1>1, <1>2 DEF Only, Active
<1>4. DownDone(c)'  BY <1>2 DEF DownDone
<1>5. DownMeansDown'  BY <1>1 DEF DownMeansDown, Done
<1>6. CASE Active = {}
  <2>1. Active' = {c}  BY <1>1, <1>6
  <2> QED  BY <1>4, <1>5, <2>1 DEF DownInv
<1>7. CASE /\ period'.same => period.same /\ period.want = want
           /\ period'.want = period.want /\ period'.ok = period.ok
  <2>1. Downs' => Downs  BY <1>7 DEF Downs
  <2>2. \A d \in Active : DownDone(d) => DownDone(d)'  BY <1>2, <1>3, <1>7, DownElsewhere
  <2> QED  BY <1>1, <1>4, <1>5, <2>1, <2>2 DEF DownInv
<1> QED  BY <1>6, <1>7 DEF Begins

LEMMA VarsKeepDown ==
  ASSUME DownInv, UNCHANGED vars
  PROVE  DownInv'
<1>1. UNCHANGED <<network, volume, ctr, cmd, period>>  BY DEF vars, engine
<1>2. \A d \in Commands : DownDone(d) => DownDone(d)'  BY <1>1, DownElsewhere
<1>3. Active' = Active /\ (Downs' <=> Downs) /\ (DownMeansDown' <=> DownMeansDown)
  BY <1>1 DEF Active, Downs, DownMeansDown, Done, Exist, Running
<1> QED  BY <1>2, <1>3 DEF DownInv, Active

LEMMA DownStepKept ==
  ASSUME Typed, Asked, DownInv, [Next]_vars
  PROVE  DownInv'
<1>1. CASE UNCHANGED vars  BY <1>1, VarsKeepDown
<1>2. CASE Next
  <2>1. PICK c \in Commands :
          (\E want \in Wants : Begins(c, want)) \/ Breaks(c) \/ Returns(c) \/ UpCall(c) \/ DownCall(c)
    BY <1>2, StepKinds
  <2>2. CASE \E want \in Wants : Begins(c, want)  BY <2>2, DownBegins
  <2>3. CASE Breaks(c)  BY <2>3, DownBreaksKept
  <2>4. CASE Returns(c)  BY <2>4, DownReturnsKept
  <2>5. CASE UpCall(c)  BY <2>5, DownUpKept
  <2>6. CASE DownCall(c)  BY <2>6, DownCallsKept
  <2> QED  BY <2>1, <2>2, <2>3, <2>4, <2>5, <2>6
<1> QED  BY <1>1, <1>2

LEMMA DownInitially == Init => DownInv
<1> SUFFICES ASSUME Init  PROVE DownInv
  OBVIOUS
<1>1. period.want.kind = "none"  BY NobodyInitially
<1> QED  BY <1>1 DEF DownInv, Downs, DownMeansDown

(* Whatever failed or killed commands left, downs of the same options that *)
(* nobody disturbs and that all return nil have removed the containers,    *)
(* and the network and the volume unless something still uses them: down   *)
(* with ensureNetworksDown and ensureVolumesDown (down.go).                *)
THEOREM DownMeansDownHolds == Spec => []DownMeansDown
<1>1. DownInv => DownMeansDown  BY DEF DownInv
<1> QED  BY <1>1, TypedAlways, DownInitially, DownStepKept, PTL DEF Spec

----------------------------------------------------------------------------
(* Two processes with equal ups: the creation of the network.              *)

LEMMA RetryBegins ==
  ASSUME Typed, RetryInv, NEW c \in Commands, NEW want \in Wants, Begins(c, want)
  PROVE  RetryInv'
<1>1. Active' = Active \cup {c} /\ c \notin Active  BY ActiveGrows
<1>2. /\ Only(c) /\ UNCHANGED network /\ ~cmd'[c].retried
      /\ cmd'[c].at \notin {"create network", "list networks"} /\ cmd'[c].at \notin Removers
  BY DEF Begins, engine, Removers
<1>3. \A d \in Active : cmd'[d] = cmd[d]  BY <1>1, <1>2 DEF Only, Active
<1>4. CASE Active = {} /\ ~period'.lost
  <2>1. Active' = {c}  BY <1>1, <1>4
  <2> QED  BY <1>2, <1>4, <2>1 DEF RetryInv, CreatorsMeet, RetriedFinds, RetryIsEnough
<1>5. CASE /\ period'.same => period.same /\ period.want = want
           /\ period'.want = period.want /\ period'.lost = period.lost
  <2>1. (Ups' => Ups) /\ (NetworkBad' <=> NetworkBad)  BY <1>2, <1>5 DEF Ups, NetworkBad
  <2>2. NobodyRemoves => NobodyRemoves'  BY <1>1, <1>2, <1>3 DEF NobodyRemoves
  <2>3. CreatorsMeet'  BY <1>1, <1>2, <1>3, <2>1, <2>2 DEF RetryInv, CreatorsMeet
  <2>4. RetriedFinds'
    <3> SUFFICES ASSUME Ups', NEW d \in Active', cmd'[d].retried
                 PROVE  /\ network'.id # None /\ ~NetworkBad' /\ NobodyRemoves'
                        /\ cmd'[d].at \notin {"list networks", "create network"}
      BY DEF RetriedFinds
    <3>1. d \in Active /\ cmd[d].retried /\ cmd'[d] = cmd[d]  BY <1>1, <1>2, <1>3
    <3>2. /\ network.id # None /\ ~NetworkBad /\ NobodyRemoves
          /\ cmd[d].at \notin {"list networks", "create network"}
      BY <2>1, <3>1 DEF RetryInv, RetriedFinds
    <3> QED  BY <1>2, <2>1, <2>2, <3>1, <3>2
  <2>5. RetryIsEnough'  BY <1>5 DEF RetryInv, RetryIsEnough
  <2> QED  BY <2>3, <2>4, <2>5 DEF RetryInv
<1> QED  BY <1>4, <1>5 DEF Begins

LEMMA RetryEnds ==
  ASSUME Typed, RetryInv, NEW c \in Commands, Ends(c), RetryIsEnough'
  PROVE  RetryInv'
<1>1. Active' = Active \ {c} /\ c \in Active  BY ActiveShrinks
<1>2. Only(c) /\ UNCHANGED network /\ period'.want = period.want /\ period'.same = period.same  BY DEF Ends, engine
<1>3. \A d \in Active' : d \in Active /\ cmd'[d] = cmd[d]  BY <1>1, <1>2 DEF Only, Active
<1>4. (Ups' <=> Ups) /\ (NetworkBad' <=> NetworkBad)  BY <1>2 DEF Ups, NetworkBad
<1>5. NobodyRemoves => NobodyRemoves'  BY <1>3 DEF NobodyRemoves
<1>6. CreatorsMeet'  BY <1>2, <1>3, <1>4, <1>5 DEF RetryInv, CreatorsMeet
<1>7. RetriedFinds'
  <2> SUFFICES ASSUME Ups, NEW d \in Active', cmd'[d].retried
               PROVE  /\ network'.id # None /\ ~NetworkBad' /\ NobodyRemoves'
                      /\ cmd'[d].at \notin {"list networks", "create network"}
    BY <1>4 DEF RetriedFinds
  <2>1. d \in Active /\ cmd[d].retried /\ cmd'[d] = cmd[d]  BY <1>3
  <2>2. /\ network.id # None /\ ~NetworkBad /\ NobodyRemoves
        /\ cmd[d].at \notin {"list networks", "create network"}
    BY <2>1 DEF RetryInv, RetriedFinds
  <2> QED  BY <1>2, <1>4, <1>5, <2>1, <2>2
<1> QED  BY <1>6, <1>7 DEF RetryInv

LEMMA RetryBreaks ==
  ASSUME Typed, Asked, RetryInv, NEW c \in Commands, Breaks(c)
  PROVE  RetryInv'
<1>1. Ends(c) /\ c \in Active /\ period'.same = period.same  BY DEF Breaks, Ends
<1>2. ASSUME period.same, At(c, "up", "create network"), cmd[c].retried  PROVE FALSE
  <2>1. cmd[c].want = period.want  BY <1>1, <1>2 DEF Asked, SameWants
  <2>2. Ups  BY <1>2, <2>1 DEF Ups, At
  <2> QED  BY <1>1, <1>2, <2>2 DEF At, RetryInv, RetriedFinds
<1>3. RetryIsEnough'  BY <1>1, <1>2 DEF Breaks, RetryInv, RetryIsEnough
<1> QED  BY <1>1, <1>3, RetryEnds

LEMMA RetryUps ==
  ASSUME TwoProcesses, Typed, Asked, UpInv, RetryInv, NEW c \in Commands, UpCall(c)
  PROVE  RetryInv'
<1>1. UpStep(c) /\ Acts(c)  BY UpSteps DEF UpCall
<1>2. Only(c) /\ UNCHANGED period  BY <1>1 DEF UpStep, Acts
<1>3. Active' = Active /\ c \in Active  BY <1>1, <1>2, ActiveStays
<1>4. \A d \in Active : d # c => cmd'[d] = cmd[d]  BY <1>2 DEF Only, Active
<1>5. Ups' <=> Ups  BY <1>2 DEF Ups
<1>6. RetryIsEnough'  BY <1>2 DEF RetryInv, RetryIsEnough
<1>7. Ups => cmd[c].want = period.want  BY <1>3, UpsWant
<1>8. ASSUME Ups, UNCHANGED network, NobodyRemoves, ~NetworkBad  PROVE NobodyRemoves'
  <2>1. cmd[c].at \notin Removers  BY <1>3, <1>8 DEF NobodyRemoves
  <2>2. cmd'[c].at \notin Removers
    <3>1. ~(network.id # None /\ network.hash \notin {"none", cmd[c].want.network})
      BY <1>7, <1>8 DEF NetworkBad
    <3> QED  BY <1>1, <2>1, <3>1 DEF UpStep
  <2> QED  BY <1>3, <1>4, <1>8, <2>2 DEF NobodyRemoves
<1>9. CreatorsMeet'
  <2> SUFFICES ASSUME Ups, NEW d \in Active, cmd'[d].at = "create network", network'.id # None
               PROVE  NobodyRemoves'
    BY <1>3, <1>5 DEF CreatorsMeet
  <2>1. d # c
    <3> SUFFICES ASSUME d = c  PROVE FALSE
      OBVIOUS
    <3>1. network.id = None /\ UNCHANGED network  BY <1>1 DEF UpStep
    <3> QED  BY <3>1
  <2>2. cmd'[d] = cmd[d] /\ cmd[d].at = "create network"  BY <1>4, <2>1
  <2>3. ~NetworkBad
    <3>1. cmd[d].at \notin Inspecting  BY <2>2, CallsOfUp
    <3> QED  BY <3>1, UpPlaces
  <2>4. CASE UNCHANGED network
    <3>1. NobodyRemoves  BY <2>2, <2>4 DEF RetryInv, CreatorsMeet
    <3> QED  BY <1>8, <2>3, <2>4, <3>1
  <2>5. CASE cmd[c].at = "create network" /\ cmd'[c].at = "connect"
    <3> SUFFICES ASSUME NEW e \in Active  PROVE cmd'[e].at \notin Removers
      BY <1>3 DEF NobodyRemoves
    <3>1. e = c \/ e = d  BY <2>1 DEF TwoProcesses, Active
    <3> QED  BY <2>2, <2>5, <3>1 DEF Removers
  <2>6. network' # NoNetwork  BY ResourcesTyped
  <2> QED  BY <1>1, <2>4, <2>5, <2>6 DEF UpStep
<1>10. RetriedFinds'
  <2> SUFFICES ASSUME Ups, NEW d \in Active, cmd'[d].retried
               PROVE  /\ network'.id # None /\ ~NetworkBad' /\ NobodyRemoves'
                      /\ cmd'[d].at \notin {"list networks", "create network"}
    BY <1>3, <1>5 DEF RetriedFinds
  <2>1. CASE cmd[d].retried
    <3>1. /\ network.id # None /\ ~NetworkBad /\ NobodyRemoves
          /\ cmd[d].at \notin {"list networks", "create network"}
      BY <2>1 DEF RetryInv, RetriedFinds
    <3>2. cmd[c].at # "remove network"  BY <1>3, <3>1 DEF NobodyRemoves, Removers
    <3>3. UNCHANGED network  BY <1>1, <3>1, <3>2 DEF UpStep
    <3>4. NobodyRemoves'  BY <1>8, <3>1, <3>3
    <3>5. ~NetworkBad'  BY <1>2, <3>1, <3>3 DEF NetworkBad
    <3>6. cmd'[d].at \notin {"list networks", "create network"}
      <4>1. CASE d = c  BY <1>1, <3>1, <3>2, <4>1 DEF UpStep
      <4>2. CASE d # c  BY <1>4, <3>1, <4>2
      <4> QED  BY <4>1, <4>2
    <3> QED  BY <3>1, <3>3, <3>4, <3>5, <3>6
  <2>2. CASE ~cmd[d].retried
    <3>1. d = c  BY <1>4, <2>2
    <3>2. /\ cmd[c].at = "create network" /\ cmd'[c].at = "inspect network" /\ network.id # None
          /\ UNCHANGED network
      BY <1>1, <2>2, <3>1 DEF UpStep
    <3>3. NobodyRemoves  BY <1>3, <3>2 DEF RetryInv, CreatorsMeet
    <3>4. ~NetworkBad
      <4>1. cmd[c].at \notin Inspecting  BY <3>2, CallsOfUp
      <4> QED  BY <1>3, <4>1, UpPlaces
    <3>5. ~NetworkBad'  BY <1>2, <3>2, <3>4 DEF NetworkBad
    <3>6. NobodyRemoves'  BY <1>8, <3>2, <3>3, <3>4
    <3> QED  BY <3>1, <3>2, <3>5, <3>6
  <2> QED  BY <2>1, <2>2
<1> QED  BY <1>6, <1>9, <1>10 DEF RetryInv

LEMMA RetryDowns ==
  ASSUME Typed, Asked, RetryInv, NEW c \in Commands, DownCall(c)
  PROVE  RetryInv'
<1>1. Acts(c) /\ c \in Active /\ cmd[c].want.kind = "down" /\ UNCHANGED period  BY DownSteps DEF DownCall, Acts
<1>2. ~Ups' /\ RetryIsEnough'
  <2>1. ~Ups  BY <1>1, UpsWant
  <2> QED  BY <1>1, <2>1 DEF Ups, RetryInv, RetryIsEnough
<1> QED  BY <1>2 DEF RetryInv, CreatorsMeet, RetriedFinds

LEMMA VarsKeepRetry ==
  ASSUME RetryInv, UNCHANGED vars
  PROVE  RetryInv'
<1>1. UNCHANGED <<network, cmd, period>>  BY DEF vars, engine
<1> QED  BY <1>1 DEF RetryInv, CreatorsMeet, RetriedFinds, RetryIsEnough, NobodyRemoves, Ups, NetworkBad, Active

LEMMA RetryStepKept ==
  ASSUME TwoProcesses, Typed, Asked, UpInv, RetryInv, [Next]_vars
  PROVE  RetryInv'
<1>1. CASE UNCHANGED vars  BY <1>1, VarsKeepRetry
<1>2. CASE Next
  <2>1. PICK c \in Commands :
          (\E want \in Wants : Begins(c, want)) \/ Breaks(c) \/ Returns(c) \/ UpCall(c) \/ DownCall(c)
    BY <1>2, StepKinds
  <2>2. CASE \E want \in Wants : Begins(c, want)  BY <2>2, RetryBegins
  <2>3. CASE Breaks(c)  BY <2>3, RetryBreaks
  <2>4. CASE Returns(c)
    <3>1. Ends(c) /\ UNCHANGED period  BY <2>4 DEF Returns
    <3>2. RetryIsEnough'  BY <3>1 DEF RetryInv, RetryIsEnough
    <3> QED  BY <3>1, <3>2, RetryEnds
  <2>5. CASE UpCall(c)  BY <2>5, RetryUps
  <2>6. CASE DownCall(c)  BY <2>6, RetryDowns
  <2> QED  BY <2>1, <2>2, <2>3, <2>4, <2>5, <2>6
<1> QED  BY <1>1, <1>2

LEMMA RetryInitially == Init => RetryInv
<1> SUFFICES ASSUME Init  PROVE RetryInv
  OBVIOUS
<1>1. Active = {} /\ ~period.lost  BY NobodyInitially
<1> QED  BY <1>1 DEF RetryInv, CreatorsMeet, RetriedFinds, RetryIsEnough

(* Besides what UpMeansUpHolds says of any number of processes: of two     *)
(* that run equal ups at the same time none fails to create the network,   *)
(* since ensureNetwork (create.go) tries once more when it lost the race.  *)
(* With three processes it is not so.                                      *)
THEOREM UpSucceedsHolds ==
  ASSUME TwoProcesses
  PROVE  Spec => []UpSucceeds
<1>1. Init => RetryInv  BY RetryInitially
<1>2. Typed /\ Asked /\ UpInv /\ RetryInv /\ [Next]_vars => RetryInv'  BY RetryStepKept
<1>3. Typed /\ UpInv /\ MendInv /\ RetryInv => UpSucceeds
  BY TypesAreOK, UpIsUp DEF UpSucceeds, RetryInv
<1> QED  BY <1>1, <1>2, <1>3, TypedAlways, UpAlways, MendAlways, PTL DEF Spec
=============================================================================
