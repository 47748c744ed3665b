--------------------------- MODULE UpSessionProofs ---------------------------
(***************************************************************************)
(* Proofs about the attached part of up (UpSession), for every set of      *)
(* containers, all exit codes and any number of signals, restarts and      *)
(* failing calls; and about Logs, which shares the monitor's code, for     *)
(* every set of containers and any number of starts and removals.          *)
(***************************************************************************)
EXTENDS MCUpSession, TLAPS

Codes    == ExitCodes \cup StopCodes \cup {0}
Event    == [c : project, action : {"start", "die"}, code : Codes]
Passes   == {None, Done} \cup [pc : {"going"}, todo : SUBSET project]
Started  == {"list", "subscribe", "loop"}   \* The monitor is at work

----------------------------------------------------------------------------
(* What the events still to be read say of a container.                    *)

\* There is a start, or an end, of the container among them.
Says(s, c, action) == \E i \in 1..Len(s) : s[i].c = c /\ s[i].action = action

\* There is an end of it after which it was not started again.
EndsIn(s, c) ==
  \E i \in 1..Len(s) :
    /\ s[i].c = c /\ s[i].action = "die"
    /\ \A j \in 1..Len(s) : s[j].c = c /\ s[j].action = "start" => j < i

\* Its first end is with this code.
FirstEnd(s, c, code) ==
  \E i \in 1..Len(s) :
    /\ s[i].c = c /\ s[i].action = "die" /\ s[i].code = code
    /\ \A j \in 1..Len(s) : s[j].c = c /\ s[j].action = "die" => i <= j

----------------------------------------------------------------------------
(* The layers of the inductive invariant.  First the types, and how far    *)
(* the goroutines may be with respect to each other.                       *)

EngineOK ==
  /\ st \in [project -> {"created", "running", "restarting", "exited"}]
  /\ events \in Seq(Event)
  /\ silent \subseteq {c \in project : ~Live(c)}
  /\ passed \subseteq project /\ revived \subseteq project
  /\ firstCode \in ExitCodes \cup StopCodes \cup {-1}
  /\ watches \subseteq project /\ watched \subseteq watches
  /\ exitFrom \in watches \cup {"nobody"}

HandlerOK ==
  /\ signals \in 0..2 /\ budget \in 0..MaxTroubles
  /\ handler \in {"select", "blocked", "ctx", "signal", "returned"}
  /\ adapt \in {"waits", "told", "done"}
  /\ ctxDone <=> adapt = "done"
  /\ handler = "blocked" => ~globalDone /\ signals = 0
  /\ kill # None => ~first /\ handler = "returned"

PassesOK ==
  /\ stop \in [{"signal", "exit"} -> Passes]
  /\ kill \in Passes

PlacesOK ==
  /\ monitor \in {"none", "list", "subscribe", "loop", "over", "returned"}
  /\ main \in {"attach", "start", "starting", "check", "wait", "drain", "returned"}
  /\ events # <<>> => monitor = "loop"
  /\ main = "attach" => monitor = "none"
  /\ main = "returned" => monitor \notin Started
  /\ toStart # {} => main = "starting"
  /\ toStart \subseteq project
  /\ result \in {"none", "nil", "code", "err"}
  /\ (result # "none") <=> main = "returned"

FlagsOK ==
  /\ err \in BOOLEAN /\ errs \in BOOLEAN /\ captured \in BOOLEAN /\ menu \in BOOLEAN
  /\ ctxDone \in BOOLEAN /\ cancelled \in BOOLEAN /\ restarted \in BOOLEAN /\ faulty \in BOOLEAN

Typed == EngineOK /\ HandlerOK /\ PassesOK /\ PlacesOK /\ FlagsOK

(* What the monitor watches, with the events still to be read, is what     *)
(* runs.                                                                   *)
Unheard == monitor \in {"none", "list", "subscribe"} => \A c \in project : Live(c) \/ c \in silent

WatchedAll == monitor = "subscribe" => watched = watches

RunsAreWatched ==
  monitor = "loop" => \A c \in watches : Live(c) => c \in watched \/ Says(events, c, "start")

EndsAreTold ==
  monitor = "loop" =>
    \A c \in watches :
      /\ ~Live(c) /\ c \notin silent
      /\ c \in watched \/ Says(events, c, "start")
      => EndsIn(events, c)

Follows == Unheard /\ WatchedAll /\ RunsAreWatched /\ EndsAreTold

(* A container that ended while start was not over has been passed, so     *)
(* that start, when it starts it, makes it a revived one; and a container  *)
(* that runs without being watched was revived.                            *)
EndsArePassed == StartingUp => \A c \in watches : Says(events, c, "die") => c \in passed

UnwatchedIsPassed == StartingUp /\ monitor = "loop" => \A c \in watches \ watched : c \in passed

UnwatchedIsRevived == monitor = "loop" => \A c \in watches \ watched : Live(c) => c \in revived

Passings == EndsArePassed /\ UnwatchedIsPassed /\ UnwatchedIsRevived

(* The exit code of the container of exitFrom.                             *)
Chooses == exitFrom # "nobody" /\ onExit = "stop"

NothingSaid == monitor \in {"none", "list", "subscribe"} => firstCode = -1 /\ ~captured

CapturedIsFirst == captured => firstCode # -1 /\ exitCode = firstCode /\ ~onceExit

AwaitsFirst ==
  ~captured /\ monitor = "loop" =>
    /\ exitFrom \in watched
    /\ IF firstCode = -1 THEN ~Says(events, exitFrom, "die") ELSE FirstEnd(events, exitFrom, firstCode)

OverWhenCaptured == monitor = "over" => captured

Choice == Chooses => NothingSaid /\ CapturedIsFirst /\ AwaitsFirst /\ OverWhenCaptured

ResultIsCode == (result = "nil" => exitCode = 0) /\ (result = "code" => exitCode # 0)

(* A stop pass stops what it comes to, unless it is revived.               *)
Stops ==
  ~faulty =>
    \A k \in {"signal", "exit"}, c \in project :
      stop[k].pc # "none" /\ c \notin stop[k].todo =>
        (~Live(c) /\ (StartingUp => c \in passed)) \/ c \in revived

Inv == Typed /\ Follows /\ Passings /\ Choice /\ ResultIsCode /\ Stops

----------------------------------------------------------------------------
(* Events.                                                                 *)

\* What is sent is one more event, told last.
LEMMA TellTells ==
  ASSUME EngineOK, PlacesOK, NEW c \in project, NEW action \in {"start", "die"}, NEW code \in Codes,
         Tell(c, action, code), UNCHANGED <<options, monitor>>
  PROVE  /\ events' \in Seq(Event')
         /\ events' # <<>> => monitor' = "loop"
<1> DEFINE e == [c |-> c, action |-> action, code |-> code]
<1>1. e \in Event  BY DEF Event
<1>2. Event' = Event  BY DEF Event, options
<1>3. Append(events, e) \in Seq(Event)  BY <1>1 DEF EngineOK
<1>4. CASE Told
  BY <1>2, <1>3, <1>4 DEF Tell, Told
<1>5. CASE ~Told
  <2>1. events' = events  BY <1>5 DEF Tell
  <2> QED  BY <2>1, <1>2 DEF EngineOK, PlacesOK
<1> QED  BY <1>4, <1>5

LEMMA StartsTyped ==
  ASSUME EngineOK, PlacesOK, NEW c \in project, Starts(c), UNCHANGED <<options, monitor, watched>>,
         revived' \subseteq project
  PROVE  EngineOK' /\ (events' # <<>> => monitor' = "loop")
<1>1. events' \in Seq(Event') /\ (events' # <<>> => monitor' = "loop")
  <2>1. 0 \in Codes  BY DEF Codes
  <2> QED  BY <2>1, TellTells DEF Starts
<1>2. st' \in [project -> {"created", "running", "restarting", "exited"}]  BY DEF EngineOK, Starts
<1>3. silent' \subseteq {d \in project : ~Live(d)'}
  <2> SUFFICES ASSUME NEW d \in silent'  PROVE d \in project /\ ~Live(d)'  OBVIOUS
  <2>1. d \in silent /\ d # c  BY DEF Starts
  <2>2. d \in project /\ ~Live(d)  BY <2>1 DEF EngineOK
  <2>3. st'[d] = st[d]  BY <2>1, <2>2 DEF EngineOK, Starts
  <2> QED  BY <2>2, <2>3 DEF Live
<1>4. passed' = passed /\ firstCode' = firstCode  BY DEF Starts
<1> QED  BY <1>1, <1>2, <1>3, <1>4 DEF EngineOK, options

LEMMA EndsTyped ==
  ASSUME EngineOK, PlacesOK, NEW c \in project, NEW code \in ExitCodes \cup StopCodes, NEW to \in {"exited", "restarting"},
         Live(c), Ends(c, code, to), UNCHANGED <<options, monitor, watched>>
  PROVE  EngineOK' /\ (events' # <<>> => monitor' = "loop")
<1>1. events' \in Seq(Event') /\ (events' # <<>> => monitor' = "loop")
  <2>1. code \in Codes  BY DEF Codes
  <2> QED  BY <2>1, TellTells DEF Ends
<1>2. st' \in [project -> {"created", "running", "restarting", "exited"}]  BY DEF EngineOK, Ends
<1>3. silent' \subseteq {d \in project : ~Live(d)'}
  <2> SUFFICES ASSUME NEW d \in silent'  PROVE d \in project /\ ~Live(d)'  OBVIOUS
  <2>1. CASE d = c
    <3>1. c \notin silent  BY DEF EngineOK
    <3>2. to = "exited"  BY <2>1, <3>1 DEF Ends
    <3>3. st'[c] = "exited"  BY <3>2 DEF EngineOK, Ends
    <3> QED  BY <2>1, <3>3 DEF Live
  <2>2. CASE d # c
    <3>1. d \in silent  BY <2>2 DEF Ends
    <3>2. d \in project /\ ~Live(d)  BY <3>1 DEF EngineOK
    <3>3. st'[d] = st[d]  BY <2>2, <3>2 DEF EngineOK, Ends
    <3> QED  BY <3>2, <3>3 DEF Live
  <2> QED  BY <2>1, <2>2
<1>4. passed' \subseteq project /\ revived' = revived  BY DEF EngineOK, Ends, PassedBy
<1>5. firstCode' \in ExitCodes \cup StopCodes \cup {-1}  BY DEF EngineOK, Ends
<1> QED  BY <1>1, <1>2, <1>3, <1>4, <1>5 DEF EngineOK, options

LEMMA HaltsTyped ==
  ASSUME EngineOK, PlacesOK, NEW c \in project, Halts(c), UNCHANGED <<options, monitor, watched>>
  PROVE  EngineOK' /\ (events' # <<>> => monitor' = "loop")
<1>1. CASE ~Live(c) /\ PassedBy(c) /\ UNCHANGED <<st, events, silent, revived, firstCode>>
  <2>1. passed' \subseteq project  BY <1>1 DEF EngineOK, PassedBy
  <2>2. Event' = Event  BY DEF Event, options
  <2>3. \A d : Live(d)' <=> Live(d)  BY <1>1 DEF Live
  <2>4. silent' \subseteq {d \in project : ~Live(d)'}
    <3>1. silent' = silent  BY <1>1
    <3> QED  BY <2>3, <3>1 DEF EngineOK
  <2>5. events' = events  BY <1>1
  <2>6. st' = st /\ revived' = revived /\ firstCode' = firstCode  BY <1>1
  <2> QED  BY <2>1, <2>2, <2>4, <2>5, <2>6 DEF EngineOK, PlacesOK, options
<1>2. CASE Live(c) /\ \E code \in StopCodes : Ends(c, code, "exited")
  <2>1. PICK code \in StopCodes : Ends(c, code, "exited")  BY <1>2
  <2>2. code \in ExitCodes \cup StopCodes  OBVIOUS
  <2> QED  BY <1>2, <2>1, <2>2, EndsTyped
<1>3. CASE /\ st[c] = "restarting"
           /\ st' = [st EXCEPT ![c] = "exited"]
           /\ silent' = silent \cup {c}
           /\ PassedBy(c)
           /\ UNCHANGED <<events, revived, firstCode>>
  <2>1. passed' \subseteq project  BY <1>3 DEF EngineOK, PassedBy
  <2>2. Event' = Event  BY DEF Event, options
  <2>3. st' \in [project -> {"created", "running", "restarting", "exited"}]  BY <1>3 DEF EngineOK
  <2>4. silent' \subseteq {d \in project : ~Live(d)'}
    <3> SUFFICES ASSUME NEW d \in silent'  PROVE d \in project /\ ~Live(d)'  OBVIOUS
    <3>1. CASE d = c
      BY <1>3, <3>1 DEF EngineOK, Live
    <3>2. CASE d # c
      <4>1. d \in silent  BY <1>3, <3>2
      <4>2. d \in project /\ ~Live(d)  BY <4>1 DEF EngineOK
      <4> QED  BY <1>3, <3>2, <4>2 DEF EngineOK, Live
    <3> QED  BY <3>1, <3>2
  <2>5. events' = events /\ revived' = revived /\ firstCode' = firstCode  BY <1>3
  <2> QED  BY <2>1, <2>2, <2>3, <2>4, <2>5 DEF EngineOK, PlacesOK, options
<1> QED  BY <1>1, <1>2, <1>3 DEF Halts

\* Steps that leave the engine and what is watched alone.
LEMMA EngineSame ==
  ASSUME EngineOK, UNCHANGED <<engine, options, watched>>
  PROVE  EngineOK'
<1>1. Event' = Event  BY DEF Event, options
<1>2. \A d : Live(d)' <=> Live(d)  BY DEF Live, engine
<1>3. silent' \subseteq {d \in project : ~Live(d)'}
  <2>1. silent' = silent  BY DEF engine
  <2> QED  BY <1>2, <2>1 DEF EngineOK
<1>4. events' = events /\ st' = st /\ passed' = passed /\ revived' = revived /\ firstCode' = firstCode
  BY DEF engine
<1> QED  BY <1>1, <1>3, <1>4 DEF EngineOK, options

----------------------------------------------------------------------------
(* Every action keeps the types.                                           *)

LEMMA ExitTyped ==
  ASSUME Typed, NEW c \in project, Exit(c)
  PROVE  Typed'
<1>1. PICK code \in ExitCodes :
        \/ Ends(c, code, "exited") /\ UNCHANGED <<budget, restarted>>
        \/ Ends(c, code, "restarting") /\ Trouble /\ restarted' = TRUE
  BY DEF Exit
<1>2. code \in ExitCodes \cup StopCodes /\ Live(c)  BY DEF Exit, Live
<1>3. EngineOK' /\ (events' # <<>> => monitor' = "loop")
  BY <1>1, <1>2, EndsTyped DEF Exit, Compose, options, watching, Typed
<1>4. HandlerOK'
  BY <1>1, MaxTroublesAssumption DEF Exit, Compose, contexts, handling, passes, Trouble, Typed, HandlerOK, globalDone, first
<1>5. PassesOK'  BY DEF Exit, Compose, options, passes, Typed, PassesOK, Passes
<1>6. PlacesOK'  BY <1>3 DEF Exit, Compose, options, watching, mains, Typed, PlacesOK, Started
<1>7. FlagsOK'  BY <1>1 DEF Exit, Compose, watching, handling, contexts, outcome, Typed, FlagsOK
<1> QED  BY <1>3, <1>4, <1>5, <1>6, <1>7 DEF Typed

LEMMA PolicyRestartsTyped ==
  ASSUME Typed, NEW c \in project, PolicyRestarts(c)
  PROVE  Typed'
<1>3. EngineOK' /\ (events' # <<>> => monitor' = "loop")
  <2>1. revived' \subseteq project  BY DEF PolicyRestarts, Typed, EngineOK
  <2> QED  BY <2>1, StartsTyped DEF PolicyRestarts, Compose, options, watching, Typed
<1>4. HandlerOK'
  BY DEF PolicyRestarts, Compose, contexts, handling, passes, bounds, Typed, HandlerOK, globalDone, first
<1>5. PassesOK'  BY DEF PolicyRestarts, Compose, options, passes, Typed, PassesOK, Passes
<1>6. PlacesOK'  BY <1>3 DEF PolicyRestarts, Compose, options, watching, mains, Typed, PlacesOK, Started
<1>7. FlagsOK'  BY DEF PolicyRestarts, Compose, watching, handling, contexts, outcome, bounds, Typed, FlagsOK
<1> QED  BY <1>3, <1>4, <1>5, <1>6, <1>7 DEF Typed

LEMMA OthersStartTyped ==
  ASSUME Typed, NEW c \in project, OthersStart(c)
  PROVE  Typed'
<1>3. EngineOK' /\ (events' # <<>> => monitor' = "loop")
  <2>1. revived' \subseteq project  BY DEF OthersStart, Typed, EngineOK
  <2> QED  BY <2>1, StartsTyped DEF OthersStart, Compose, options, watching, Typed
<1>4. HandlerOK'
  BY MaxTroublesAssumption DEF OthersStart, Compose, contexts, handling, passes, Trouble, Typed, HandlerOK, globalDone, first
<1>5. PassesOK'  BY DEF OthersStart, Compose, options, passes, Typed, PassesOK, Passes
<1>6. PlacesOK'  BY <1>3 DEF OthersStart, Compose, options, watching, mains, Typed, PlacesOK, Started
<1>7. FlagsOK'  BY DEF OthersStart, Compose, watching, handling, contexts, outcome, Typed, FlagsOK
<1> QED  BY <1>3, <1>4, <1>5, <1>6, <1>7 DEF Typed

LEMMA StartContainerTyped ==
  ASSUME Typed, NEW c \in project, StartContainer(c)
  PROVE  Typed'
<1>3. EngineOK' /\ (events' # <<>> => monitor' = "loop")
  <2>1. CASE st[c] = "running"
    <3>1. UNCHANGED <<engine, options, watched, monitor>>  BY <2>1 DEF StartContainer, Main
    <3>2. events' = events  BY <3>1 DEF engine
    <3> QED  BY <3>1, <3>2, EngineSame DEF Typed, PlacesOK
  <2>2. CASE st[c] # "running"
    <3>1. Starts(c) /\ revived' \subseteq project  BY <2>2 DEF StartContainer, Typed, EngineOK
    <3> QED  BY <3>1, StartsTyped DEF StartContainer, Main, Typed
  <2> QED  BY <2>1, <2>2
<1>4. HandlerOK'
  BY DEF StartContainer, Main, passes, Typed, HandlerOK, globalDone, first
<1>5. PassesOK'  BY DEF StartContainer, Main, options, passes, Typed, PassesOK, Passes
<1>6. PlacesOK'  BY <1>3 DEF StartContainer, Main, options, Typed, PlacesOK, Started
<1>7. FlagsOK'  BY DEF StartContainer, Main, Typed, FlagsOK
<1> QED  BY <1>3, <1>4, <1>5, <1>6, <1>7 DEF Typed

LEMMA StopContainerTyped ==
  ASSUME Typed, NEW k \in {"signal", "exit"}, NEW c \in project, StopContainer(k, c)
  PROVE  Typed'
<1>3. EngineOK' /\ (events' # <<>> => monitor' = "loop")
  BY HaltsTyped DEF StopContainer, Stopper, options, watching, Typed
<1>5. PassesOK'
  <2>1. stop[k] \in [pc : {"going"}, todo : SUBSET project]
    BY DEF StopContainer, Typed, PassesOK, Passes, None, Done
  <2>2. stop' = [stop EXCEPT ![k] = [stop[k] EXCEPT !.todo = @ \ {c}]]  BY DEF StopContainer
  <2>3. [stop[k] EXCEPT !.todo = @ \ {c}] \in [pc : {"going"}, todo : SUBSET project]  BY <2>1
  <2>4. project' = project /\ kill' = kill  BY DEF StopContainer, Stopper, options
  <2> QED  BY <2>2, <2>3, <2>4 DEF Typed, PassesOK, Passes
<1>4. HandlerOK'
  <2>1. ~first => ~first'
    BY DEF first, StopContainer, Typed, PassesOK, None
  <2> QED  BY <2>1 DEF StopContainer, Stopper, contexts, handling, Typed, HandlerOK, globalDone
<1>6. PlacesOK'  BY <1>3 DEF StopContainer, Stopper, options, watching, mains, Typed, PlacesOK, Started
<1>7. FlagsOK'  BY DEF StopContainer, Stopper, watching, handling, contexts, Typed, FlagsOK
<1> QED  BY <1>3, <1>4, <1>5, <1>6, <1>7 DEF Typed

LEMMA KillContainerTyped ==
  ASSUME Typed, NEW c \in project, KillContainer(c)
  PROVE  Typed'
<1>3. EngineOK' /\ (events' # <<>> => monitor' = "loop")
  BY HaltsTyped DEF KillContainer, Killer, options, watching, Typed
<1>5. PassesOK'
  <2>1. kill \in [pc : {"going"}, todo : SUBSET project]
    BY DEF KillContainer, Typed, PassesOK, Passes, None, Done
  <2>2. kill' \in [pc : {"going"}, todo : SUBSET project]  BY <2>1 DEF KillContainer
  <2>4. project' = project /\ stop' = stop  BY DEF KillContainer, Killer, options
  <2> QED  BY <2>2, <2>4 DEF Typed, PassesOK, Passes
<1>4. HandlerOK'
  <2>1. kill # None  BY DEF KillContainer, None
  <2>2. first' = first  BY DEF first, KillContainer, Killer
  <2> QED  BY <2>1, <2>2 DEF KillContainer, Killer, contexts, handling, Typed, HandlerOK, globalDone
<1>6. PlacesOK'  BY <1>3 DEF KillContainer, Killer, options, watching, mains, Typed, PlacesOK, Started
<1>7. FlagsOK'  BY DEF KillContainer, Killer, watching, handling, contexts, Typed, FlagsOK
<1> QED  BY <1>3, <1>4, <1>5, <1>6, <1>7 DEF Typed

LEMMA StopReturnsTyped ==
  ASSUME Typed, NEW k \in {"signal", "exit"}, StopReturns(k)
  PROVE  Typed'
<1>1. EngineOK'  BY EngineSame DEF StopReturns, Stopper, watching, Typed
<1>2. PassesOK'
  BY DEF StopReturns, Stopper, options, Typed, PassesOK, Passes
<1>3. HandlerOK'
  <2>1. ~first => ~first'
    BY DEF first, StopReturns, Typed, PassesOK, None, Done
  <2>2. budget' \in 0..MaxTroubles
    BY MaxTroublesAssumption DEF StopReturns, Fault, Trouble, Typed, HandlerOK
  <2> QED  BY <2>1, <2>2 DEF StopReturns, Stopper, contexts, handling, Typed, HandlerOK, globalDone
<1>4. PlacesOK'  BY DEF StopReturns, Stopper, engine, options, watching, mains, Typed, PlacesOK, Started
<1>5. FlagsOK'  BY DEF StopReturns, Stopper, Fault, watching, handling, contexts, Typed, FlagsOK
<1> QED  BY <1>1, <1>2, <1>3, <1>4, <1>5 DEF Typed

LEMMA KillReturnsTyped ==
  ASSUME Typed, KillReturns
  PROVE  Typed'
<1>1. EngineOK'  BY EngineSame DEF KillReturns, Killer, watching, Typed
<1>2. PassesOK'
  BY DEF KillReturns, Killer, options, Typed, PassesOK, Passes
<1>3. HandlerOK'
  <2>1. kill # None  BY DEF KillReturns, None
  <2>2. first' = first  BY DEF first, KillReturns, Killer
  <2>3. budget' \in 0..MaxTroubles
    BY MaxTroublesAssumption DEF KillReturns, Fault, Trouble, Typed, HandlerOK
  <2> QED  BY <2>1, <2>2, <2>3 DEF KillReturns, Killer, contexts, handling, Typed, HandlerOK, globalDone
<1>4. PlacesOK'  BY DEF KillReturns, Killer, engine, options, watching, mains, Typed, PlacesOK, Started
<1>5. FlagsOK'  BY DEF KillReturns, Killer, Fault, watching, handling, contexts, Typed, FlagsOK
<1> QED  BY <1>1, <1>2, <1>3, <1>4, <1>5 DEF Typed

\* Signals, keys and contexts.
LEMMA HandlingTyped ==
  ASSUME Typed, Signal \/ AdaptCmd \/ Select \/ HandleKeyEvents
  PROVE  Typed'
<1>1. UNCHANGED <<engine, options, passes, watching, mains, outcome, restarted, faulty>>
  BY DEF Signal, AdaptCmd, Select, HandleKeyEvents, bounds
<1>2. EngineOK'  BY <1>1, EngineSame DEF watching, Typed
<1>3. PassesOK'  BY <1>1 DEF passes, options, Typed, PassesOK, Passes
<1>4. PlacesOK'  BY <1>1 DEF engine, options, watching, mains, Typed, PlacesOK, Started
<1>5. HandlerOK'
  <2>1. first' = first /\ kill' = kill  BY <1>1 DEF passes, first
  <2>2. CASE Signal
    BY <2>1, <2>2, MaxTroublesAssumption DEF Signal, Wake, Trouble, Typed, HandlerOK, globalDone
  <2>3. CASE AdaptCmd
    BY <2>1, <2>3 DEF AdaptCmd, Wake, Typed, HandlerOK, globalDone, bounds
  <2>4. CASE Select
    <3>1. Ready \subseteq {"returned", "ctx", "signal"}  BY DEF Ready
    <3>2. handler' \in {"blocked", "returned", "ctx", "signal"}  BY <2>4, <3>1 DEF Select
    <3>3. handler' = "signal" => signals > 0
      BY <2>4 DEF Select, Ready
    <3>4. handler' = "blocked" => Ready = {}  BY <2>4, <3>1 DEF Select
    <3>5. Ready = {} => ~globalDone /\ signals = 0
      <4>1. globalDone => "returned" \in Ready  BY DEF Ready
      <4>2. signals > 0 => "signal" \in Ready  BY DEF Ready
      <4>3. signals = 0 \/ signals > 0  BY DEF Typed, HandlerOK
      <4> QED  BY <4>1, <4>2, <4>3
    <3>6. kill = None  BY <2>4 DEF Select, Typed, HandlerOK
    <3>7. signals' \in 0..2 /\ (handler' = "blocked" => signals' = signals)
      BY <2>4, <3>3 DEF Select, Typed, HandlerOK
    <3> QED  BY <2>1, <2>4, <3>2, <3>4, <3>5, <3>6, <3>7 DEF Select, contexts, bounds, Typed, HandlerOK, globalDone
  <2>5. CASE HandleKeyEvents
    <3>1. kill = None /\ signals = 0  BY <2>5 DEF HandleKeyEvents, Typed, HandlerOK
    <3>2. signals' \in {signals, signals + 1} /\ (budget' = budget \/ Trouble)
      BY <2>5 DEF HandleKeyEvents
    <3>3. signals' \in 0..2  BY <3>1, <3>2
    <3>4. budget' \in 0..MaxTroubles
      BY <3>2, MaxTroublesAssumption DEF Trouble, Typed, HandlerOK
    <3> QED  BY <2>1, <2>5, <3>1, <3>3, <3>4 DEF HandleKeyEvents, Typed, HandlerOK
  <2> QED  BY <2>2, <2>3, <2>4, <2>5
<1>6. FlagsOK'
  <2>1. ctxDone' \in BOOLEAN /\ cancelled' \in BOOLEAN /\ menu' \in BOOLEAN
    BY DEF Signal, AdaptCmd, Select, HandleKeyEvents, contexts, Typed, FlagsOK
  <2> QED  BY <1>1, <2>1 DEF outcome, watching, Typed, FlagsOK
<1> QED  BY <1>2, <1>3, <1>4, <1>5, <1>6 DEF Typed

LEMMA TeardownTyped ==
  ASSUME Typed, GracefulTeardown \/ SecondSignal
  PROVE  Typed'
<1>1. UNCHANGED <<engine, options, contexts, signals, watching, mains, outcome, bounds>>
  BY DEF GracefulTeardown, SecondSignal
<1>2. EngineOK'  BY <1>1, EngineSame DEF watching, Typed
<1>3. PassesOK'
  <2>1. Pass \in [pc : {"going"}, todo : SUBSET project]  BY DEF Pass
  <2> QED  BY <1>1, <2>1 DEF GracefulTeardown, SecondSignal, options, Typed, PassesOK, Passes
<1>4. PlacesOK'  BY <1>1 DEF engine, options, watching, mains, Typed, PlacesOK, Started
<1>5. HandlerOK'
  <2>1. CASE GracefulTeardown
    <3>1. kill' = None  BY <2>1 DEF GracefulTeardown, Typed, HandlerOK
    <3> QED  BY <1>1, <2>1, <3>1 DEF GracefulTeardown, contexts, bounds, Typed, HandlerOK, globalDone
  <2>2. CASE SecondSignal
    <3>1. ~first'  BY <2>2 DEF SecondSignal, first
    <3> QED  BY <1>1, <2>2, <3>1 DEF SecondSignal, contexts, bounds, Typed, HandlerOK, globalDone
  <2> QED  BY <2>1, <2>2
<1>6. FlagsOK'
  <2>1. menu' \in BOOLEAN  BY DEF GracefulTeardown, SecondSignal, Typed, FlagsOK
  <2> QED  BY <1>1, <2>1 DEF outcome, watching, contexts, bounds, Typed, FlagsOK
<1> QED  BY <1>2, <1>3, <1>4, <1>5, <1>6 DEF Typed

\* The monitor, until it reads events.
LEMMA MonitorTyped ==
  ASSUME Typed, MonitorLists \/ Subscribe \/ MonitorReturns
  PROVE  Typed'
<1>1. UNCHANGED <<st, silent, passed, revived, firstCode, options, ctxDone, adapt, signals, menu, kill, mains, err, restarted>>
  BY DEF MonitorLists, Subscribe, MonitorReturns, Monitor, engine
<1>2. UNCHANGED <<stop, captured, exitCode>>
  BY DEF MonitorLists, Subscribe, MonitorReturns
<1>3. EngineOK'
  <2>1. Event' = Event  BY <1>1 DEF Event, options
  <2>2. events' = events \/ events' = <<>>  BY DEF MonitorLists, Subscribe, MonitorReturns, engine
  <2>3. events' \in Seq(Event')
    <3>1. events \in Seq(Event)  BY DEF Typed, EngineOK
    <3>2. <<>> \in Seq(Event)  OBVIOUS
    <3> QED  BY <2>1, <2>2, <3>1, <3>2
  <2>4. watched' \subseteq watches'
    BY <1>1 DEF MonitorLists, Subscribe, MonitorReturns, options, Typed, EngineOK
  <2>5. \A d : Live(d)' <=> Live(d)  BY <1>1 DEF Live
  <2>6. silent' \subseteq {d \in project : ~Live(d)'}
    <3>1. silent' = silent  BY <1>1
    <3> QED  BY <2>5, <3>1 DEF Typed, EngineOK
  <2> QED  BY <1>1, <2>3, <2>4, <2>6 DEF options, Typed, EngineOK
<1>4. PassesOK'  BY <1>1, <1>2 DEF options, Typed, PassesOK, Passes
<1>5. PlacesOK'
  <2>1. main' = main /\ toStart' = toStart /\ result' = result /\ project' = project
    BY <1>1 DEF mains, options
  <2>2. monitor \in Started /\ monitor' \in {"subscribe", "loop", "over", "returned"}
    BY DEF MonitorLists, Subscribe, MonitorReturns, Started
  <2>3. events' # <<>> => monitor' = "loop"
    BY DEF MonitorLists, Subscribe, MonitorReturns, engine, Typed, PlacesOK
  <2>4. main # "returned" /\ main # "attach"
    BY <2>2 DEF Started, Typed, PlacesOK
  <2> QED  BY <2>1, <2>2, <2>3, <2>4 DEF Typed, PlacesOK, Started
<1>6. HandlerOK'
  <2>1. first' = first  BY <1>2 DEF first
  <2>2. budget' \in 0..MaxTroubles
    BY MaxTroublesAssumption DEF MonitorLists, Subscribe, MonitorReturns, Fault, Trouble, Typed, HandlerOK
  <2>3. handler' = handler \/ (handler = "blocked" /\ handler' = "returned")
    BY DEF MonitorLists, Subscribe, MonitorReturns, Cancel, Wake
  <2>4. handler' = "blocked" => cancelled' = cancelled
    BY DEF MonitorLists, Subscribe, MonitorReturns, Cancel, Wake
  <2>5. signals' = signals /\ kill' = kill /\ adapt' = adapt /\ ctxDone' = ctxDone  BY <1>1
  <2> QED  BY <2>1, <2>2, <2>3, <2>4, <2>5 DEF Typed, HandlerOK, globalDone
<1>7. FlagsOK'
  <2>1. cancelled' \in BOOLEAN /\ errs' \in BOOLEAN /\ faulty' \in BOOLEAN
    BY DEF MonitorLists, Subscribe, MonitorReturns, Cancel, Fault, Typed, FlagsOK
  <2> QED  BY <1>1, <1>2, <2>1 DEF Typed, FlagsOK
<1> QED  BY <1>3, <1>4, <1>5, <1>6, <1>7 DEF Typed

\* The head of the events and what is left of them.
LEMMA Heard ==
  ASSUME Typed, events # <<>>
  PROVE  /\ Head(events) \in Event
         /\ Head(events) = events[1] /\ Len(events) \in Nat \ {0}
         /\ Tail(events) \in Seq(Event)
         /\ Len(Tail(events)) = Len(events) - 1
         /\ \A i \in 1..Len(Tail(events)) : Tail(events)[i] = events[i + 1]
  BY DEF Typed, EngineOK

LEMMA MonitorHearsTyped ==
  ASSUME Typed, MonitorHears
  PROVE  Typed'
<1> DEFINE e == Head(events)
<1>1. UNCHANGED <<st, silent, passed, revived, firstCode, options, ctxDone, adapt, signals, menu, kill, mains, err, restarted>>
  BY DEF MonitorHears, Monitor
<1>2. UNCHANGED <<handler, cancelled, monitor, errs, budget, faulty>>
  BY DEF MonitorHears
<1>0. e \in Event /\ events' \in Seq(Event)  BY Heard DEF MonitorHears
<1>3. EngineOK'
  <2>1. Event' = Event  BY <1>1 DEF Event, options
  <2>4. watched' \subseteq watches'
    <3>1. watches' = watches  BY <1>1 DEF options
    <3> QED  BY <3>1 DEF MonitorHears, Typed, EngineOK
  <2>5. \A d : Live(d)' <=> Live(d)  BY <1>1 DEF Live
  <2>6. silent' \subseteq {d \in project : ~Live(d)'}
    <3>1. silent' = silent  BY <1>1
    <3> QED  BY <2>5, <3>1 DEF Typed, EngineOK
  <2> QED  BY <1>0, <1>1, <2>1, <2>4, <2>6 DEF options, Typed, EngineOK
<1>4. PassesOK'
  <2>1. Pass \in [pc : {"going"}, todo : SUBSET project]  BY DEF Pass
  <2>2. stop' = stop \/ stop' = [stop EXCEPT !["exit"] = Pass]  BY DEF MonitorHears
  <2> QED  BY <1>1, <2>1, <2>2 DEF options, Typed, PassesOK, Passes
<1>5. PlacesOK'
  BY <1>1, <1>2 DEF MonitorHears, options, mains, Typed, PlacesOK, Started
<1>6. HandlerOK'
  <2>1. first' = first
    <3>2. stop' = stop \/ stop' = [stop EXCEPT !["exit"] = Pass]  BY DEF MonitorHears
    <3> QED  BY <3>2 DEF first, Typed, PassesOK
  <2> QED  BY <1>1, <1>2, <2>1 DEF Typed, HandlerOK, globalDone
<1>7. FlagsOK'
  <2>1. captured' \in BOOLEAN  BY DEF MonitorHears, IsChosen, Typed, FlagsOK
  <2> QED  BY <1>1, <1>2, <2>1 DEF Typed, FlagsOK
<1> QED  BY <1>3, <1>4, <1>5, <1>6, <1>7 DEF Typed

\* The main goroutine, except that it starts containers.
LEMMA MainTyped ==
  ASSUME Typed, Attach \/ StartLists \/ StartReturns \/ Check \/ Return
  PROVE  Typed'
<1>1. UNCHANGED <<st, events, silent, revived, firstCode, options, ctxDone, adapt, signals, menu, passes, watched, captured, exitCode, errs, restarted>>
  BY DEF Attach, StartLists, StartReturns, Check, Return, Main, engine
<1>2. passed' \subseteq project
  BY DEF Attach, StartLists, StartReturns, Check, Return, engine, Typed, EngineOK
<1>3. EngineOK'
  <2>1. Event' = Event  BY <1>1 DEF Event, options
  <2>2. events' \in Seq(Event')  BY <1>1, <2>1 DEF Typed, EngineOK
  <2>5. \A d : Live(d)' <=> Live(d)  BY <1>1 DEF Live
  <2>6. silent' \subseteq {d \in project : ~Live(d)'}
    <3>1. silent' = silent  BY <1>1
    <3> QED  BY <2>5, <3>1 DEF Typed, EngineOK
  <2> QED  BY <1>1, <1>2, <2>2, <2>6 DEF options, Typed, EngineOK
<1>4. PassesOK'  BY <1>1 DEF options, passes, Typed, PassesOK, Passes
<1>5. PlacesOK'
  <2>1. project' = project /\ events' = events  BY <1>1 DEF options
  <2>2. CASE Attach
    BY <2>1, <2>2 DEF Attach, Typed, PlacesOK, Started
  <2>3. CASE StartLists
    BY <2>1, <2>3 DEF StartLists, Typed, PlacesOK, Started
  <2>4. CASE StartReturns
    BY <2>1, <2>4 DEF StartReturns, Typed, PlacesOK, Started
  <2>5. CASE Check
    BY <2>1, <2>5 DEF Check, Typed, PlacesOK, Started
  <2>6. CASE Return
    BY <2>1, <2>6 DEF Return, GroupEmpty, Typed, PlacesOK, Started
  <2> QED  BY <2>2, <2>3, <2>4, <2>5, <2>6
<1>6. HandlerOK'
  <2>1. first' = first /\ kill' = kill  BY <1>1 DEF first, passes
  <2>2. budget' \in 0..MaxTroubles
    BY MaxTroublesAssumption DEF Attach, StartLists, StartReturns, Check, Return, Fault, Trouble, Typed, HandlerOK
  <2>3. handler' = handler \/ (handler = "blocked" /\ handler' = "returned")
    BY DEF Attach, StartLists, StartReturns, Check, Return, Cancel, Wake
  <2>4. handler' = "blocked" => cancelled' = cancelled
    BY DEF Attach, StartLists, StartReturns, Check, Return, Cancel, Wake
  <2>5. signals' = signals /\ adapt' = adapt /\ ctxDone' = ctxDone  BY <1>1
  <2> QED  BY <2>1, <2>2, <2>3, <2>4, <2>5 DEF Typed, HandlerOK, globalDone
<1>7. FlagsOK'
  <2>1. cancelled' \in BOOLEAN /\ err' \in BOOLEAN /\ faulty' \in BOOLEAN
    BY DEF Attach, StartLists, StartReturns, Check, Return, Cancel, Fault, Typed, FlagsOK
  <2> QED  BY <1>1, <2>1 DEF Typed, FlagsOK
<1> QED  BY <1>3, <1>4, <1>5, <1>6, <1>7 DEF Typed

LEMMA TypedStep == Typed /\ [Next]_vars => Typed'
<1> SUFFICES ASSUME Typed, [Next]_vars  PROVE Typed'  OBVIOUS
<1>1. CASE \E c \in project :
             \/ Exit(c) \/ PolicyRestarts(c) \/ OthersStart(c)
             \/ StartContainer(c) \/ KillContainer(c)
  BY <1>1, ExitTyped, PolicyRestartsTyped, OthersStartTyped, StartContainerTyped, KillContainerTyped
<1>2. CASE \E k \in {"signal", "exit"}, c \in project : StopContainer(k, c)
  BY <1>2, StopContainerTyped
<1>3. CASE \E k \in {"signal", "exit"} : StopReturns(k)
  BY <1>3, StopReturnsTyped
<1>4. CASE KillReturns  BY <1>4, KillReturnsTyped
<1>5. CASE Signal \/ AdaptCmd \/ Select \/ HandleKeyEvents  BY <1>5, HandlingTyped
<1>6. CASE GracefulTeardown \/ SecondSignal  BY <1>6, TeardownTyped
<1>7. CASE MonitorLists \/ Subscribe \/ MonitorReturns  BY <1>7, MonitorTyped
<1>8. CASE MonitorHears  BY <1>8, MonitorHearsTyped
<1>9. CASE Attach \/ StartLists \/ StartReturns \/ Check \/ Return  BY <1>9, MainTyped
<1>10. CASE UNCHANGED vars
  <2>1. UNCHANGED <<engine, options, watched>>  BY <1>10 DEF vars, watching
  <2>2. EngineOK'  BY <2>1, EngineSame DEF Typed
  <2>3. HandlerOK'  BY <1>10 DEF vars, contexts, handling, passes, bounds, Typed, HandlerOK, globalDone, first
  <2>4. PassesOK'  BY <1>10 DEF vars, options, passes, Typed, PassesOK, Passes
  <2>5. PlacesOK'  BY <1>10 DEF vars, engine, options, watching, mains, Typed, PlacesOK, Started
  <2>6. FlagsOK'  BY <1>10 DEF vars, contexts, handling, watching, outcome, bounds, Typed, FlagsOK
  <2> QED  BY <2>2, <2>3, <2>4, <2>5, <2>6 DEF Typed
<1> QED  BY <1>1, <1>2, <1>3, <1>4, <1>5, <1>6, <1>7, <1>8, <1>9, <1>10 DEF Next

LEMMA TypedTypeOK == Typed => TypeOK
<1> SUFFICES ASSUME Typed  PROVE TypeOK  OBVIOUS
<1>1. \A pass \in Passes : pass \in {None, Done} \/ (pass.pc = "going" /\ pass.todo \subseteq project)
  BY DEF Passes
<1>2. \A pass \in {stop["signal"], stop["exit"], kill} : pass \in Passes
  BY DEF Typed, PassesOK
<1>3. \A pass \in {stop["signal"], stop["exit"], kill} :
        pass \in {None, Done} \/ (pass.pc = "going" /\ pass.todo \subseteq project)
  BY <1>1, <1>2
<1>4. {err, errs, captured, menu, ctxDone, cancelled, restarted, faulty} \subseteq BOOLEAN
  BY DEF Typed, FlagsOK
<1>5. watched \subseteq watches /\ passed \cup revived \subseteq project
  BY DEF Typed, EngineOK
<1>6. st \in [project -> {"created", "running", "restarting", "exited"}] /\ silent \subseteq {c \in project : ~Live(c)}
  BY DEF Typed, EngineOK
<1>7. firstCode \in ExitCodes \cup StopCodes \cup {-1}
  BY DEF Typed, EngineOK
<1> QED  BY <1>3, <1>4, <1>5, <1>6, <1>7 DEF TypeOK, Typed, HandlerOK, PlacesOK

----------------------------------------------------------------------------
(* What is said when an event is sent, and when one is read.               *)

LEMMA Sent ==
  ASSUME Typed, NEW c \in project, NEW action \in {"start", "die"}, NEW code \in Codes,
         Tell(c, action, code), monitor = "loop"
  PROVE  LET e == [c |-> c, action |-> action, code |-> code] IN
           /\ Len(events') = Len(events) + 1 /\ Len(events) \in Nat
           /\ \A i \in 1..Len(events) : events'[i] = events[i]
           /\ events'[Len(events) + 1] = e
<1> DEFINE e == [c |-> c, action |-> action, code |-> code]
<1>1. events' = Append(events, e)  BY DEF Tell, Told
<1>2. events \in Seq(Event)  BY DEF Typed, EngineOK
<1> HIDE DEF e
<1>3. /\ Len(events') = Len(events) + 1 /\ Len(events) \in Nat
      /\ \A i \in 1..Len(events) : events'[i] = events[i]
      /\ events'[Len(events) + 1] = e
  BY <1>1, <1>2
<1> QED  BY <1>3 DEF e

LEMMA SentSays ==
  ASSUME Typed, NEW c \in project, NEW action \in {"start", "die"}, NEW code \in Codes,
         Tell(c, action, code), monitor = "loop", NEW d, NEW a
  PROVE  Says(events', d, a) <=> Says(events, d, a) \/ (d = c /\ a = action)
<1>1. /\ Len(events') = Len(events) + 1 /\ Len(events) \in Nat
      /\ \A i \in 1..Len(events) : events'[i] = events[i]
      /\ events'[Len(events) + 1] = [c |-> c, action |-> action, code |-> code]
  BY Sent
<1>2. \A i \in 1..Len(events') : i \in 1..Len(events) \/ i = Len(events) + 1
  BY <1>1
<1>3. ASSUME Says(events', d, a)  PROVE Says(events, d, a) \/ (d = c /\ a = action)
  BY <1>1, <1>2, <1>3 DEF Says
<1>4. ASSUME Says(events, d, a)  PROVE Says(events', d, a)
  BY <1>1, <1>4 DEF Says
<1>5. ASSUME d = c, a = action  PROVE Says(events', d, a)
  <2>1. Len(events) + 1 \in 1..Len(events')  BY <1>1
  <2> QED  BY <1>1, <1>5, <2>1 DEF Says
<1> QED  BY <1>3, <1>4, <1>5

LEMMA SentEndsIn ==
  ASSUME Typed, NEW c \in project, NEW action \in {"start", "die"}, NEW code \in Codes,
         Tell(c, action, code), monitor = "loop", NEW d, d # c => EndsIn(events, d), d = c => action = "die"
  PROVE  EndsIn(events', d)
<1>1. /\ Len(events') = Len(events) + 1 /\ Len(events) \in Nat
      /\ \A i \in 1..Len(events) : events'[i] = events[i]
      /\ events'[Len(events) + 1] = [c |-> c, action |-> action, code |-> code]
  BY Sent
<1>2. \A i \in 1..Len(events') : i \in 1..Len(events) \/ i = Len(events) + 1
  BY <1>1
<1>3. CASE d = c
  <2>1. Len(events) + 1 \in 1..Len(events')  BY <1>1
  <2>2. \A j \in 1..Len(events) : j < Len(events) + 1  BY <1>1
  <2> QED  BY <1>1, <1>2, <1>3, <2>1, <2>2 DEF EndsIn
<1>4. CASE d # c
  <2>1. PICK i \in 1..Len(events) :
          /\ events[i].c = d /\ events[i].action = "die"
          /\ \A j \in 1..Len(events) : events[j].c = d /\ events[j].action = "start" => j < i
    BY <1>4 DEF EndsIn
  <2>2. i \in 1..Len(events')  BY <1>1
  <2>3. \A j \in 1..Len(events') : events'[j].c = d /\ events'[j].action = "start" => j < i
    BY <1>1, <1>2, <1>4, <2>1
  <2> QED  BY <1>1, <2>1, <2>2, <2>3 DEF EndsIn
<1> QED  BY <1>3, <1>4

LEMMA SentFirstEnd ==
  ASSUME Typed, NEW c \in project, NEW action \in {"start", "die"}, NEW code \in Codes,
         Tell(c, action, code), monitor = "loop", NEW d, NEW first_code,
         \/ FirstEnd(events, d, first_code)
         \/ ~Says(events, d, "die") /\ d = c /\ action = "die" /\ first_code = code
  PROVE  FirstEnd(events', d, first_code)
<1>1. /\ Len(events') = Len(events) + 1 /\ Len(events) \in Nat
      /\ \A i \in 1..Len(events) : events'[i] = events[i]
      /\ events'[Len(events) + 1] = [c |-> c, action |-> action, code |-> code]
  BY Sent
<1>2. \A i \in 1..Len(events') : i \in 1..Len(events) \/ i = Len(events) + 1
  BY <1>1
<1>3. CASE FirstEnd(events, d, first_code)
  <2>1. PICK i \in 1..Len(events) :
          /\ events[i].c = d /\ events[i].action = "die" /\ events[i].code = first_code
          /\ \A j \in 1..Len(events) : events[j].c = d /\ events[j].action = "die" => i <= j
    BY <1>3 DEF FirstEnd
  <2>2. i \in 1..Len(events') /\ i <= Len(events) + 1  BY <1>1
  <2>3. \A j \in 1..Len(events') : events'[j].c = d /\ events'[j].action = "die" => i <= j
    BY <1>1, <1>2, <2>1, <2>2
  <2> QED  BY <1>1, <2>1, <2>2, <2>3 DEF FirstEnd
<1>4. CASE ~Says(events, d, "die") /\ d = c /\ action = "die" /\ first_code = code
  <2> DEFINE i == Len(events) + 1
  <2>1. i \in 1..Len(events') /\ i <= i  BY <1>1
  <2>2. \A j \in 1..Len(events) : ~(events'[j].c = d /\ events'[j].action = "die")
    BY <1>1, <1>4 DEF Says
  <2>3. \A j \in 1..Len(events') : events'[j].c = d /\ events'[j].action = "die" => i <= j
    BY <1>2, <2>1, <2>2
  <2>4. events'[i].c = d /\ events'[i].action = "die" /\ events'[i].code = first_code
    BY <1>1, <1>4
  <2> QED  BY <2>1, <2>3, <2>4 DEF FirstEnd
<1> QED  BY <1>3, <1>4

LEMMA ReadSays ==
  ASSUME Typed, events # <<>>, NEW d, NEW a
  PROVE  Says(events, d, a) <=> Says(Tail(events), d, a) \/ (Head(events).c = d /\ Head(events).action = a)
<1>1. /\ Head(events) = events[1] /\ Len(events) \in Nat \ {0}
      /\ Len(Tail(events)) = Len(events) - 1
      /\ \A i \in 1..Len(Tail(events)) : Tail(events)[i] = events[i + 1]
  BY Heard
<1>2. \A i \in 1..Len(events) : i = 1 \/ (i - 1 \in 1..Len(Tail(events)) /\ Tail(events)[i - 1] = events[i])
  BY <1>1
<1>3. \A i \in 1..Len(Tail(events)) : i + 1 \in 1..Len(events) /\ Tail(events)[i] = events[i + 1]
  BY <1>1
<1>4. 1 \in 1..Len(events)  BY <1>1
<1> QED  BY <1>1, <1>2, <1>3, <1>4 DEF Says

LEMMA ReadEndsIn ==
  ASSUME Typed, events # <<>>, NEW d, EndsIn(events, d),
         \/ Head(events).c # d
         \/ Head(events).action = "start"
         \/ Says(Tail(events), d, "start")
  PROVE  EndsIn(Tail(events), d)
<1>1. /\ Head(events) = events[1] /\ Len(events) \in Nat \ {0}
      /\ Len(Tail(events)) = Len(events) - 1
      /\ \A i \in 1..Len(Tail(events)) : Tail(events)[i] = events[i + 1]
  BY Heard
<1>2. PICK i \in 1..Len(events) :
        /\ events[i].c = d /\ events[i].action = "die"
        /\ \A j \in 1..Len(events) : events[j].c = d /\ events[j].action = "start" => j < i
  BY DEF EndsIn
<1>3. i # 1
  <2>1. CASE Says(Tail(events), d, "start")
    <3>1. PICK j \in 1..Len(Tail(events)) : Tail(events)[j].c = d /\ Tail(events)[j].action = "start"
      BY <2>1 DEF Says
    <3>2. j + 1 \in 1..Len(events) /\ events[j + 1] = Tail(events)[j]  BY <1>1
    <3>3. j + 1 < i  BY <1>2, <3>1, <3>2
    <3> QED  BY <3>3
  <2> QED  BY <1>1, <1>2, <2>1
<1>4. i - 1 \in 1..Len(Tail(events)) /\ Tail(events)[i - 1] = events[i]  BY <1>1, <1>3
<1>5. \A j \in 1..Len(Tail(events)) : Tail(events)[j].c = d /\ Tail(events)[j].action = "start" => j < i - 1
  <2> SUFFICES ASSUME NEW j \in 1..Len(Tail(events)), Tail(events)[j].c = d, Tail(events)[j].action = "start"
               PROVE  j < i - 1
    OBVIOUS
  <2>1. j + 1 \in 1..Len(events) /\ events[j + 1] = Tail(events)[j]  BY <1>1
  <2>2. j + 1 < i  BY <1>2, <2>1
  <2> QED  BY <2>2
<1> QED  BY <1>2, <1>4, <1>5 DEF EndsIn

LEMMA ReadFirstEnd ==
  ASSUME Typed, events # <<>>, NEW d, NEW code, FirstEnd(events, d, code)
  PROVE  IF Head(events).c = d /\ Head(events).action = "die" THEN Head(events).code = code
                                                             ELSE FirstEnd(Tail(events), d, code)
<1>1. /\ Head(events) = events[1] /\ Len(events) \in Nat \ {0}
      /\ Len(Tail(events)) = Len(events) - 1
      /\ \A i \in 1..Len(Tail(events)) : Tail(events)[i] = events[i + 1]
  BY Heard
<1>2. PICK i \in 1..Len(events) :
        /\ events[i].c = d /\ events[i].action = "die" /\ events[i].code = code
        /\ \A j \in 1..Len(events) : events[j].c = d /\ events[j].action = "die" => i <= j
  BY DEF FirstEnd
<1>3. CASE Head(events).c = d /\ Head(events).action = "die"
  <2>1. i <= 1  BY <1>1, <1>2, <1>3
  <2>2. i = 1  BY <2>1
  <2> QED  BY <1>1, <1>2, <1>3, <2>2
<1>4. CASE ~(Head(events).c = d /\ Head(events).action = "die")
  <2>1. i # 1  BY <1>1, <1>2, <1>4
  <2>2. i - 1 \in 1..Len(Tail(events)) /\ Tail(events)[i - 1] = events[i]  BY <1>1, <2>1
  <2>3. \A j \in 1..Len(Tail(events)) : Tail(events)[j].c = d /\ Tail(events)[j].action = "die" => i - 1 <= j
    <3> SUFFICES ASSUME NEW j \in 1..Len(Tail(events)), Tail(events)[j].c = d, Tail(events)[j].action = "die"
                 PROVE  i - 1 <= j
      OBVIOUS
    <3>1. j + 1 \in 1..Len(events) /\ events[j + 1] = Tail(events)[j]  BY <1>1
    <3>2. i <= j + 1  BY <1>2, <3>1
    <3> QED  BY <3>2
  <2> QED  BY <1>2, <1>4, <2>2, <2>3 DEF FirstEnd
<1> QED  BY <1>3, <1>4

----------------------------------------------------------------------------
(* The monitor watches what runs.                                          *)

LEMMA FollowsSame ==
  ASSUME Follows, UNCHANGED <<st, events, silent, options, monitor, watched>>
  PROVE  Follows'
<1>1. \A d : (Live(d)' <=> Live(d)) BY DEF Live
<1>2. \A d, a : (Says(events', d, a) <=> Says(events, d, a)) /\ (EndsIn(events', d) <=> EndsIn(events, d))
  OBVIOUS
<1>3. Unheard'  BY <1>1 DEF Follows, Unheard, options
<1>4. WatchedAll'  BY DEF Follows, WatchedAll, options
<1>5. RunsAreWatched'  BY <1>1, <1>2 DEF Follows, RunsAreWatched, options
<1>6. EndsAreTold'  BY <1>1, <1>2 DEF Follows, EndsAreTold, options
<1> QED  BY <1>3, <1>4, <1>5, <1>6 DEF Follows

LEMMA StartsFollows ==
  ASSUME Typed, Follows, NEW c \in project, Starts(c), UNCHANGED <<options, monitor, watched>>
  PROVE  Follows'
<1>1. Live(c)' /\ \A d \in project \ {c} : (Live(d)' <=> Live(d)) /\ (d \in silent' <=> d \in silent)
  BY DEF Starts, Live, Typed, EngineOK
<1>2. 0 \in Codes  BY DEF Codes
<1>3. Unheard'  BY <1>1 DEF Follows, Unheard, options
<1>4. WatchedAll'  BY DEF Follows, WatchedAll, options
<1>5. monitor = "loop" => \A d, a : Says(events', d, a) <=> Says(events, d, a) \/ (d = c /\ a = "start")
  BY <1>2, SentSays DEF Starts
<1>6. monitor = "loop" => \A d : d # c /\ EndsIn(events, d) => EndsIn(events', d)
  BY <1>2, SentEndsIn DEF Starts
<1>7. watches' = watches /\ watched' = watched /\ monitor' = monitor /\ watches \subseteq project
  BY DEF options, Typed, EngineOK
<1>8. RunsAreWatched'
  BY <1>1, <1>5, <1>7 DEF Follows, RunsAreWatched
<1>9. EndsAreTold'
  <2> SUFFICES ASSUME monitor = "loop", NEW d \in watches, ~Live(d)', d \notin silent',
                      d \in watched \/ Says(events', d, "start")
               PROVE  EndsIn(events', d)
    BY <1>7 DEF EndsAreTold
  <2>1. d # c  BY <1>1
  <2>2. d \in watched \/ Says(events, d, "start")  BY <1>5, <2>1
  <2>3. EndsIn(events, d)  BY <1>1, <1>7, <2>1, <2>2 DEF Follows, EndsAreTold
  <2> QED  BY <1>6, <2>1, <2>3
<1> QED  BY <1>3, <1>4, <1>8, <1>9 DEF Follows

LEMMA EndsFollows ==
  ASSUME Typed, Follows, NEW c \in project, NEW code \in ExitCodes \cup StopCodes,
         NEW to \in {"exited", "restarting"}, Live(c), Ends(c, code, to), UNCHANGED <<options, monitor, watched>>
  PROVE  Follows'
<1>1. \A d \in project \ {c} : (Live(d)' <=> Live(d)) /\ (d \in silent' <=> d \in silent)
  BY DEF Ends, Live, Typed, EngineOK
<1>2. code \in Codes  BY DEF Codes
<1>7. watches' = watches /\ watched' = watched /\ monitor' = monitor /\ watches \subseteq project /\ project' = project
  BY DEF options, Typed, EngineOK
<1>3. Unheard'
  <2> SUFFICES ASSUME monitor \in {"none", "list", "subscribe"}, NEW d \in project
               PROVE  Live(d)' \/ d \in silent'
    BY <1>7 DEF Unheard
  <2>1. CASE d = c
    BY <2>1 DEF Ends, Told, Live, Typed, EngineOK
  <2>2. CASE d # c
    BY <1>1, <2>2 DEF Follows, Unheard
  <2> QED  BY <2>1, <2>2
<1>4. WatchedAll'  BY <1>7 DEF Follows, WatchedAll
<1>5. monitor = "loop" => \A d, a : Says(events', d, a) <=> Says(events, d, a) \/ (d = c /\ a = "die")
  BY <1>2, SentSays DEF Ends
<1>6. monitor = "loop" => \A d : d = c \/ EndsIn(events, d) => EndsIn(events', d)
  BY <1>2, SentEndsIn DEF Ends
<1>8. RunsAreWatched'
  BY <1>1, <1>5, <1>7 DEF Follows, RunsAreWatched
<1>9. EndsAreTold'
  <2> SUFFICES ASSUME monitor = "loop", NEW d \in watches, ~Live(d)', d \notin silent',
                      d \in watched \/ Says(events', d, "start")
               PROVE  EndsIn(events', d)
    BY <1>7 DEF EndsAreTold
  <2>2. CASE d # c
    <3>1. d \in watched \/ Says(events, d, "start")  BY <1>5, <2>2
    <3>2. EndsIn(events, d)  BY <1>1, <1>7, <2>2, <3>1 DEF Follows, EndsAreTold
    <3> QED  BY <1>6, <3>2
  <2> QED  BY <1>6, <2>2
<1> QED  BY <1>3, <1>4, <1>8, <1>9 DEF Follows

\* A container between two runs is stopped without an event.
Unrestarts(c) ==
  /\ st[c] = "restarting"
  /\ st' = [st EXCEPT ![c] = "exited"]
  /\ silent' = silent \cup {c}
  /\ PassedBy(c)
  /\ UNCHANGED <<events, revived, firstCode>>

LEMMA HaltsCases ==
  ASSUME NEW c, Halts(c)
  PROVE  \/ ~Live(c) /\ PassedBy(c) /\ UNCHANGED <<st, events, silent, revived, firstCode>>
         \/ Live(c) /\ \E code \in ExitCodes \cup StopCodes : Ends(c, code, "exited")
         \/ Unrestarts(c)
  BY DEF Halts, Unrestarts

LEMMA HaltsFollows ==
  ASSUME Typed, Follows, NEW c \in project, Halts(c), UNCHANGED <<options, monitor, watched>>
  PROVE  Follows'
<1>1. CASE UNCHANGED <<st, events, silent>>
  BY <1>1, FollowsSame
<1>2. CASE Live(c) /\ \E code \in ExitCodes \cup StopCodes : Ends(c, code, "exited")
  BY <1>2, EndsFollows
<1>3. CASE Unrestarts(c)
  <2>1. \A d \in project \ {c} : (Live(d)' <=> Live(d)) /\ (d \in silent' <=> d \in silent)
    BY <1>3 DEF Unrestarts, Live, Typed, EngineOK
  <2>2. ~Live(c)' /\ c \in silent'
    BY <1>3 DEF Unrestarts, Live, Typed, EngineOK
  <2>3. watches' = watches /\ watched' = watched /\ monitor' = monitor /\ watches \subseteq project /\ project' = project
    BY DEF options, Typed, EngineOK
  <2>4. events' = events  BY <1>3 DEF Unrestarts
  <2>5. Unheard'  BY <2>1, <2>2, <2>3 DEF Follows, Unheard
  <2>6. WatchedAll'  BY <2>3 DEF Follows, WatchedAll
  <2>7. RunsAreWatched'  BY <2>1, <2>2, <2>3, <2>4 DEF Follows, RunsAreWatched
  <2>8. EndsAreTold'  BY <2>1, <2>2, <2>3, <2>4 DEF Follows, EndsAreTold
  <2> QED  BY <2>5, <2>6, <2>7, <2>8 DEF Follows
<1> QED  BY <1>1, <1>2, <1>3, HaltsCases

LEMMA MonitorFollowsThem ==
  ASSUME Typed, Follows, MonitorLists \/ Subscribe \/ MonitorReturns
  PROVE  Follows'
<1>1. st' = st /\ silent' = silent /\ project' = project /\ watches' = watches
  BY DEF MonitorLists, Subscribe, MonitorReturns, Monitor, engine, options
<1>2. \A d : Live(d)' <=> Live(d)  BY <1>1 DEF Live
<1>3. CASE MonitorLists
  <2>1. monitor' = "subscribe" /\ watched' = watches /\ monitor = "list"  BY <1>3 DEF MonitorLists
  <2> QED  BY <1>1, <1>2, <2>1 DEF Follows, Unheard, WatchedAll, RunsAreWatched, EndsAreTold
<1>4. CASE Subscribe
  <2>1. monitor' = "loop" /\ watched' = watched /\ monitor = "subscribe"  BY <1>4 DEF Subscribe
  <2>2. watched' = watches'  BY <1>1, <2>1 DEF Follows, WatchedAll
  <2>3. watches \subseteq project  BY DEF Typed, EngineOK
  <2>4. \A d \in watches : Live(d) \/ d \in silent  BY <2>1, <2>3 DEF Follows, Unheard
  <2>5. RunsAreWatched'  BY <2>2 DEF RunsAreWatched
  <2>6. EndsAreTold'  BY <1>1, <1>2, <2>4 DEF EndsAreTold
  <2> QED  BY <2>1, <2>5, <2>6 DEF Follows, Unheard, WatchedAll
<1>5. CASE MonitorReturns
  <2>1. monitor' \in {"over", "returned"}  BY <1>5 DEF MonitorReturns
  <2> QED  BY <2>1 DEF Follows, Unheard, WatchedAll, RunsAreWatched, EndsAreTold
<1> QED  BY <1>3, <1>4, <1>5

LEMMA MonitorHearsFollows ==
  ASSUME Typed, Follows, MonitorHears
  PROVE  Follows'
<1> DEFINE e == Head(events)
<1>1. /\ st' = st /\ silent' = silent /\ project' = project /\ watches' = watches
      /\ monitor = "loop" /\ monitor' = "loop" /\ events # <<>> /\ events' = Tail(events)
  BY DEF MonitorHears, Monitor, options
<1>2. \A d : Live(d)' <=> Live(d)  BY <1>1 DEF Live
<1>3. e \in Event  BY <1>1, Heard
<1>4. \A d, a : Says(events, d, a) <=> Says(events', d, a) \/ (e.c = d /\ e.action = a)
  BY <1>1, ReadSays
<1>5. \A d : /\ EndsIn(events, d)
             /\ e.c # d \/ e.action = "start" \/ Says(events', d, "start")
             => EndsIn(events', d)
  BY <1>1, ReadEndsIn
<1>6. watched' = IF e.c \notin watches THEN watched
                 ELSE IF e.action = "start" THEN watched \cup {e.c}
                 ELSE IF Ended(e) THEN watched \ {e.c} ELSE watched
  BY DEF MonitorHears
<1>7. e.action = "die" => (Ended(e) <=> ~Live(e.c))  BY DEF Ended
<1>8. e.action \in {"start", "die"} /\ e.c \in project  BY <1>3 DEF Event
<1> HIDE DEF e
<1>9. RunsAreWatched'
  <2> SUFFICES ASSUME NEW d \in watches, Live(d)  PROVE d \in watched' \/ Says(events', d, "start")
    BY <1>1, <1>2 DEF RunsAreWatched
  <2>1. d \in watched \/ Says(events, d, "start")  BY <1>1 DEF Follows, RunsAreWatched
  <2>2. CASE e.c = d
    BY <1>4, <1>6, <1>7, <1>8, <2>1, <2>2
  <2>3. CASE e.c # d
    BY <1>4, <1>6, <2>1, <2>3
  <2> QED  BY <2>2, <2>3
<1>10. EndsAreTold'
  <2> SUFFICES ASSUME NEW d \in watches, ~Live(d), d \notin silent, d \in watched' \/ Says(events', d, "start")
               PROVE  EndsIn(events', d)
    BY <1>1, <1>2 DEF EndsAreTold
  <2>1. d \in watched \/ Says(events, d, "start")  BY <1>4, <1>6
  <2>2. EndsIn(events, d)  BY <1>1, <2>1 DEF Follows, EndsAreTold
  <2>3. CASE e.c = d /\ e.action = "die"
    <3>1. d \notin watched'  BY <1>6, <1>7, <2>3
    <3> QED  BY <1>5, <2>2, <3>1
  <2>4. CASE ~(e.c = d /\ e.action = "die")
    BY <1>5, <1>8, <2>2, <2>4
  <2> QED  BY <2>3, <2>4
<1> QED  BY <1>1, <1>9, <1>10 DEF Follows, Unheard, WatchedAll

LEMMA FollowsStep == Typed /\ Follows /\ [Next]_vars => Follows'
<1> SUFFICES ASSUME Typed, Follows, [Next]_vars  PROVE Follows'  OBVIOUS
<1>1. ASSUME NEW c \in project, Exit(c)  PROVE Follows'
  <2>1. PICK code \in ExitCodes : Ends(c, code, "exited") \/ Ends(c, code, "restarting")  BY <1>1 DEF Exit
  <2>2. Live(c) /\ UNCHANGED <<options, monitor, watched>>  BY <1>1 DEF Exit, Live, Compose, watching
  <2> QED  BY <2>1, <2>2, EndsFollows
<1>2. ASSUME NEW c \in project, PolicyRestarts(c) \/ OthersStart(c)  PROVE Follows'
  BY <1>2, StartsFollows DEF PolicyRestarts, OthersStart, Compose, watching
<1>3. ASSUME NEW c \in project, StartContainer(c)  PROVE Follows'
  <2>1. UNCHANGED <<options, monitor, watched>>  BY <1>3 DEF StartContainer, Main
  <2>2. UNCHANGED engine \/ Starts(c)  BY <1>3 DEF StartContainer
  <2>3. UNCHANGED engine => UNCHANGED <<st, events, silent>>  BY DEF engine
  <2> QED  BY <2>1, <2>2, <2>3, FollowsSame, StartsFollows
<1>4. ASSUME NEW c \in project, KillContainer(c)  PROVE Follows'
  BY <1>4, HaltsFollows DEF KillContainer, Killer, watching
<1>5. ASSUME NEW k \in {"signal", "exit"}, NEW c \in project, StopContainer(k, c)  PROVE Follows'
  BY <1>5, HaltsFollows DEF StopContainer, Stopper, watching
<1>6. CASE MonitorLists \/ Subscribe \/ MonitorReturns  BY <1>6, MonitorFollowsThem
<1>7. CASE MonitorHears  BY <1>7, MonitorHearsFollows
<1>8. CASE Attach
  <2>1. UNCHANGED <<st, events, silent, options, watched>>  BY <1>8 DEF Attach, Main, engine
  <2>2. monitor = "none" /\ monitor' \in {"none", "list"}  BY <1>8 DEF Attach, Typed, PlacesOK
  <2>3. \A d : Live(d)' <=> Live(d)  BY <2>1 DEF Live
  <2> QED  BY <2>1, <2>2, <2>3 DEF Follows, Unheard, WatchedAll, RunsAreWatched, EndsAreTold, options
<1>9. CASE \/ \E k \in {"signal", "exit"} : StopReturns(k)
           \/ KillReturns \/ Signal \/ AdaptCmd \/ Select \/ HandleKeyEvents \/ GracefulTeardown \/ SecondSignal
  <2>1. UNCHANGED <<engine, options, watching>>
    BY <1>9 DEF StopReturns, Stopper, KillReturns, Killer, Signal, AdaptCmd, Select, HandleKeyEvents,
                GracefulTeardown, SecondSignal
  <2> QED  BY <2>1, FollowsSame DEF engine, watching
<1>10. CASE StartLists \/ StartReturns \/ Check \/ Return
  <2>1. UNCHANGED <<st, events, silent, options, watched, monitor>>
    BY <1>10 DEF StartLists, StartReturns, Check, Return, Main, engine
  <2> QED  BY <2>1, FollowsSame
<1>11. CASE UNCHANGED vars
  <2>1. UNCHANGED <<engine, options, watching>>  BY <1>11 DEF vars
  <2> QED  BY <2>1, FollowsSame DEF engine, watching
<1> QED
  BY <1>1, <1>2, <1>3, <1>4, <1>5, <1>6, <1>7, <1>8, <1>9, <1>10, <1>11 DEF Next

----------------------------------------------------------------------------
(* Containers that ended before start was over have been passed, and one   *)
(* that runs without being watched was revived.                            *)

\* Nothing else counts when no event is sent.
LEMMA Unsent ==
  ASSUME NEW c, NEW action, NEW code, Tell(c, action, code), monitor # "loop"
  PROVE  events' = events
  BY DEF Tell, Told

LEMMA PassingsSame ==
  ASSUME Passings, UNCHANGED <<st, events, options, monitor, watched>>,
         passed \subseteq passed' \/ ~StartingUp', revived \subseteq revived', StartingUp' => StartingUp
  PROVE  Passings'
<1>1. \A d : (Live(d)' <=> Live(d)) BY DEF Live
<1>2. \A d, a : Says(events', d, a) <=> Says(events, d, a)
  OBVIOUS
<1>3. EndsArePassed'  BY <1>2 DEF Passings, EndsArePassed, options
<1>4. UnwatchedIsPassed'  BY DEF Passings, UnwatchedIsPassed, options
<1>5. UnwatchedIsRevived'  BY <1>1 DEF Passings, UnwatchedIsRevived, options
<1> QED  BY <1>3, <1>4, <1>5 DEF Passings

LEMMA StartsPassings ==
  ASSUME Typed, Passings, NEW c \in project, Starts(c), UNCHANGED <<options, monitor, watched>>,
         StartingUp' <=> StartingUp, revived \subseteq revived',
         monitor = "loop" /\ c \in watches \ watched => Live(c) \/ c \in revived'
  PROVE  Passings'
<1>1. \A d \in project \ {c} : Live(d)' <=> Live(d)
  BY DEF Starts, Live, Typed, EngineOK
<1>2. 0 \in Codes  BY DEF Codes
<1>3. \A d : Says(events', d, "die") <=> Says(events, d, "die")
  <2>1. CASE monitor = "loop"
    BY <1>2, <2>1, SentSays DEF Starts
  <2>2. CASE monitor # "loop"
    <3>1. events' = events  BY <2>2, Unsent DEF Starts
    <3> QED  BY <3>1
  <2> QED  BY <2>1, <2>2
<1>4. watches' = watches /\ passed' = passed /\ watches \subseteq project
  BY DEF Starts, options, Typed, EngineOK
<1>5. EndsArePassed'  BY <1>3, <1>4 DEF Passings, EndsArePassed
<1>6. UnwatchedIsPassed'  BY <1>4 DEF Passings, UnwatchedIsPassed
<1>7. UnwatchedIsRevived'
  <2> SUFFICES ASSUME monitor = "loop", NEW d \in watches \ watched, Live(d)'  PROVE d \in revived'
    BY <1>4 DEF UnwatchedIsRevived
  <2>1. Live(d) => d \in revived  BY DEF Passings, UnwatchedIsRevived
  <2> QED  BY <1>1, <1>4, <2>1
<1> QED  BY <1>5, <1>6, <1>7 DEF Passings

LEMMA EndsPassings ==
  ASSUME Typed, Passings, NEW c \in project, NEW code \in ExitCodes \cup StopCodes,
         NEW to \in {"exited", "restarting"}, Live(c), Ends(c, code, to), UNCHANGED <<options, monitor, watched, main>>
  PROVE  Passings'
<1>1. \A d \in project \ {c} : Live(d)' <=> Live(d)
  BY DEF Ends, Live, Typed, EngineOK
<1>2. code \in Codes  BY DEF Codes
<1>3. \A d : Says(events', d, "die") => Says(events, d, "die") \/ d = c
  <2>1. CASE monitor = "loop"
    BY <1>2, <2>1, SentSays DEF Ends
  <2>2. CASE monitor # "loop"
    <3>1. events' = events  BY <2>2, Unsent DEF Ends
    <3> QED  BY <3>1
  <2> QED  BY <2>1, <2>2
<1>4. watches' = watches /\ revived' = revived /\ watches \subseteq project /\ (StartingUp' <=> StartingUp)
  BY DEF Ends, options, Typed, EngineOK, StartingUp
<1>5. StartingUp => passed' = passed \cup {c}  BY DEF Ends, PassedBy
<1>6. EndsArePassed'  BY <1>3, <1>4, <1>5 DEF Passings, EndsArePassed
<1>7. UnwatchedIsPassed'  BY <1>4, <1>5 DEF Passings, UnwatchedIsPassed
<1>8. UnwatchedIsRevived'
  BY <1>1, <1>4 DEF Passings, UnwatchedIsRevived
<1> QED  BY <1>6, <1>7, <1>8 DEF Passings

LEMMA HaltsPassings ==
  ASSUME Typed, Passings, NEW c \in project, Halts(c), UNCHANGED <<options, monitor, watched, main>>
  PROVE  Passings'
<1>0. StartingUp' <=> StartingUp  BY DEF StartingUp
<1>1. CASE PassedBy(c) /\ UNCHANGED <<st, events, silent, revived, firstCode>>
  <2>1. passed \subseteq passed'  BY <1>1 DEF PassedBy
  <2> QED  BY <1>0, <1>1, <2>1, PassingsSame
<1>2. CASE Live(c) /\ \E code \in ExitCodes \cup StopCodes : Ends(c, code, "exited")
  BY <1>2, EndsPassings
<1>3. CASE Unrestarts(c)
  <2>1. \A d \in project : Live(d)' => Live(d)
    BY <1>3 DEF Unrestarts, Live, Typed, EngineOK
  <2>2. watches' = watches /\ watches \subseteq project  BY DEF options, Typed, EngineOK
  <2>3. events' = events /\ revived' = revived  BY <1>3 DEF Unrestarts
  <2>4. passed \subseteq passed'  BY <1>3 DEF Unrestarts, PassedBy
  <2>5. EndsArePassed'  BY <1>0, <2>2, <2>3, <2>4 DEF Passings, EndsArePassed
  <2>6. UnwatchedIsPassed'  BY <1>0, <2>2, <2>4 DEF Passings, UnwatchedIsPassed
  <2>7. UnwatchedIsRevived'  BY <2>1, <2>2, <2>3 DEF Passings, UnwatchedIsRevived
  <2> QED  BY <2>5, <2>6, <2>7 DEF Passings
<1> QED  BY <1>1, <1>2, <1>3, HaltsCases

LEMMA MonitorPassings ==
  ASSUME Typed, Follows, Passings, MonitorLists \/ Subscribe \/ MonitorReturns
  PROVE  Passings'
<1>1. UNCHANGED <<st, passed, revived, options, main>>
  BY DEF MonitorLists, Subscribe, MonitorReturns, Monitor, engine, mains
<1>2. \A d : (Live(d)' <=> Live(d)) /\ (StartingUp' <=> StartingUp)  BY <1>1 DEF Live, StartingUp
<1>3. \A d : ~Says(<<>>, d, "die")  BY DEF Says
<1>4. EndsArePassed'
  <2>1. events' = events \/ events' = <<>>  BY DEF MonitorLists, Subscribe, MonitorReturns, engine
  <2>2. CASE events' = events
    BY <1>1, <1>2, <2>2 DEF Passings, EndsArePassed, options
  <2>3. CASE events' = <<>>
    BY <1>3, <2>3 DEF EndsArePassed
  <2> QED  BY <2>1, <2>2, <2>3
<1>5. monitor' = "loop" => watches' \ watched' = {}
  <2>1. monitor' = "loop" => Subscribe  BY DEF MonitorLists, Subscribe, MonitorReturns
  <2>2. Subscribe => watched' = watches /\ watches' = watches
    BY DEF Subscribe, Follows, WatchedAll, Monitor, options
  <2> QED  BY <2>1, <2>2
<1> QED  BY <1>4, <1>5 DEF Passings, UnwatchedIsPassed, UnwatchedIsRevived

\* What hearing of an event does to what is watched.
LEMMA Hears ==
  ASSUME Typed, MonitorHears
  PROVE  LET e == Head(events) IN
           /\ e \in Event /\ e.c \in project /\ e.action \in {"start", "die"}
           /\ monitor = "loop" /\ monitor' = "loop" /\ events # <<>> /\ events' = Tail(events)
           /\ \A d : d \in watched \ watched' => d = e.c /\ e.action = "die" /\ ~Live(d)
           /\ UNCHANGED <<st, silent, passed, revived, firstCode, options, kill, main, faulty, result>>
<1> DEFINE e == Head(events)
<1>1. /\ UNCHANGED <<st, silent, passed, revived, firstCode, options, kill, main, faulty, result>>
      /\ monitor = "loop" /\ monitor' = "loop" /\ events # <<>> /\ events' = Tail(events)
  BY DEF MonitorHears, Monitor, mains
<1>2. e \in Event  BY <1>1, Heard
<1>3. e.action \in {"start", "die"} /\ e.c \in project  BY <1>2 DEF Event
<1>4. \A d : d \in watched \ watched' => d = e.c /\ e.action = "die" /\ ~Live(d)
  <2>1. \/ watched' = watched
        \/ watched' = watched \cup {e.c}
        \/ Ended(e) /\ watched' = watched \ {e.c}
    BY DEF MonitorHears
  <2>2. Ended(e) => e.action = "die" /\ ~Live(e.c)  BY DEF Ended
  <2> HIDE DEF e
  <2> QED  BY <2>1, <2>2
<1> QED  BY <1>1, <1>2, <1>3, <1>4

LEMMA MonitorHearsPassings ==
  ASSUME Typed, Passings, MonitorHears
  PROVE  Passings'
<1> DEFINE e == Head(events)
<1>1. /\ monitor = "loop" /\ monitor' = "loop" /\ events # <<>> /\ events' = Tail(events)
      /\ \A d : d \in watched \ watched' => d = e.c /\ e.action = "die" /\ ~Live(d)
      /\ UNCHANGED <<st, passed, revived, options, main>>
  BY Hears
<1>2. \A d : Live(d)' <=> Live(d)  BY <1>1 DEF Live
<1>3. StartingUp' <=> StartingUp  BY <1>1 DEF StartingUp
<1>4. \A d, a : Says(events, d, a) <=> Says(events', d, a) \/ (e.c = d /\ e.action = a)
  BY <1>1, ReadSays
<1> HIDE DEF e
<1>5. watches' = watches  BY <1>1 DEF options
<1>6. EndsArePassed'  BY <1>1, <1>3, <1>4, <1>5 DEF Passings, EndsArePassed
<1>7. UnwatchedIsPassed'
  <2> SUFFICES ASSUME StartingUp, NEW d \in watches \ watched'  PROVE d \in passed
    BY <1>1, <1>3, <1>5 DEF UnwatchedIsPassed
  <2>1. CASE d \in watched
    <3>1. Says(events, d, "die")  BY <1>1, <1>4, <2>1
    <3> QED  BY <3>1 DEF Passings, EndsArePassed
  <2>2. CASE d \notin watched
    BY <1>1, <2>2 DEF Passings, UnwatchedIsPassed
  <2> QED  BY <2>1, <2>2
<1>8. UnwatchedIsRevived'
  <2> SUFFICES ASSUME NEW d \in watches \ watched', Live(d)  PROVE d \in revived
    BY <1>1, <1>2, <1>5 DEF UnwatchedIsRevived
  <2>1. d \notin watched  BY <1>1
  <2> QED  BY <1>1, <2>1 DEF Passings, UnwatchedIsRevived
<1> QED  BY <1>6, <1>7, <1>8 DEF Passings

LEMMA StartContainerPassings ==
  ASSUME Typed, Passings, NEW c \in project, StartContainer(c)
  PROVE  Passings'
<1>1. UNCHANGED <<options, monitor, watched, main>> /\ main = "starting"  BY DEF StartContainer, Main
<1>2. StartingUp /\ StartingUp'  BY <1>1 DEF StartingUp
<1>3. CASE UNCHANGED engine
  BY <1>1, <1>2, <1>3, PassingsSame DEF engine
<1>4. CASE Starts(c) /\ revived' = revived \cup ({c} \cap passed)
  <2>1. monitor = "loop" /\ c \in watches \ watched => c \in revived'
    BY <1>2, <1>4 DEF Passings, UnwatchedIsPassed
  <2> QED  BY <1>1, <1>2, <1>4, <2>1, StartsPassings
<1> QED  BY <1>3, <1>4 DEF StartContainer

LEMMA PassingsStep == Typed /\ Follows /\ Passings /\ [Next]_vars => Passings'
<1> SUFFICES ASSUME Typed, Follows, Passings, [Next]_vars  PROVE Passings'  OBVIOUS
<1>1. ASSUME NEW c \in project, Exit(c)  PROVE Passings'
  <2>1. PICK code \in ExitCodes : Ends(c, code, "exited") \/ Ends(c, code, "restarting")  BY <1>1 DEF Exit
  <2>2. Live(c) /\ UNCHANGED <<options, monitor, watched, main>>
    BY <1>1 DEF Exit, Live, Compose, watching, mains
  <2> QED  BY <2>1, <2>2, EndsPassings
<1>2. ASSUME NEW c \in project, PolicyRestarts(c) \/ OthersStart(c)  PROVE Passings'
  <2>1. UNCHANGED <<options, monitor, watched, main>> /\ Starts(c)
    BY <1>2 DEF PolicyRestarts, OthersStart, Compose, watching, mains
  <2>2. revived \subseteq revived' /\ (Live(c) \/ c \in revived')
    BY <1>2 DEF PolicyRestarts, OthersStart, Live
  <2>3. StartingUp' <=> StartingUp  BY <2>1 DEF StartingUp
  <2> QED  BY <2>1, <2>2, <2>3, StartsPassings
<1>3. ASSUME NEW c \in project, StartContainer(c)  PROVE Passings'
  BY <1>3, StartContainerPassings
<1>4. ASSUME NEW c \in project, KillContainer(c)  PROVE Passings'
  BY <1>4, HaltsPassings DEF KillContainer, Killer, watching, mains
<1>5. ASSUME NEW k \in {"signal", "exit"}, NEW c \in project, StopContainer(k, c)  PROVE Passings'
  BY <1>5, HaltsPassings DEF StopContainer, Stopper, watching, mains
<1>6. CASE MonitorLists \/ Subscribe \/ MonitorReturns  BY <1>6, MonitorPassings
<1>7. CASE MonitorHears  BY <1>7, MonitorHearsPassings
<1>8. CASE Attach
  <2>1. UNCHANGED <<st, events, passed, revived, options, watched>>  BY <1>8 DEF Attach, Main, engine
  <2>2. monitor' \in {"none", "list"}  BY <1>8 DEF Attach, Typed, PlacesOK
  <2>3. StartingUp  BY <1>8 DEF Attach, StartingUp
  <2>4. EndsArePassed'  BY <2>1, <2>3 DEF Passings, EndsArePassed, options
  <2> QED  BY <2>2, <2>4 DEF Passings, UnwatchedIsPassed, UnwatchedIsRevived
<1>9. CASE \/ \E k \in {"signal", "exit"} : StopReturns(k)
           \/ KillReturns \/ Signal \/ AdaptCmd \/ Select \/ HandleKeyEvents \/ GracefulTeardown \/ SecondSignal
  <2>1. UNCHANGED <<engine, options, watching, mains>>
    BY <1>9 DEF StopReturns, Stopper, KillReturns, Killer, Signal, AdaptCmd, Select, HandleKeyEvents,
                GracefulTeardown, SecondSignal
  <2>2. StartingUp' <=> StartingUp  BY <2>1 DEF StartingUp, mains
  <2> QED  BY <2>1, <2>2, PassingsSame DEF engine, watching
<1>10. CASE StartLists \/ StartReturns \/ Check \/ Return
  <2>1. UNCHANGED <<st, events, revived, options, watched, monitor>>
    BY <1>10 DEF StartLists, StartReturns, Check, Return, Main, engine
  <2>2. (StartingUp' => StartingUp) /\ (passed \subseteq passed' \/ ~StartingUp')
    BY <1>10 DEF StartLists, StartReturns, Check, Return, StartingUp, engine
  <2> QED  BY <2>1, <2>2, PassingsSame
<1>11. CASE UNCHANGED vars
  <2>1. UNCHANGED <<engine, options, watching, mains>>  BY <1>11 DEF vars
  <2>2. StartingUp' <=> StartingUp  BY <2>1 DEF StartingUp, mains
  <2> QED  BY <2>1, <2>2, PassingsSame DEF engine, watching
<1> QED
  BY <1>1, <1>2, <1>3, <1>4, <1>5, <1>6, <1>7, <1>8, <1>9, <1>10, <1>11 DEF Next

----------------------------------------------------------------------------
(* The exit code.                                                          *)

LEMMA ChoiceSame ==
  ASSUME Choice, UNCHANGED <<options, monitor, firstCode, captured, exitCode, watched, events>>,
         onceExit' => onceExit
  PROVE  Choice'
<1> SUFFICES ASSUME Chooses  PROVE (NothingSaid /\ CapturedIsFirst /\ AwaitsFirst /\ OverWhenCaptured)'
  BY DEF Choice, Chooses, options
<1>0. exitFrom' = exitFrom  BY DEF options
<1>1. \A d, a, code : (Says(events', d, a) <=> Says(events, d, a)) /\ (FirstEnd(events', d, code) <=> FirstEnd(events, d, code))
  OBVIOUS
<1>2. NothingSaid'  BY DEF Choice, NothingSaid
<1>3. CapturedIsFirst'  BY DEF Choice, CapturedIsFirst
<1>4. AwaitsFirst'  BY <1>0, <1>1 DEF Choice, AwaitsFirst
<1>5. OverWhenCaptured'  BY DEF Choice, OverWhenCaptured
<1> QED  BY <1>2, <1>3, <1>4, <1>5

LEMMA StartsChoice ==
  ASSUME Typed, Choice, NEW c \in project, Starts(c), UNCHANGED <<options, monitor, watched, captured, exitCode, stop>>
  PROVE  Choice'
<1> SUFFICES ASSUME Chooses  PROVE (NothingSaid /\ CapturedIsFirst /\ AwaitsFirst /\ OverWhenCaptured)'
  BY DEF Choice, Chooses, options
<1>0. exitFrom' = exitFrom /\ firstCode' = firstCode /\ 0 \in Codes  BY DEF options, Starts, Codes
<1>1. onceExit' <=> onceExit  BY DEF onceExit
<1>2. NothingSaid'  BY <1>0 DEF Choice, NothingSaid
<1>3. CapturedIsFirst'  BY <1>0, <1>1 DEF Choice, CapturedIsFirst
<1>4. AwaitsFirst'
  <2> SUFFICES ASSUME ~captured, monitor = "loop"
               PROVE  /\ exitFrom \in watched
                      /\ IF firstCode = -1 THEN ~Says(events', exitFrom, "die") ELSE FirstEnd(events', exitFrom, firstCode)
    BY <1>0 DEF AwaitsFirst
  <2>1. /\ exitFrom \in watched
        /\ IF firstCode = -1 THEN ~Says(events, exitFrom, "die") ELSE FirstEnd(events, exitFrom, firstCode)
    BY DEF Choice, AwaitsFirst
  <2>2. Says(events', exitFrom, "die") <=> Says(events, exitFrom, "die")
    BY <1>0, SentSays DEF Starts
  <2>3. FirstEnd(events, exitFrom, firstCode) => FirstEnd(events', exitFrom, firstCode)
    BY <1>0, SentFirstEnd DEF Starts
  <2> QED  BY <2>1, <2>2, <2>3
<1>5. OverWhenCaptured'  BY DEF Choice, OverWhenCaptured
<1> QED  BY <1>2, <1>3, <1>4, <1>5

LEMMA EndsChoice ==
  ASSUME Typed, Choice, NEW c \in project, NEW code \in ExitCodes \cup StopCodes, NEW to, Ends(c, code, to),
         UNCHANGED <<options, monitor, watched, captured, exitCode>>, onceExit' => onceExit
  PROVE  Choice'
<1> SUFFICES ASSUME Chooses  PROVE (NothingSaid /\ CapturedIsFirst /\ AwaitsFirst /\ OverWhenCaptured)'
  BY DEF Choice, Chooses, options
<1>0. exitFrom' = exitFrom /\ code \in Codes /\ code # -1  BY CodesAssumption DEF options, Codes
<1>1. firstCode' = IF monitor = "loop" /\ c = exitFrom /\ firstCode = -1 THEN code ELSE firstCode
  BY DEF Ends, Told
<1>2. NothingSaid'  BY <1>1 DEF Choice, NothingSaid
<1>3. CapturedIsFirst'  BY <1>1 DEF Choice, CapturedIsFirst
<1>4. AwaitsFirst'
  <2> SUFFICES ASSUME ~captured, monitor = "loop"
               PROVE  /\ exitFrom \in watched
                      /\ IF firstCode' = -1 THEN ~Says(events', exitFrom, "die") ELSE FirstEnd(events', exitFrom, firstCode')
    BY <1>0 DEF AwaitsFirst
  <2>1. /\ exitFrom \in watched
        /\ IF firstCode = -1 THEN ~Says(events, exitFrom, "die") ELSE FirstEnd(events, exitFrom, firstCode)
    BY DEF Choice, AwaitsFirst
  <2>2. Tell(c, "die", code)  BY DEF Ends
  <2>3. Says(events', exitFrom, "die") <=> Says(events, exitFrom, "die") \/ exitFrom = c
    BY <1>0, <2>2, SentSays
  <2>4. FirstEnd(events, exitFrom, firstCode) => FirstEnd(events', exitFrom, firstCode)
    BY <1>0, <2>2, SentFirstEnd
  <2>5. ~Says(events, exitFrom, "die") /\ exitFrom = c => FirstEnd(events', exitFrom, code)
    BY <1>0, <2>2, SentFirstEnd
  <2> QED  BY <1>0, <1>1, <2>1, <2>3, <2>4, <2>5
<1>5. OverWhenCaptured'  BY DEF Choice, OverWhenCaptured
<1> QED  BY <1>2, <1>3, <1>4, <1>5

LEMMA HaltsChoice ==
  ASSUME Typed, Choice, NEW c \in project, Halts(c), UNCHANGED <<options, monitor, watched, captured, exitCode>>,
         onceExit' => onceExit
  PROVE  Choice'
<1>1. CASE UNCHANGED <<events, firstCode>>
  BY <1>1, ChoiceSame
<1>2. CASE \E code \in ExitCodes \cup StopCodes : Ends(c, code, "exited")
  BY <1>2, EndsChoice
<1> QED  BY <1>1, <1>2, HaltsCases DEF Unrestarts

LEMMA MonitorChoice ==
  ASSUME Typed, Follows, Choice, MonitorLists \/ Subscribe \/ MonitorReturns
  PROVE  Choice'
<1> SUFFICES ASSUME Chooses  PROVE (NothingSaid /\ CapturedIsFirst /\ AwaitsFirst /\ OverWhenCaptured)'
  BY DEF Choice, Chooses, MonitorLists, Subscribe, MonitorReturns, Monitor, options
<1>1. firstCode' = firstCode /\ captured' = captured /\ exitCode' = exitCode /\ stop' = stop /\ exitFrom' = exitFrom
  BY DEF MonitorLists, Subscribe, MonitorReturns, Monitor, engine, options
<1>2. NothingSaid'
  <2>1. monitor' \in {"none", "list", "subscribe"} => monitor \in {"none", "list", "subscribe"}
    BY DEF MonitorLists, Subscribe, MonitorReturns
  <2> QED  BY <1>1, <2>1 DEF Choice, NothingSaid
<1>3. CapturedIsFirst'  BY <1>1 DEF Choice, CapturedIsFirst, onceExit
<1>4. AwaitsFirst'
  <2> SUFFICES ASSUME monitor' = "loop", ~captured
               PROVE  exitFrom \in watched' /\ firstCode = -1 /\ ~Says(events', exitFrom, "die")
    BY <1>1 DEF AwaitsFirst
  <2>1. monitor = "subscribe" /\ watched' = watched /\ events' = events
    BY DEF MonitorLists, Subscribe, MonitorReturns, engine
  <2>2. events' = <<>>  BY <2>1 DEF Typed, PlacesOK
  <2>3. exitFrom \in watched'  BY <2>1 DEF Follows, WatchedAll, Chooses, Typed, EngineOK
  <2>4. firstCode = -1  BY <2>1 DEF Choice, NothingSaid
  <2> QED  BY <2>2, <2>3, <2>4 DEF Says
<1>5. OverWhenCaptured'
  <2> SUFFICES ASSUME monitor' = "over"  PROVE captured  BY <1>1 DEF OverWhenCaptured
  <2>1. monitor = "loop" /\ watched = {}  BY DEF MonitorLists, Subscribe, MonitorReturns
  <2> QED  BY <2>1 DEF Choice, AwaitsFirst
<1> QED  BY <1>2, <1>3, <1>4, <1>5

LEMMA MonitorHearsChoice ==
  ASSUME Typed, Choice, MonitorHears
  PROVE  Choice'
<1> DEFINE e == Head(events)
<1>1. /\ monitor = "loop" /\ monitor' = "loop" /\ events # <<>> /\ events' = Tail(events)
      /\ \A d : d \in watched \ watched' => d = e.c /\ e.action = "die" /\ ~Live(d)
      /\ UNCHANGED <<firstCode, options>>
  BY Hears
<1> SUFFICES ASSUME Chooses  PROVE (NothingSaid /\ CapturedIsFirst /\ AwaitsFirst /\ OverWhenCaptured)'
  BY <1>1 DEF Choice, Chooses, options
<1>0. exitFrom' = exitFrom /\ exitFrom \in watches /\ onExit = "stop"  BY <1>1 DEF options, Chooses, Typed, EngineOK
<1>2. Says(events, exitFrom, "die") <=> Says(events', exitFrom, "die") \/ (e.c = exitFrom /\ e.action = "die")
  BY <1>1, ReadSays
<1>3. FirstEnd(events, exitFrom, firstCode) =>
        IF e.c = exitFrom /\ e.action = "die" THEN e.code = firstCode ELSE FirstEnd(events', exitFrom, firstCode)
  BY <1>1, ReadFirstEnd
<1>4. CASE e.c \notin watches
  <2>1. captured' = captured /\ exitCode' = exitCode /\ stop' = stop /\ watched' = watched
    BY <1>4 DEF MonitorHears
  <2>2. e.c # exitFrom  BY <1>0, <1>4
  <2> HIDE DEF e
  <2>3. CapturedIsFirst'  BY <1>1, <2>1 DEF Choice, CapturedIsFirst, onceExit
  <2>4. AwaitsFirst'  BY <1>0, <1>1, <1>2, <1>3, <2>1, <2>2 DEF Choice, AwaitsFirst
  <2> QED  BY <1>1, <2>3, <2>4 DEF NothingSaid, OverWhenCaptured
<1>5. CASE e.c \in watches
  <2>1. /\ exitCode' = CodeAfter(e)
        /\ captured' = (captured \/ IsChosen(e))
        /\ stop' = IF Triggers(e) THEN [stop EXCEPT !["exit"] = Pass] ELSE stop
    BY <1>5 DEF MonitorHears
  <2> HIDE DEF e
  <2>2. Triggers(e) <=> e.action = "die" /\ onceExit  BY <1>0 DEF Triggers
  <2>3. CASE captured
    <3>1. firstCode # -1 /\ exitCode = firstCode /\ ~onceExit  BY <2>3 DEF Choice, CapturedIsFirst
    <3>2. ~Triggers(e) /\ ~IsChosen(e)  BY <2>2, <2>3, <3>1 DEF IsChosen
    <3>3. exitCode' = exitCode /\ stop' = stop /\ captured'  BY <2>1, <2>3, <3>2 DEF CodeAfter
    <3> QED  BY <1>1, <3>1, <3>3 DEF NothingSaid, OverWhenCaptured, CapturedIsFirst, AwaitsFirst, onceExit
  <2>4. CASE ~captured /\ e.action = "die" /\ e.c = exitFrom
    <3>1. IsChosen(e)  BY <2>4 DEF IsChosen
    <3>2. captured' /\ exitCode' = e.code  BY <2>1, <3>1 DEF CodeAfter
    <3>3. firstCode # -1 /\ e.code = firstCode
      BY <1>1, <1>2, <1>3, <2>4 DEF Choice, AwaitsFirst
    <3>4. ~onceExit'
      <4>1. CASE onceExit
        <5>1. stop' = [stop EXCEPT !["exit"] = Pass]  BY <2>1, <2>2, <2>4, <4>1
        <5>2. stop'["exit"] = Pass  BY <5>1 DEF Typed, PassesOK
        <5>3. Pass # None  BY DEF Pass, None
        <5> QED  BY <5>2, <5>3 DEF onceExit
      <4>2. CASE ~onceExit
        <5>1. stop' = stop  BY <2>1, <2>2, <4>2
        <5> QED  BY <4>2, <5>1 DEF onceExit
      <4> QED  BY <4>1, <4>2
    <3> QED  BY <1>1, <3>2, <3>3, <3>4 DEF NothingSaid, OverWhenCaptured, CapturedIsFirst, AwaitsFirst
  <2>5. CASE ~captured /\ ~(e.action = "die" /\ e.c = exitFrom)
    <3>1. ~IsChosen(e)  BY <2>5 DEF IsChosen
    <3>2. ~captured'  BY <2>1, <2>5, <3>1
    <3>3. /\ exitFrom \in watched
          /\ IF firstCode = -1 THEN ~Says(events, exitFrom, "die") ELSE FirstEnd(events, exitFrom, firstCode)
      BY <1>1, <2>5 DEF Choice, AwaitsFirst
    <3>4. exitFrom \in watched'  BY <1>1, <2>5, <3>3
    <3>5. AwaitsFirst'
      BY <1>0, <1>1, <1>2, <1>3, <2>5, <3>3, <3>4 DEF AwaitsFirst
    <3> QED  BY <1>1, <3>2, <3>5 DEF NothingSaid, OverWhenCaptured, CapturedIsFirst
  <2> QED  BY <2>3, <2>4, <2>5 DEF Typed, FlagsOK
<1> QED  BY <1>4, <1>5

LEMMA ChoiceStep == Typed /\ Follows /\ Choice /\ [Next]_vars => Choice'
<1> SUFFICES ASSUME Typed, Follows, Choice, [Next]_vars  PROVE Choice'  OBVIOUS
<1>0. stop' = stop => (onceExit' <=> onceExit)  BY DEF onceExit
<1>1. ASSUME NEW c \in project, Exit(c)  PROVE Choice'
  <2>1. PICK code \in ExitCodes : Ends(c, code, "exited") \/ Ends(c, code, "restarting")  BY <1>1 DEF Exit
  <2>2. UNCHANGED <<options, monitor, watched, captured, exitCode, stop>>
    BY <1>1 DEF Exit, Compose, watching, passes, outcome
  <2> QED  BY <1>0, <2>1, <2>2, EndsChoice
<1>2. ASSUME NEW c \in project, PolicyRestarts(c) \/ OthersStart(c)  PROVE Choice'
  BY <1>2, StartsChoice DEF PolicyRestarts, OthersStart, Compose, watching, passes, outcome
<1>3. ASSUME NEW c \in project, StartContainer(c)  PROVE Choice'
  <2>1. UNCHANGED <<options, monitor, watched, captured, exitCode, stop>>
    BY <1>3 DEF StartContainer, Main, passes
  <2>2. UNCHANGED engine \/ Starts(c)  BY <1>3 DEF StartContainer
  <2>3. UNCHANGED engine => UNCHANGED <<events, firstCode>>  BY DEF engine
  <2> QED  BY <1>0, <2>1, <2>2, <2>3, ChoiceSame, StartsChoice
<1>4. ASSUME NEW c \in project, KillContainer(c)  PROVE Choice'
  BY <1>0, <1>4, HaltsChoice DEF KillContainer, Killer, watching
<1>5. ASSUME NEW k \in {"signal", "exit"}, NEW c \in project, StopContainer(k, c)  PROVE Choice'
  <2>1. onceExit' => onceExit
    BY <1>5 DEF StopContainer, onceExit, None, Typed, PassesOK
  <2> QED  BY <1>5, <2>1, HaltsChoice DEF StopContainer, Stopper, watching
<1>6. CASE MonitorLists \/ Subscribe \/ MonitorReturns  BY <1>6, MonitorChoice
<1>7. CASE MonitorHears  BY <1>7, MonitorHearsChoice
<1>8. CASE Attach
  <2>1. UNCHANGED <<events, firstCode, options, watched, captured, exitCode, stop>>
    BY <1>8 DEF Attach, Main, engine, passes
  <2>2. monitor = "none" /\ monitor' \in {"none", "list"}  BY <1>8 DEF Attach, Typed, PlacesOK
  <2>3. Choice => Choice'
    BY <1>0, <2>1, <2>2 DEF Choice, Chooses, NothingSaid, CapturedIsFirst, AwaitsFirst, OverWhenCaptured, options
  <2> QED  BY <2>3
<1>9. CASE \E k \in {"signal", "exit"} : StopReturns(k)
  <2>1. PICK k \in {"signal", "exit"} : StopReturns(k)  BY <1>9
  <2>2. UNCHANGED <<engine, options, watching, exitCode>>  BY <2>1 DEF StopReturns, Stopper
  <2>3. onceExit' => onceExit
    BY <2>1 DEF StopReturns, onceExit, None, Done, Typed, PassesOK
  <2> QED  BY <2>2, <2>3, ChoiceSame DEF engine, watching
<1>10. CASE KillReturns \/ Signal \/ AdaptCmd \/ Select \/ HandleKeyEvents \/ SecondSignal
  <2>1. UNCHANGED <<engine, options, watching, exitCode, stop>>
    BY <1>10 DEF KillReturns, Killer, Signal, AdaptCmd, Select, HandleKeyEvents, SecondSignal, outcome, passes
  <2> QED  BY <1>0, <2>1, ChoiceSame DEF engine, watching
<1>11. CASE GracefulTeardown
  <2>1. UNCHANGED <<engine, options, watching, exitCode>>  BY <1>11 DEF GracefulTeardown, outcome
  <2>2. onceExit' <=> onceExit  BY <1>11 DEF GracefulTeardown, onceExit, Typed, PassesOK
  <2> QED  BY <2>1, <2>2, ChoiceSame DEF engine, watching
<1>12. CASE StartLists \/ StartReturns \/ Check \/ Return
  <2>1. UNCHANGED <<events, firstCode, options, watched, monitor, captured, exitCode, stop>>
    BY <1>12 DEF StartLists, StartReturns, Check, Return, Main, engine, passes
  <2> QED  BY <1>0, <2>1, ChoiceSame
<1>13. CASE UNCHANGED vars
  <2>1. UNCHANGED <<engine, options, watching, outcome, passes>>  BY <1>13 DEF vars
  <2> QED  BY <1>0, <2>1, ChoiceSame DEF engine, watching, outcome, passes
<1> QED
  BY <1>1, <1>2, <1>3, <1>4, <1>5, <1>6, <1>7, <1>8, <1>9, <1>10, <1>11, <1>12, <1>13 DEF Next

LEMMA ResultStep == Typed /\ ResultIsCode /\ [Next]_vars => ResultIsCode'
<1> SUFFICES ASSUME Typed, ResultIsCode, [Next]_vars  PROVE ResultIsCode'  OBVIOUS
<1>1. CASE MonitorHears
  <2>1. main # "returned"  BY <1>1 DEF MonitorHears, Typed, PlacesOK, Started
  <2>2. result' = "none"  BY <1>1, <2>1 DEF MonitorHears, Monitor, mains, Typed, PlacesOK
  <2> QED  BY <2>2 DEF ResultIsCode
<1>2. CASE Return
  <2>1. exitCode' = exitCode  BY <1>2 DEF Return, Main
  <2>2. result' = IF main = "drain" THEN "err" ELSE IF exitCode # 0 THEN "code" ELSE IF errs THEN "err" ELSE "nil"
    BY <1>2 DEF Return
  <2> QED  BY <2>1, <2>2 DEF ResultIsCode
<1>3. CASE \E c \in project : Exit(c) \/ PolicyRestarts(c) \/ OthersStart(c) \/ StartContainer(c) \/ KillContainer(c)
  <2>1. exitCode' = exitCode /\ result' = result
    BY <1>3 DEF Exit, PolicyRestarts, OthersStart, StartContainer, KillContainer, Compose, Main, Killer, mains, outcome
  <2> QED  BY <2>1 DEF ResultIsCode
<1>4. CASE \/ \E k \in {"signal", "exit"}, c \in project : StopContainer(k, c)
           \/ \E k \in {"signal", "exit"} : StopReturns(k)
           \/ KillReturns \/ Signal \/ AdaptCmd \/ Select \/ HandleKeyEvents \/ GracefulTeardown \/ SecondSignal
  <2>1. exitCode' = exitCode /\ result' = result
    BY <1>4 DEF StopContainer, StopReturns, Stopper, KillReturns, Killer, Signal, AdaptCmd, Select, HandleKeyEvents,
                GracefulTeardown, SecondSignal, mains, outcome
  <2> QED  BY <2>1 DEF ResultIsCode
<1>5. CASE MonitorLists \/ Subscribe \/ MonitorReturns \/ Attach \/ StartLists \/ StartReturns \/ Check
  <2>1. exitCode' = exitCode /\ result' = result
    BY <1>5 DEF MonitorLists, Subscribe, MonitorReturns, Monitor, Attach, StartLists, StartReturns, Check, Main, mains
  <2> QED  BY <2>1 DEF ResultIsCode
<1>6. CASE UNCHANGED vars
  BY <1>6 DEF vars, outcome, mains, ResultIsCode
<1> QED  BY <1>1, <1>2, <1>3, <1>4, <1>5, <1>6 DEF Next

----------------------------------------------------------------------------
(* Stop passes.                                                            *)

\* What keeps Stops: a container a pass is done with does not come to life
\* but as a revived one, and a pass is done with it only when it is stopped.
LEMMA StopsFrame ==
  ASSUME Stops, project' = project, faulty => faulty', revived \subseteq revived',
         StartingUp' => StartingUp /\ passed \subseteq passed',
         \A d \in project : ~Live(d) /\ (StartingUp => d \in passed) => ~Live(d)' \/ d \in revived',
         \A k \in {"signal", "exit"}, d \in project :
           stop'[k].pc # "none" /\ d \notin stop'[k].todo =>
             \/ stop[k].pc # "none" /\ d \notin stop[k].todo
             \/ ~faulty' => ~Live(d)' /\ (StartingUp' => d \in passed')
  PROVE  Stops'
<1> SUFFICES ASSUME ~faulty', NEW k \in {"signal", "exit"}, NEW d \in project,
                    stop'[k].pc # "none", d \notin stop'[k].todo
             PROVE  (~Live(d)' /\ (StartingUp' => d \in passed')) \/ d \in revived'
  BY DEF Stops
<1>1. CASE stop[k].pc # "none" /\ d \notin stop[k].todo
  <2>1. (~Live(d) /\ (StartingUp => d \in passed)) \/ d \in revived  BY <1>1 DEF Stops
  <2> QED  BY <2>1
<1>2. CASE ~(stop[k].pc # "none" /\ d \notin stop[k].todo)
  BY <1>2
<1> QED  BY <1>1, <1>2

LEMMA StartsDeadened ==
  ASSUME Typed, NEW c \in project, Starts(c), NEW d \in project, d # c
  PROVE  Live(d)' <=> Live(d)
  BY DEF Starts, Live, Typed, EngineOK

LEMMA EndsDeadened ==
  ASSUME Typed, NEW c \in project, NEW code, NEW to \in {"exited", "restarting"}, Live(c), Ends(c, code, to)
  PROVE  /\ \A d \in project : ~Live(d) => ~Live(d)'
         /\ to = "exited" => ~Live(c)'
         /\ revived' = revived /\ passed \subseteq passed'
         /\ StartingUp => c \in passed'
  BY DEF Ends, PassedBy, Live, Typed, EngineOK

LEMMA HaltsDeadened ==
  ASSUME Typed, NEW c \in project, Halts(c)
  PROVE  /\ \A d \in project : ~Live(d) => ~Live(d)'
         /\ ~Live(c)'
         /\ revived' = revived /\ passed \subseteq passed'
         /\ StartingUp => c \in passed'
<1>1. CASE ~Live(c) /\ PassedBy(c) /\ UNCHANGED <<st, events, silent, revived, firstCode>>
  BY <1>1 DEF PassedBy, Live
<1>2. CASE Live(c) /\ \E code \in ExitCodes \cup StopCodes : Ends(c, code, "exited")
  BY <1>2, EndsDeadened
<1>3. CASE Unrestarts(c)
  BY <1>3 DEF Unrestarts, PassedBy, Live, Typed, EngineOK
<1> QED  BY <1>1, <1>2, <1>3, HaltsCases

LEMMA StopsStep == Typed /\ Stops /\ [Next]_vars => Stops'
<1> SUFFICES ASSUME Typed, Stops, [Next]_vars  PROVE Stops'  OBVIOUS
<1>1. ASSUME NEW c \in project, Exit(c)  PROVE Stops'
  <2>1. PICK code \in ExitCodes : Ends(c, code, "exited") \/ Ends(c, code, "restarting")  BY <1>1 DEF Exit
  <2>2. UNCHANGED <<project, stop, main, faulty>> /\ Live(c)
    BY <1>1 DEF Exit, Compose, options, passes, mains, Live
  <2>3. (\A d \in project : ~Live(d) => ~Live(d)') /\ revived' = revived /\ passed \subseteq passed'
    BY <2>1, <2>2, EndsDeadened
  <2> QED  BY <2>2, <2>3, StopsFrame DEF StartingUp
<1>2. ASSUME NEW c \in project, PolicyRestarts(c) \/ OthersStart(c)  PROVE Stops'
  <2>1. UNCHANGED <<project, stop, main, faulty, passed>> /\ Starts(c)
    BY <1>2 DEF PolicyRestarts, OthersStart, Compose, options, passes, mains, bounds, Starts
  <2>2. revived \subseteq revived' /\ (Live(c) \/ c \in revived')
    BY <1>2 DEF PolicyRestarts, OthersStart, Live
  <2>3. \A d \in project : ~Live(d) => ~Live(d)' \/ d \in revived'
    BY <2>1, <2>2, StartsDeadened
  <2> QED  BY <2>1, <2>2, <2>3, StopsFrame DEF StartingUp
<1>3. ASSUME NEW c \in project, StartContainer(c)  PROVE Stops'
  <2>1. UNCHANGED <<project, stop, main, faulty>> /\ main = "starting"
    BY <1>3 DEF StartContainer, Main, options, passes
  <2>2. CASE UNCHANGED engine
    <3>1. UNCHANGED <<st, revived, passed>>  BY <2>2 DEF engine
    <3> QED  BY <2>1, <3>1, StopsFrame DEF StartingUp, Live
  <2>3. CASE Starts(c) /\ revived' = revived \cup ({c} \cap passed)
    <3>1. passed' = passed  BY <2>3 DEF Starts
    <3>2. \A d \in project : ~Live(d) /\ (StartingUp => d \in passed) => ~Live(d)' \/ d \in revived'
      BY <2>1, <2>3, StartsDeadened DEF StartingUp
    <3> QED  BY <2>1, <2>3, <3>1, <3>2, StopsFrame DEF StartingUp
  <2> QED  BY <1>3, <2>2, <2>3 DEF StartContainer
<1>4. ASSUME NEW c \in project, KillContainer(c)  PROVE Stops'
  <2>1. UNCHANGED <<project, stop, main, faulty>> /\ Halts(c)
    BY <1>4 DEF KillContainer, Killer, options, mains
  <2>2. (\A d \in project : ~Live(d) => ~Live(d)') /\ revived' = revived /\ passed \subseteq passed'
    BY <2>1, HaltsDeadened
  <2> QED  BY <2>1, <2>2, StopsFrame DEF StartingUp
<1>5. ASSUME NEW k \in {"signal", "exit"}, NEW c \in project, StopContainer(k, c)  PROVE Stops'
  <2>1. UNCHANGED <<project, main, faulty>> /\ Halts(c) /\ stop[k].pc = "going"
    BY <1>5 DEF StopContainer, Stopper, options, mains
  <2>2. /\ \A d \in project : ~Live(d) => ~Live(d)'
        /\ ~Live(c)' /\ revived' = revived /\ passed \subseteq passed' /\ (StartingUp => c \in passed')
    BY <2>1, HaltsDeadened
  <2>3. \A j \in {"signal", "exit"}, d \in project :
          stop'[j].pc # "none" /\ d \notin stop'[j].todo =>
            (stop[j].pc # "none" /\ d \notin stop[j].todo) \/ d = c
    <3> SUFFICES ASSUME NEW j \in {"signal", "exit"}, NEW d \in project,
                        stop'[j].pc # "none", d \notin stop'[j].todo, d # c
                 PROVE  stop[j].pc # "none" /\ d \notin stop[j].todo
      OBVIOUS
    <3>1. CASE j # k
      <4>1. stop'[j] = stop[j]  BY <1>5, <3>1 DEF StopContainer, Typed, PassesOK
      <4> QED  BY <4>1
    <3>2. CASE j = k
      <4>1. stop[k] \in [pc : {"going"}, todo : SUBSET project]
        BY <2>1 DEF Typed, PassesOK, Passes, None, Done
      <4>2. stop'[k] = [stop[k] EXCEPT !.todo = @ \ {c}]  BY <1>5 DEF StopContainer, Typed, PassesOK
      <4>3. stop'[k].todo = stop[k].todo \ {c}  BY <4>1, <4>2
      <4> QED  BY <2>1, <3>2, <4>3
    <3> QED  BY <3>1, <3>2
  <2> QED  BY <2>1, <2>2, <2>3, StopsFrame DEF StartingUp
<1>6. CASE MonitorLists \/ Subscribe \/ MonitorReturns
  <2>1. UNCHANGED <<st, passed, revived, project, stop, main>>
    BY <1>6 DEF MonitorLists, Subscribe, MonitorReturns, Monitor, engine, options, mains
  <2>2. faulty => faulty'
    BY <1>6 DEF MonitorLists, Subscribe, MonitorReturns, Fault
  <2> QED  BY <2>1, <2>2, StopsFrame DEF StartingUp, Live
<1>7. CASE MonitorHears
  <2>1. UNCHANGED <<st, passed, revived, project, main, faulty>>
    BY <1>7, Hears DEF options
  <2>2. stop' = stop \/ stop' = [stop EXCEPT !["exit"] = Pass]  BY <1>7 DEF MonitorHears
  <2>3. \A j \in {"signal", "exit"}, d \in project :
          stop'[j].pc # "none" /\ d \notin stop'[j].todo => stop[j].pc # "none" /\ d \notin stop[j].todo
    BY <2>2 DEF Pass, Typed, PassesOK
  <2> QED  BY <2>1, <2>3, StopsFrame DEF StartingUp, Live
<1>8. CASE \E k \in {"signal", "exit"} : StopReturns(k)
  <2>1. PICK k \in {"signal", "exit"} : StopReturns(k)  BY <1>8
  <2>2. UNCHANGED <<st, passed, revived, project, main>> /\ stop' = [stop EXCEPT ![k] = Done] /\ stop[k].pc = "going"
    BY <2>1 DEF StopReturns, Stopper, engine, options, mains
  <2>3. (faulty => faulty') /\ (faulty' \/ stop[k].todo = {})
    BY <2>1 DEF StopReturns, Fault
  <2>4. \A j \in {"signal", "exit"}, d \in project :
          stop'[j].pc # "none" /\ d \notin stop'[j].todo =>
            (stop[j].pc # "none" /\ d \notin stop[j].todo) \/ faulty'
    BY <2>2, <2>3 DEF Typed, PassesOK
  <2> QED  BY <2>2, <2>3, <2>4, StopsFrame DEF StartingUp, Live
<1>9. CASE GracefulTeardown
  <2>1. UNCHANGED <<st, passed, revived, project, main, faulty>> /\ stop' = [stop EXCEPT !["signal"] = Pass]
    BY <1>9 DEF GracefulTeardown, engine, options, mains, bounds
  <2>3. \A j \in {"signal", "exit"}, d \in project :
          stop'[j].pc # "none" /\ d \notin stop'[j].todo => stop[j].pc # "none" /\ d \notin stop[j].todo
    BY <2>1 DEF Pass, Typed, PassesOK
  <2> QED  BY <2>1, <2>3, StopsFrame DEF StartingUp, Live
<1>10. CASE KillReturns \/ Signal \/ AdaptCmd \/ Select \/ HandleKeyEvents \/ SecondSignal
  <2>1. UNCHANGED <<st, passed, revived, project, stop, main>>
    BY <1>10 DEF KillReturns, Killer, Signal, AdaptCmd, Select, HandleKeyEvents, SecondSignal, engine, options, passes, mains
  <2>2. faulty => faulty'
    BY <1>10 DEF KillReturns, Fault, Signal, AdaptCmd, Select, HandleKeyEvents, SecondSignal, bounds
  <2> QED  BY <2>1, <2>2, StopsFrame DEF StartingUp, Live
<1>11. CASE Attach \/ StartLists \/ StartReturns \/ Check \/ Return
  <2>1. UNCHANGED <<st, revived, project, stop>>
    BY <1>11 DEF Attach, StartLists, StartReturns, Check, Return, Main, engine, options, passes
  <2>2. faulty => faulty'
    BY <1>11 DEF Attach, StartLists, StartReturns, Check, Return, Fault
  <2>3. StartingUp' => StartingUp /\ passed \subseteq passed'
    BY <1>11 DEF Attach, StartLists, StartReturns, Check, Return, StartingUp, engine
  <2> QED  BY <2>1, <2>2, <2>3, StopsFrame DEF Live
<1>12. CASE UNCHANGED vars
  <2>1. UNCHANGED <<st, passed, revived, project, stop, main, faulty>>
    BY <1>12 DEF vars, engine, options, passes, mains, bounds
  <2> QED  BY <2>1, StopsFrame DEF StartingUp, Live
<1> QED
  BY <1>1, <1>2, <1>3, <1>4, <1>5, <1>6, <1>7, <1>8, <1>9, <1>10, <1>11, <1>12 DEF Next

----------------------------------------------------------------------------
(* The inductive invariant and what follows from it.                       *)

LEMMA InitInv == Init => Inv
<1> SUFFICES ASSUME Init  PROVE Inv  OBVIOUS
<1>1. Typed
  <2>1. EngineOK
    <3>1. <<>> \in Seq(Event)  OBVIOUS
    <3> QED  BY <3>1 DEF Init, EngineOK
  <2>2. HandlerOK  BY MaxTroublesAssumption DEF Init, HandlerOK
  <2>3. PassesOK  BY DEF Init, PassesOK, Passes
  <2>4. PlacesOK  BY DEF Init, PlacesOK, Started
  <2>5. FlagsOK  BY DEF Init, FlagsOK
  <2> QED  BY <2>1, <2>2, <2>3, <2>4, <2>5 DEF Typed
<1>2. Follows  BY DEF Init, Follows, Unheard, WatchedAll, RunsAreWatched, EndsAreTold
<1>3. Passings
  <2>1. \A d : ~Says(<<>>, d, "die")  BY DEF Says
  <2> QED  BY <2>1 DEF Init, Passings, EndsArePassed, UnwatchedIsPassed, UnwatchedIsRevived
<1>4. Choice  BY DEF Init, Choice, NothingSaid, CapturedIsFirst, AwaitsFirst, OverWhenCaptured
<1>5. ResultIsCode  BY DEF Init, ResultIsCode
<1>6. Stops  BY DEF Init, Stops, None
<1> QED  BY <1>1, <1>2, <1>3, <1>4, <1>5, <1>6 DEF Inv

LEMMA StepInv == Inv /\ [Next]_vars => Inv'
BY TypedStep, FollowsStep, PassingsStep, ChoiceStep, ResultStep, StopsStep DEF Inv

LEMMA Invariant == Spec => []Inv
BY InitInv, StepInv, PTL DEF Spec

LEMMA InvWatchesWhatRuns == Inv => WatchesWhatRuns
<1> SUFFICES ASSUME Inv, monitor = "loop", events = <<>>
             PROVE  /\ {c \in watches : Live(c)} \subseteq watched
                    /\ \A c \in watched : Live(c) \/ c \in silent
  BY DEF WatchesWhatRuns
<1>1. \A d, a : ~Says(events, d, a) /\ ~EndsIn(events, d)  BY DEF Says, EndsIn
<1>2. \A c \in watches : Live(c) => c \in watched
  BY <1>1 DEF Inv, Follows, RunsAreWatched
<1>3. \A c \in watched : Live(c) \/ c \in silent
  BY <1>1 DEF Inv, Follows, EndsAreTold, Typed, EngineOK
<1> QED  BY <1>2, <1>3

(* The monitor follows the containers: whatever starts, restarts and ends  *)
(* come late, it watches what runs when it has read all events, and ends   *)
(* by itself only when nothing that it watches runs, but for containers    *)
(* that ended and that a command started again.                            *)
THEOREM MonitorFollowsHolds == Spec => MonitorFollows
<1>1. Inv => TypeOK /\ WatchesWhatRuns
  BY TypedTypeOK, InvWatchesWhatRuns DEF Inv
<1>2. Inv /\ [Next]_vars => [monitor = "loop" /\ monitor' = "over" => \A c \in watches : ~Live(c) \/ c \in revived]_vars
  <2> SUFFICES ASSUME Inv, [Next]_vars, monitor = "loop", monitor' = "over", NEW c \in watches, Live(c)
               PROVE  c \in revived
    OBVIOUS
  <2>1. watched = {}
    BY DEF Next, vars, watching, Exit, PolicyRestarts, OthersStart, StartContainer, KillContainer, StopContainer, StopReturns,
           KillReturns, Signal, AdaptCmd, Select, HandleKeyEvents, GracefulTeardown, SecondSignal, MonitorLists, Subscribe,
           MonitorReturns, MonitorHears, Attach, StartLists, StartReturns, Check, Return, Compose, Stopper, Killer, Main
  <2> QED  BY <2>1 DEF Inv, Passings, UnwatchedIsRevived
<1> QED  BY <1>1, <1>2, Invariant, PTL DEF Spec, MonitorFollows, EndsWhenNoneRuns

(* With --abort-on-container-exit the exit code of up is that of the first *)
(* end of the container that --exit-code-from names.                       *)
THEOREM ChosenExitCodeHolds == Spec => []ChosenExitCode
<1>1. Inv => ChosenExitCode
  BY DEF Inv, Choice, Chooses, OverWhenCaptured, CapturedIsFirst, ResultIsCode, ChosenExitCode
<1> QED  BY <1>1, Invariant, PTL

(* When up returns after a stop pass, no container is left running unless  *)
(* a call failed or one was started behind the pass.                       *)
THEOREM StopStopsAllHolds == Spec => []StopStopsAll
<1>1. Inv => StopStopsAll
  <2> SUFFICES ASSUME Inv, ~faulty, revived = {}, NEW k \in DOMAIN stop, stop[k] = Done, NEW c \in project
               PROVE  ~Live(c)
    BY DEF StopStopsAll
  <2>1. k \in {"signal", "exit"}  BY DEF Inv, Typed, PassesOK
  <2>2. stop[k].pc # "none" /\ c \notin stop[k].todo  BY DEF Done
  <2> QED  BY <2>1, <2>2 DEF Inv, Stops
<1> QED  BY <1>1, Invariant, PTL

----------------------------------------------------------------------------
(* Logs.  The layers of the inductive invariant: first the types.          *)

Places    == {"none", "inspect", "open", "copy", "over"}
CopyState == [pc : Places, since : Nat, upto : Nat, shown : SUBSET Nat]
LogEvents == [what : {"create", "start", "die"}, of : Logged, run : Nat]

LogTypes ==
  /\ at \in {"idle", "list", "group", "returned"} /\ answer \in {"none", "nil", "err"}
  /\ asked \in Logging!Requests
  /\ life \in [Logged -> {"absent", "created", "running", "exited", "gone"}]
  /\ runs \in [Logged -> Nat]
  /\ said \subseteq Logging!Copies /\ untold \subseteq Logging!Copies
  /\ reader \in [Logging!Copies -> CopyState]
  /\ listening \in {"none", "list", "subscribe", "loop", "over"} /\ followed \subseteq Logged
  /\ news \in Seq(LogEvents)
  /\ interrupted \in BOOLEAN /\ broken \in BOOLEAN
  /\ troubles \in 0..(MaxTroubles - 1)

(* What the engine has of the containers: runs that are over have said     *)
(* their line.                                                             *)
LogEngine ==
  \A c \in Logged :
    /\ runs[c] <= troubles + 1
    /\ life[c] \in {"absent", "created"} => runs[c] = 0
    /\ life[c] \in {"running", "exited"} => runs[c] >= 1
    /\ \A r \in 1..runs[c] : r < runs[c] \/ life[c] # "running" => <<c, r>> \in said
    /\ \A r \in 0..Logging!MaxStarts : <<c, r>> \in said => r \in 1..runs[c]

(* Starts that are told, and copies for them, are of runs that were begun. *)
LogTold ==
  /\ \A k \in 1..Len(news) : news[k].what = "start" => news[k].run \in 1..runs[news[k].of]
  /\ \A i \in Logging!Copies : i[2] >= 1 /\ reader[i].pc # "none" => i[2] <= runs[i[1]]

(* How far the goroutines may be.                                          *)
LogStages ==
  /\ at \in {"idle", "list"} => listening = "none" /\ \A i \in Logging!Copies : reader[i].pc = "none"
  /\ at = "idle" => \A c \in Logged : runs[c] = 0
  /\ at = "returned" => listening \in {"none", "over"} /\ \A i \in Logging!Copies : reader[i].pc \in {"none", "over"}
  /\ answer # "none" => at = "returned"
  /\ answer = "nil" => ~broken
  /\ listening \in {"none", "list", "subscribe"} =>
       news = <<>> /\ \A i \in Logging!Copies : i[2] >= 1 => reader[i].pc = "none"
  /\ ~asked.follow => listening = "none"

(* What a copy has shown: nothing before its run, nothing before it is     *)
(* open, and in the end all there was.                                     *)
Mute(c) == asked.odd = "mute" /\ c = Picked

CopyOK(i) ==
  /\ reader[i].pc \in {"none", "inspect", "open"} => reader[i].shown = {}
  /\ reader[i].shown \subseteq reader[i].since..reader[i].upto
  /\ reader[i].pc \in {"open", "copy"} => i[2] <= reader[i].since /\ reader[i].since <= runs[i[1]]
  /\ reader[i].shown # {} => i[2] <= reader[i].since
  /\ i[2] = 0 => reader[i].since = 0
  /\ reader[i].pc = "copy" => reader[i].since <= reader[i].upto /\ reader[i].upto <= runs[i[1]]
  /\ reader[i].pc = "over" /\ ~broken /\ life[i[1]] # "gone" /\ ~Mute(i[1]) =>
       /\ i[2] <= reader[i].since /\ reader[i].since <= reader[i].upto
       /\ \A r \in reader[i].since..reader[i].upto :
            r = 0 \/ r \in reader[i].shown \/ (~asked.follow /\ r = reader[i].upto)

LogCopies == \A i \in Logging!Copies : CopyOK(i)

(* Every run of a container is somebody's to show: the first that of the   *)
(* copy for the list, when it had begun by then.                           *)
StartTold(c, r) == \E k \in 1..Len(news) : news[k].what = "start" /\ news[k].of = c /\ news[k].run = r

FirstListed(c) ==
  LET i == <<c, 0>> IN
    /\ reader[i].pc # "none"
    /\ reader[i].pc = "copy" \/ (reader[i].pc = "over" /\ ~broken /\ life[c] # "gone" /\ ~Mute(c)) =>
         reader[i].upto >= 1

Covered(c, r) ==
  \/ <<c, r>> \in untold \/ reader[<<c, r>>].pc # "none" \/ StartTold(c, r)
  \/ r = 1 /\ (at = "list" \/ FirstListed(c))

LogCovered ==
  at \in {"list", "group"} \/ answer = "nil" =>
    \A c \in Logged : (at = "list" \/ c \in Logging!Listed) => \A r \in 1..runs[c] : Covered(c, r)

(* The monitor, once it was told of the last run of a container that does  *)
(* not run, does not watch it, or has its end still to read.               *)
Renews(e, c) == e.of = c /\ e.what \in {"create", "start"}
EndTold(c) ==
  \E k \in 1..Len(news) : /\ news[k].of = c /\ news[k].what = "die"
                          /\ \A j \in 1..Len(news) : Renews(news[j], c) => j < k
NotWatched(c) == c \notin followed /\ \A j \in 1..Len(news) : ~Renews(news[j], c)

LogWatch ==
  listening = "loop" =>
    \A c \in Logged :
      life[c] # "running" /\ runs[c] >= 1 /\ (reader[<<c, runs[c]>>].pc # "none" \/ StartTold(c, runs[c])) =>
        EndTold(c) \/ NotWatched(c)

LogInv == LogTypes /\ LogEngine /\ LogTold /\ LogStages /\ LogCopies /\ LogCovered /\ LogWatch

LEMMA CopyIndex ==
  /\ Logging!MaxStarts \in Nat /\ Logging!MaxStarts = (MaxTroubles - 1) + 1
  /\ \A c \in Logged, r \in 0..Logging!MaxStarts : <<c, r>> \in Logging!Copies /\ <<c, r>>[1] = c /\ <<c, r>>[2] = r
  /\ \A i \in Logging!Copies : i[1] \in Logged /\ i[2] \in 0..Logging!MaxStarts /\ i = <<i[1], i[2]>>
BY TroublesOfLogs DEF Logging!Copies, Logging!MaxStarts

LEMMA LogInit == Logging!Init => LogInv
<1> SUFFICES ASSUME Logging!Init  PROVE LogInv
  OBVIOUS
<1>1. \A i \in Logging!Copies : reader[i] = Logging!NoCopy
  BY DEF Logging!Init
<1>2. /\ Logging!NoCopy \in CopyState /\ Logging!NoCopy.pc = "none" /\ Logging!NoCopy.shown = {}
      /\ Logging!NoCopy.since = 0 /\ Logging!NoCopy.upto = 0
  BY DEF Logging!NoCopy, CopyState, Places
<1>3. LogTypes
  <2>1. asked \in Logging!Requests
    BY DEF Logging!Init, Logging!Plain, Logging!Requests
  <2>2. reader \in [Logging!Copies -> CopyState]
    BY <1>2 DEF Logging!Init
  <2>3. news \in Seq(LogEvents)
    BY DEF Logging!Init
  <2>4. /\ life \in [Logged -> {"absent", "created", "running", "exited", "gone"}]
        /\ runs \in [Logged -> Nat]
    BY DEF Logging!Init
  <2>5. troubles \in 0..(MaxTroubles - 1)
    BY TroublesOfLogs DEF Logging!Init
  <2>6. /\ at = "idle" /\ answer = "none" /\ said = {} /\ untold = {} /\ listening = "none" /\ followed = {}
        /\ interrupted = FALSE /\ broken = FALSE
    BY DEF Logging!Init
  <2> QED  BY <2>1, <2>2, <2>3, <2>4, <2>5, <2>6 DEF LogTypes
<1>4. LogEngine
  <2>1. said = {} /\ troubles = 0 /\ \A c \in Logged : runs[c] = 0 /\ life[c] = "absent"
    BY DEF Logging!Init
  <2> SUFFICES ASSUME NEW c \in Logged
               PROVE  /\ runs[c] <= troubles + 1
                      /\ life[c] \in {"absent", "created"} => runs[c] = 0
                      /\ life[c] \in {"running", "exited"} => runs[c] >= 1
                      /\ \A r \in 1..runs[c] : r < runs[c] \/ life[c] # "running" => <<c, r>> \in said
                      /\ \A r \in 0..Logging!MaxStarts : <<c, r>> \in said => r \in 1..runs[c]
    BY DEF LogEngine
  <2>2. runs[c] = 0 /\ life[c] = "absent"
    BY <2>1
  <2>3. \A r \in 1..runs[c] : FALSE
    BY <2>2
  <2>4. runs[c] <= troubles + 1
    BY <2>1, <2>2
  <2> QED  BY <2>1, <2>2, <2>3, <2>4
<1>5. LogTold
  BY <1>1, <1>2 DEF Logging!Init, LogTold
<1>6. LogStages
  BY <1>1, <1>2 DEF Logging!Init, LogStages, Logging!Plain
<1>7. LogCopies
  BY <1>1, <1>2 DEF LogCopies, CopyOK
<1>8. LogCovered /\ LogWatch
  BY DEF Logging!Init, LogCovered, LogWatch
<1> QED  BY <1>3, <1>4, <1>5, <1>6, <1>7, <1>8 DEF LogInv

(* What the invariant says of what is shown.                               *)
LEMMA LogEnds == LogInv => Logging!LogsAreRight
<1> SUFFICES ASSUME LogInv  PROVE Logging!LogsAreRight
  OBVIOUS
<1>0. LogTypes /\ LogEngine /\ LogTold /\ LogStages /\ LogCopies /\ LogCovered /\ LogWatch
  BY DEF LogInv
<1>1. Logging!TypeOK
  <2>1. runs \in [Logged -> 0..Logging!MaxStarts]
    <3>1. troubles + 1 <= Logging!MaxStarts /\ troubles \in Nat
      BY <1>0, CopyIndex, TroublesOfLogs DEF LogTypes
    <3>2. ASSUME NEW c \in Logged  PROVE runs[c] \in 0..Logging!MaxStarts
      <4>1. runs[c] \in Nat /\ runs[c] <= troubles + 1
        BY <1>0 DEF LogTypes, LogEngine
      <4> QED  BY <3>1, <4>1, CopyIndex
    <3> QED  BY <1>0, <3>2 DEF LogTypes
  <2>2. \A i \in Logging!Copies : reader[i].shown \subseteq reader[i].since..reader[i].upto
    BY <1>0 DEF LogCopies, CopyOK
  <2> QED  BY <1>0, <2>1, <2>2 DEF LogTypes, Logging!TypeOK
<1>2. Logging!EachLineOnce
  <2> SUFFICES ASSUME NEW c \in Logged, NEW r \in 0..Logging!MaxStarts, NEW q \in 0..Logging!MaxStarts, r < q,
                      q > reader[<<c, r>>].upto, NEW x \in reader[<<c, r>>].shown, x \in reader[<<c, q>>].shown
               PROVE  FALSE
    BY DEF Logging!EachLineOnce
  <2>1. <<c, r>> \in Logging!Copies /\ <<c, q>> \in Logging!Copies /\ <<c, q>>[2] = q /\ q \in Nat
    BY CopyIndex
  <2>2. reader[<<c, r>>] \in CopyState /\ reader[<<c, q>>] \in CopyState
    BY <1>0, <2>1 DEF LogTypes
  <2>3. x \in reader[<<c, r>>].since..reader[<<c, r>>].upto /\ x \in reader[<<c, q>>].since..reader[<<c, q>>].upto
    BY <1>0, <2>1 DEF LogCopies, CopyOK
  <2>4. q <= reader[<<c, q>>].since
    BY <1>0, <2>1 DEF LogCopies, CopyOK
  <2>5. /\ reader[<<c, r>>].since \in Nat /\ reader[<<c, r>>].upto \in Nat
        /\ reader[<<c, q>>].since \in Nat /\ reader[<<c, q>>].upto \in Nat
    BY <2>2 DEF CopyState
  <2> QED  BY <2>1, <2>3, <2>4, <2>5
<1>3. Logging!NoLineLost
  <2>a. ASSUME answer = "nil", NEW c \in Logged, c \in Logging!Listed, ~Mute(c), ~Logging!Overtaken(c),
               NEW r \in 1..runs[c]
        PROVE  \/ r \in Logging!Shown(c) \/ <<c, r>> \in untold \/ StartTold(c, r)
               \/ ~asked.follow /\ r >= reader[<<c, 0>>].upto
    <3> SUFFICES ASSUME r \notin Logging!Shown(c), <<c, r>> \notin untold, ~StartTold(c, r),
                        ~(~asked.follow /\ r >= reader[<<c, 0>>].upto)
                 PROVE  FALSE
      OBVIOUS
    <3>1. at = "returned" /\ ~broken /\ life[c] # "gone"
      BY <2>a, <1>0 DEF LogStages, Logging!Listed, Logging!Present
    <3>2. /\ runs[c] <= Logging!MaxStarts /\ runs[c] \in Nat
          /\ r \in 1..Logging!MaxStarts /\ r \in 0..Logging!MaxStarts /\ 0 \in 0..Logging!MaxStarts
      BY <1>1, CopyIndex DEF Logging!TypeOK
    <3>3. ASSUME NEW q \in 0..Logging!MaxStarts, reader[<<c, q>>].pc # "none"
          PROVE  /\ q <= reader[<<c, q>>].since /\ reader[<<c, q>>].since <= reader[<<c, q>>].upto
                 /\ \A x \in reader[<<c, q>>].since..reader[<<c, q>>].upto :
                      x = 0 \/ x \in reader[<<c, q>>].shown \/ (~asked.follow /\ x = reader[<<c, q>>].upto)
      <4>1. <<c, q>> \in Logging!Copies /\ <<c, q>>[1] = c /\ <<c, q>>[2] = q
        BY CopyIndex
      <4>2. reader[<<c, q>>].pc = "over"
        BY <1>0, <3>1, <3>3, <4>1 DEF LogStages
      <4> QED  BY <2>a, <1>0, <3>1, <4>1, <4>2 DEF LogCopies, CopyOK
    <3>4. \A q \in 0..Logging!MaxStarts : r \notin reader[<<c, q>>].shown
      BY DEF Logging!Shown
    <3>5. \A q \in 0..Logging!MaxStarts : reader[<<c, q>>].since \in Nat /\ reader[<<c, q>>].upto \in Nat
      BY <1>0, CopyIndex DEF LogTypes, CopyState
    <3>6. Covered(c, r)
      BY <2>a, <1>0, <3>1 DEF LogCovered
    <3>7. CASE reader[<<c, r>>].pc # "none"
      <4>1. ~(reader[<<c, r>>].since > r)
        BY <2>a, <3>2 DEF Logging!Overtaken
      <4>2. r \in reader[<<c, r>>].since..reader[<<c, r>>].upto
        BY <3>2, <3>3, <3>5, <3>7, <4>1
      <4>3. asked.follow
        <5>1. <<c, r>> \in Logging!Copies /\ <<c, r>>[2] = r
          BY <3>2, CopyIndex
        <5> QED  BY <1>0, <3>2, <3>7, <5>1 DEF LogStages
      <4> QED  BY <3>2, <3>3, <3>4, <3>7, <4>2, <4>3
    <3>8. CASE r = 1 /\ FirstListed(c)
      <4>1. reader[<<c, 0>>].pc # "none" /\ reader[<<c, 0>>].upto >= 1
        <5>1. <<c, 0>> \in Logging!Copies
          BY CopyIndex
        <5>2. reader[<<c, 0>>].pc = "over"
          BY <1>0, <3>1, <3>8, <5>1 DEF FirstListed, LogStages
        <5> QED  BY <2>a, <3>1, <3>8, <5>2 DEF FirstListed
      <4>2. reader[<<c, 0>>].since = 0
        <5>1. <<c, 0>> \in Logging!Copies /\ <<c, 0>>[2] = 0
          BY CopyIndex
        <5> QED  BY <1>0, <5>1 DEF LogCopies, CopyOK
      <4>3. 1 \in reader[<<c, 0>>].since..reader[<<c, 0>>].upto
        BY <3>2, <3>5, <4>1, <4>2
      <4> QED  BY <3>2, <3>3, <3>4, <3>5, <3>8, <4>1, <4>3
    <3> QED  BY <3>1, <3>6, <3>7, <3>8 DEF Covered
  <2>b. DOMAIN news = 1..Len(news) /\ Logging!Listed \subseteq Logged
    BY <1>0 DEF LogTypes, Logging!Listed
  <2> QED  BY <2>a, <2>b DEF Logging!NoLineLost, Mute, StartTold
<1>4. Logging!WaitsForContainers
  <2> SUFFICES ASSUME at = "group", Logging!MonitorRests, \A i \in Logging!Copies : Logging!CopyRests(i),
                      ~(listening \in {"none", "over"} /\ \A i \in Logging!Copies : reader[i].pc \in {"none", "over"})
               PROVE  ~Logging!CtxDone /\ \E c \in Logged : life[c] = "running" \/ Logging!Silent(c)
    BY DEF Logging!WaitsForContainers
  <2>1. CASE \E i \in Logging!Copies : reader[i].pc \notin {"none", "over"}
    <3>1. PICK i \in Logging!Copies : ~Logging!CtxDone /\ life[i[1]] = "running"
      BY <2>1 DEF Logging!CopyRests
    <3> QED  BY <3>1, CopyIndex
  <2>2. CASE listening = "loop" /\ ~Logging!CtxDone /\ followed # {} /\ news = <<>>
    <3>1. PICK c \in Logged : c \in followed
      BY <1>0, <2>2 DEF LogTypes
    <3>2. ASSUME life[c] # "running", runs[c] # 0, reader[<<c, runs[c]>>].pc # "none"  PROVE FALSE
      <4>1. runs[c] >= 1
        BY <1>0, <3>2 DEF LogTypes
      <4>2. EndTold(c) \/ NotWatched(c)
        BY <1>0, <2>2, <3>2, <4>1 DEF LogWatch
      <4>3. ~EndTold(c)
        BY <2>2 DEF EndTold
      <4> QED  BY <3>1, <4>2, <4>3 DEF NotWatched
    <3> QED  BY <2>2, <3>1, <3>2 DEF Logging!Silent
  <2> QED  BY <2>1, <2>2 DEF Logging!MonitorRests
<1> QED  BY <1>1, <1>2, <1>3, <1>4 DEF Logging!LogsAreRight

(* What the engine does while the command is under way.                    *)
Grows ==
  /\ UNCHANGED <<asked, at, reader, listening, followed, broken, answer>> /\ at \in {"list", "group"}
  /\ \A c \in Logged : runs'[c] \in Nat /\ runs'[c] >= runs[c] /\ (life[c] = "gone" => life'[c] = "gone")
  /\ untold \subseteq untold'

Tells(e) ==
  /\ listening = "loop" /\ e \in LogEvents /\ news' = Append(news, e)
  /\ e.what = "start" => e.run \in 1..runs'[e.of]

LEMMA Appended ==
  ASSUME news \in Seq(LogEvents), NEW e \in LogEvents, news' = Append(news, e)
  PROVE  /\ news' \in Seq(LogEvents) /\ Len(news) \in Nat /\ Len(news') = Len(news) + 1
         /\ \A k \in 1..Len(news) : news'[k] = news[k] /\ news[k] \in LogEvents
         /\ news'[Len(news')] = e
OBVIOUS

LEMMA GrowsStages ==
  ASSUME LogTypes, LogStages, Grows, news' = news \/ \E e : Tells(e)
  PROVE  LogStages' /\ answer = "none"
<1>1. answer = "none"
  BY DEF Grows, LogStages, LogTypes
<1>2. listening \in {"none", "list", "subscribe"} => news' = news
  BY DEF Tells
<1> QED  BY <1>1, <1>2 DEF Grows, LogStages

LEMMA GrowsCopies ==
  ASSUME LogTypes, LogCopies, Grows
  PROVE  LogCopies'
<1> SUFFICES ASSUME NEW i \in Logging!Copies  PROVE CopyOK(i)'
  BY DEF LogCopies
<1>1. i[1] \in Logged
  BY CopyIndex
<1>2. reader' = reader /\ asked' = asked /\ broken' = broken
  BY DEF Grows
<1>3. /\ runs[i[1]] \in Nat /\ runs'[i[1]] \in Nat /\ runs'[i[1]] >= runs[i[1]]
      /\ life[i[1]] = "gone" => life'[i[1]] = "gone"
  BY <1>1 DEF Grows, LogTypes
<1>4. reader[i].since \in Nat /\ reader[i].upto \in Nat
  BY DEF LogTypes, CopyState
<1>5. CopyOK(i)
  BY DEF LogCopies
<1>6. /\ reader[i].since <= runs[i[1]] => reader[i].since <= runs'[i[1]]
      /\ reader[i].upto <= runs[i[1]] => reader[i].upto <= runs'[i[1]]
  BY <1>3, <1>4
<1>7. Mute(i[1])' = Mute(i[1])
  BY <1>2 DEF Mute
<1> QED  BY <1>2, <1>3, <1>5, <1>6, <1>7 DEF CopyOK

LEMMA GrowsTold ==
  ASSUME LogTypes, LogTold, Grows, news' = news \/ \E e : Tells(e)
  PROVE  LogTold' /\ news' \in Seq(LogEvents)
<1>1. \A i \in Logging!Copies : i[2] >= 1 /\ reader'[i].pc # "none" => i[2] <= runs'[i[1]]
  <2> SUFFICES ASSUME NEW i \in Logging!Copies, i[2] >= 1, reader'[i].pc # "none"  PROVE i[2] <= runs'[i[1]]
    OBVIOUS
  <2>1. i[1] \in Logged /\ i[2] \in Nat
    BY CopyIndex
  <2>2. i[2] <= runs[i[1]]
    BY DEF LogTold, Grows
  <2>3. runs[i[1]] \in Nat /\ runs'[i[1]] \in Nat /\ runs'[i[1]] >= runs[i[1]]
    BY <2>1 DEF Grows, LogTypes
  <2> QED  BY <2>1, <2>2, <2>3
<1>2. \A x \in LogEvents : x.run \in 1..runs[x.of] => x.run \in 1..runs'[x.of]
  <2> SUFFICES ASSUME NEW x \in LogEvents, x.run \in 1..runs[x.of]  PROVE x.run \in 1..runs'[x.of]
    OBVIOUS
  <2>1. runs[x.of] \in Nat /\ runs'[x.of] \in Nat /\ runs'[x.of] >= runs[x.of]
    BY DEF LogEvents, Grows, LogTypes
  <2> QED  BY <2>1
<1>3. \A k \in 1..Len(news) : news[k] \in LogEvents
  BY DEF LogTypes
<1>4. \A k \in 1..Len(news) : news[k].what = "start" => news[k].run \in 1..runs'[news[k].of]
  BY <1>2, <1>3 DEF LogTold
<1>5. CASE news' = news
  BY <1>1, <1>4, <1>5 DEF LogTold, LogTypes
<1>6. ASSUME NEW e, Tells(e)  PROVE LogTold' /\ news' \in Seq(LogEvents)
  <2>1. /\ news' \in Seq(LogEvents) /\ Len(news) \in Nat /\ Len(news') = Len(news) + 1
        /\ \A k \in 1..Len(news) : news'[k] = news[k]
        /\ news'[Len(news')] = e
    BY <1>6, Appended DEF Tells, LogTypes
  <2>2. \A k \in 1..Len(news') : k \in 1..Len(news) \/ k = Len(news')
    BY <2>1
  <2>3. \A k \in 1..Len(news') : news'[k].what = "start" => news'[k].run \in 1..runs'[news'[k].of]
    BY <1>4, <1>6, <2>1, <2>2 DEF Tells
  <2> QED  BY <1>1, <2>1, <2>3 DEF LogTold
<1> QED  BY <1>5, <1>6

LEMMA GrowsCovered ==
  ASSUME LogTypes, LogStages, LogCovered, Grows, news' = news \/ \E e : Tells(e),
         \A c \in Logged : c \in Logging!Listed' => c \in Logging!Listed \/ runs'[c] = 0,
         \A c \in Logged : \A r \in 1..runs'[c] : r \in 1..runs[c] \/ <<c, r>> \in untold' \/ StartTold(c, r)'
  PROVE  LogCovered'
<1>1. /\ reader' = reader /\ at' = at /\ answer' = answer /\ broken' = broken
      /\ at \in {"list", "group"} /\ untold \subseteq untold'
  BY DEF Grows
<1>2. \A c \in Logged, r \in Nat : StartTold(c, r) => StartTold(c, r)'
  <2>1. CASE news' = news
    BY <2>1 DEF StartTold
  <2>2. ASSUME NEW e, Tells(e)  PROVE \A c \in Logged, r \in Nat : StartTold(c, r) => StartTold(c, r)'
    <3>1. /\ Len(news) \in Nat /\ Len(news') = Len(news) + 1
          /\ \A k \in 1..Len(news) : news'[k] = news[k]
      BY <2>2, Appended DEF Tells, LogTypes
    <3>2. \A k \in 1..Len(news) : k \in 1..Len(news')
      BY <3>1
    <3> QED  BY <3>1, <3>2 DEF StartTold
  <2> QED  BY <2>1, <2>2
<1>3. \A c \in Logged : FirstListed(c) => FirstListed(c)'
  <2>1. \A c \in Logged : life[c] = "gone" => life'[c] = "gone"
    BY DEF Grows
  <2>2. \A c \in Logged : Mute(c)' = Mute(c)
    BY DEF Grows, Mute
  <2> QED  BY <1>1, <2>1, <2>2 DEF FirstListed
<1>4. \A c \in Logged, r \in Nat : Covered(c, r) => Covered(c, r)'
  BY <1>1, <1>2, <1>3 DEF Covered
<1> SUFFICES ASSUME NEW c \in Logged, (at = "list" \/ c \in Logging!Listed)', NEW r \in 1..runs'[c]
             PROVE  Covered(c, r)'
  BY DEF LogCovered
<1>5. runs'[c] \in Nat /\ r \in Nat
  BY DEF Grows
<1>6. CASE <<c, r>> \in untold' \/ StartTold(c, r)'
  BY <1>6 DEF Covered
<1>7. CASE r \in 1..runs[c]
  <2>1. at = "list" \/ c \in Logging!Listed
    BY <1>1, <1>5
  <2> QED  BY <1>1, <1>4, <1>5, <1>7, <2>1 DEF LogCovered
<1> QED  BY <1>6, <1>7

(* What a step of the engine changes of the ends the monitor was told.     *)
LEMMA GrowsWatch ==
  ASSUME LogTypes, LogWatch, Grows, NEW c \in Logged,
         \A d \in Logged \ {c} : life'[d] = life[d] /\ runs'[d] = runs[d],
         \/ news' = news
         \/ \E e : Tells(e) /\ e.of = c,
         \/ life'[c] = "running" \/ runs'[c] = 0
         \/ news' = news /\ runs'[c] = runs[c] /\ life[c] # "running"
         \/ listening = "loop" => \E e : Tells(e) /\ e.of = c /\ e.what = "die"
  PROVE  LogWatch'
<1> SUFFICES ASSUME listening = "loop", NEW d \in Logged, life'[d] # "running", runs'[d] >= 1,
                    reader[<<d, runs'[d]>>].pc # "none" \/ StartTold(d, runs[d])'
             PROVE  EndTold(d)' \/ NotWatched(d)'
  BY DEF LogWatch, Grows
<1>1. followed' = followed
  BY DEF Grows
<1>2. CASE d = c /\ \E e : Tells(e) /\ e.of = c /\ e.what = "die"
  <2>1. PICK e : Tells(e) /\ e.of = c /\ e.what = "die"
    BY <1>2
  <2>2. /\ Len(news) \in Nat /\ Len(news') = Len(news) + 1 /\ news'[Len(news')] = e
    BY <2>1, Appended DEF Tells, LogTypes
  <2>3. \A j \in 1..Len(news') : Renews(news'[j], c) => j < Len(news')
    <3> SUFFICES ASSUME NEW j \in 1..Len(news'), Renews(news'[j], c)  PROVE j < Len(news')
      OBVIOUS
    <3>1. j # Len(news')
      BY <2>1, <2>2 DEF Renews
    <3> QED  BY <2>2, <3>1
  <2>4. Len(news') \in 1..Len(news')
    BY <2>2
  <2> QED  BY <1>2, <2>1, <2>2, <2>3, <2>4 DEF EndTold
<1>3. CASE /\ news' = news /\ runs'[d] = runs[d]
           /\ life'[d] = life[d] \/ (d = c /\ life[d] # "running")
  <2>1. life[d] # "running" /\ runs[d] >= 1 /\ (reader[<<d, runs[d]>>].pc # "none" \/ StartTold(d, runs[d]))
    BY <1>3 DEF StartTold
  <2>2. EndTold(d) \/ NotWatched(d)
    BY <2>1 DEF LogWatch
  <2> QED  BY <1>1, <1>3, <2>2 DEF EndTold, NotWatched
<1>4. CASE d # c /\ \E e : Tells(e) /\ e.of = c
  <2>1. PICK e : Tells(e) /\ e.of = c
    BY <1>4
  <2>2. /\ Len(news) \in Nat /\ Len(news') = Len(news) + 1 /\ news'[Len(news')] = e
        /\ \A k \in 1..Len(news) : news'[k] = news[k]
    BY <2>1, Appended DEF Tells, LogTypes
  <2>3. \A k \in 1..Len(news') : news'[k].of = d => k \in 1..Len(news)
    BY <1>4, <2>1, <2>2
  <2>a. \A k \in 1..Len(news) : k \in 1..Len(news')
    BY <2>2
  <2>4. StartTold(d, runs[d])' => StartTold(d, runs[d])
    BY <1>4, <2>2, <2>3 DEF StartTold
  <2>5. EndTold(d) \/ NotWatched(d)
    BY <1>4, <2>4 DEF LogWatch
  <2>6. EndTold(d) => EndTold(d)'
    BY <2>2, <2>3, <2>a DEF EndTold, Renews
  <2>7. NotWatched(d) => NotWatched(d)'
    BY <1>1, <2>2, <2>3 DEF NotWatched, Renews
  <2> QED  BY <2>5, <2>6, <2>7
<1>5. CASE runs'[c] = 0
  BY <1>3, <1>4, <1>5
<1> QED  BY <1>2, <1>3, <1>4, <1>5

LEMMA CreateStep ==
  ASSUME LogInv, NEW c \in Logged, Logging!Create(c)  PROVE LogInv'
<1>0. LogTypes /\ LogEngine /\ LogTold /\ LogStages /\ LogCopies /\ LogCovered /\ LogWatch
  BY DEF LogInv
<1>1. /\ UNCHANGED <<asked, at, reader, listening, followed, interrupted, broken, answer, runs, said, untold>>
      /\ at \in {"list", "group"} /\ life[c] = "absent" /\ life' = [life EXCEPT ![c] = "created"]
      /\ troubles < (MaxTroubles - 1) /\ troubles' = troubles + 1
  BY DEF Logging!Create, Logging!Trouble, Logging!UnderWay
<1> DEFINE e == [what |-> "create", of |-> c, run |-> runs[c]]
<1>2. e \in LogEvents /\ e.of = c /\ e.what = "create" /\ runs[c] = 0
  BY <1>0, <1>1 DEF LogEvents, LogTypes, LogEngine
<1>3. IF listening = "loop" THEN news' = Append(news, e) ELSE news' = news
  BY <1>1 DEF Logging!Create, Logging!Tell
<1> HIDE DEF e
<1>4. news' = news \/ (Tells(e) /\ e.of = c)
  BY <1>2, <1>3 DEF Tells
<1>5. Grows
  <2>1. \A d \in Logged : runs[d] \in Nat /\ (life[d] = "gone" => life'[d] = "gone")
    BY <1>0, <1>1 DEF LogTypes
  <2> QED  BY <1>1, <2>1 DEF Grows
<1>6. LogTold' /\ LogStages' /\ LogCopies' /\ news' \in Seq(LogEvents)
  BY <1>0, <1>4, <1>5, GrowsTold, GrowsStages, GrowsCopies
<1>7. LogTypes'
  <2>1. troubles' \in 0..(MaxTroubles - 1)
    BY <1>0, <1>1, TroublesOfLogs DEF LogTypes
  <2>2. life' \in [Logged -> {"absent", "created", "running", "exited", "gone"}]
    BY <1>0, <1>1 DEF LogTypes
  <2> QED  BY <1>0, <1>1, <1>6, <2>1, <2>2 DEF LogTypes
<1>8. LogEngine'
  <2>1. troubles \in Nat /\ \A d \in Logged : runs[d] \in Nat
    BY <1>0 DEF LogTypes
  <2>2. \A d \in Logged : runs[d] <= troubles'
    BY <1>0, <1>1, <2>1 DEF LogEngine
  <2>3. \A d \in Logged : runs[d] <= troubles' + 1
    BY <1>1, <2>1, <2>2
  <2>4. \A d \in Logged : d # c => life'[d] = life[d]
    BY <1>0, <1>1 DEF LogTypes
  <2>5. life'[c] = "created" /\ 1..runs[c] = {}
    BY <1>0, <1>1, <1>2 DEF LogTypes
  <2> QED  BY <1>0, <1>1, <1>2, <2>3, <2>4, <2>5 DEF LogEngine
<1>9. LogCovered'
  <2>1. \A d \in Logged : d \in Logging!Listed' => d \in Logging!Listed \/ runs'[d] = 0
    BY <1>0, <1>1, <1>2 DEF Logging!Listed, Logging!Present, LogTypes
  <2>2. \A d \in Logged : \A r \in 1..runs'[d] : r \in 1..runs[d]
    BY <1>1
  <2> QED  BY <1>0, <1>4, <1>5, <2>1, <2>2, GrowsCovered
<1>10. LogWatch'
  <2>1. \A d \in Logged \ {c} : life'[d] = life[d] /\ runs'[d] = runs[d]
    BY <1>0, <1>1 DEF LogTypes
  <2> QED  BY <1>0, <1>1, <1>2, <1>4, <1>5, <2>1, GrowsWatch
<1> QED  BY <1>6, <1>7, <1>8, <1>9, <1>10 DEF LogInv

LEMMA StartStep ==
  ASSUME LogInv, NEW c \in Logged, Logging!Start(c)  PROVE LogInv'
<1>0. LogTypes /\ LogEngine /\ LogTold /\ LogStages /\ LogCopies /\ LogCovered /\ LogWatch
  BY DEF LogInv
<1>1. /\ UNCHANGED <<asked, at, said, reader, listening, followed, interrupted, broken, answer>>
      /\ at \in {"list", "group"} /\ life[c] \in {"created", "exited"} /\ life' = [life EXCEPT ![c] = "running"]
      /\ runs' = [runs EXCEPT ![c] = @ + 1]
      /\ untold' = IF listening = "loop" THEN untold ELSE untold \cup {<<c, runs'[c]>>}
      /\ troubles < (MaxTroubles - 1) /\ troubles' = troubles + 1
  BY DEF Logging!Start, Logging!Trouble, Logging!UnderWay
<1>2. /\ runs[c] \in Nat /\ runs'[c] = runs[c] + 1 /\ runs[c] <= troubles + 1 /\ troubles \in Nat
      /\ \A d \in Logged : runs[d] \in Nat /\ runs'[d] \in Nat /\ runs'[d] >= runs[d]
      /\ \A d \in Logged \ {c} : life'[d] = life[d] /\ runs'[d] = runs[d]
      /\ life'[c] = "running"
  BY <1>0, <1>1 DEF LogTypes, LogEngine
<1> DEFINE e == [what |-> "start", of |-> c, run |-> runs'[c]]
<1>3. e \in LogEvents /\ e.of = c /\ e.what = "start" /\ e.run = runs'[c]
  BY <1>2 DEF LogEvents
<1>4. IF listening = "loop" THEN news' = Append(news, e) ELSE news' = news
  BY DEF Logging!Start, Logging!Tell
<1> HIDE DEF e
<1>5. (news' = news /\ listening # "loop") \/ (Tells(e) /\ e.of = c)
  BY <1>2, <1>3, <1>4 DEF Tells
<1>6. Grows
  BY <1>1, <1>2 DEF Grows
<1>7. LogTold' /\ LogStages' /\ LogCopies' /\ news' \in Seq(LogEvents)
  BY <1>0, <1>5, <1>6, GrowsTold, GrowsStages, GrowsCopies
<1>8. LogTypes'
  <2>1. troubles' \in 0..(MaxTroubles - 1)
    BY <1>0, <1>1, TroublesOfLogs DEF LogTypes
  <2>2. /\ life' \in [Logged -> {"absent", "created", "running", "exited", "gone"}]
        /\ runs' \in [Logged -> Nat]
    BY <1>0, <1>1, <1>2 DEF LogTypes
  <2>3. <<c, runs'[c]>> \in Logging!Copies
    BY <1>1, <1>2, CopyIndex, TroublesOfLogs
  <2> QED  BY <1>0, <1>1, <1>7, <2>1, <2>2, <2>3 DEF LogTypes
<1>9. LogEngine'
  <2> SUFFICES ASSUME NEW d \in Logged
               PROVE  /\ runs'[d] <= troubles' + 1
                      /\ life'[d] \in {"absent", "created"} => runs'[d] = 0
                      /\ life'[d] \in {"running", "exited"} => runs'[d] >= 1
                      /\ \A r \in 1..runs'[d] : r < runs'[d] \/ life'[d] # "running" => <<d, r>> \in said'
                      /\ \A r \in 0..Logging!MaxStarts : <<d, r>> \in said' => r \in 1..runs'[d]
    BY DEF LogEngine
  <2>1. CASE d = c
    <3>1. \A r \in 1..runs[c] : <<c, r>> \in said
      BY <1>0, <1>1 DEF LogEngine
    <3>2. \A r \in 1..runs'[c] : r < runs'[c] => r \in 1..runs[c]
      BY <1>2
    <3>3. \A r \in 0..Logging!MaxStarts : <<c, r>> \in said => r \in 1..runs[c]
      BY <1>0 DEF LogEngine
    <3>4. \A r \in 1..runs[c] : r \in 1..runs'[c]
      BY <1>2
    <3> QED  BY <1>1, <1>2, <2>1, <3>1, <3>2, <3>3, <3>4
  <2>2. CASE d # c
    <3>1. life'[d] = life[d] /\ runs'[d] = runs[d] /\ said' = said /\ runs[d] \in Nat
      BY <1>1, <1>2, <2>2
    <3>2. runs[d] <= troubles'+ 1
      <4>1. runs[d] <= troubles + 1
        BY <1>0 DEF LogEngine
      <4> QED  BY <1>1, <1>2, <3>1, <4>1
    <3> QED  BY <1>0, <3>1, <3>2 DEF LogEngine
  <2> QED  BY <2>1, <2>2
<1>10. LogCovered'
  <2>1. \A d \in Logged : d \in Logging!Listed' => d \in Logging!Listed \/ runs'[d] = 0
    BY <1>0, <1>1 DEF Logging!Listed, Logging!Present, LogTypes
  <2>2. StartTold(c, runs[c])' \/ <<c, runs'[c]>> \in untold'
    <3>1. CASE listening = "loop"
      <4>1. news' = Append(news, e)
        BY <1>4, <3>1
      <4>2. Len(news') \in 1..Len(news') /\ news'[Len(news')] = e
        <5>1. Len(news) \in Nat /\ Len(news') = Len(news) + 1 /\ news'[Len(news')] = e
          BY <1>0, <1>3, <4>1, Appended DEF LogTypes
        <5> QED  BY <5>1
      <4> QED  BY <1>3, <4>2 DEF StartTold
    <3>2. CASE listening # "loop"
      BY <1>1, <3>2
    <3> QED  BY <3>1, <3>2
  <2>3. ASSUME NEW d \in Logged, NEW r \in 1..runs'[d]
        PROVE  r \in 1..runs[d] \/ <<d, r>> \in untold' \/ StartTold(d, r)'
    <3>1. CASE d = c /\ r = runs'[c]
      BY <2>2, <3>1 DEF StartTold
    <3>2. CASE ~(d = c /\ r = runs'[c])
      BY <1>2, <3>2
    <3> QED  BY <3>1, <3>2
  <2> QED  BY <1>0, <1>5, <1>6, <2>1, <2>3, GrowsCovered
<1>11. LogWatch'
  BY <1>0, <1>2, <1>5, <1>6, GrowsWatch
<1> QED  BY <1>7, <1>8, <1>9, <1>10, <1>11 DEF LogInv

LEMMA ExitStep ==
  ASSUME LogInv, NEW c \in Logged, Logging!Exit(c)  PROVE LogInv'
<1>0. LogTypes /\ LogEngine /\ LogTold /\ LogStages /\ LogCopies /\ LogCovered /\ LogWatch
  BY DEF LogInv
<1>1. /\ UNCHANGED <<asked, at, reader, listening, followed, interrupted, broken, answer, runs, untold, troubles>>
      /\ at \in {"list", "group"} /\ life[c] = "running" /\ life' = [life EXCEPT ![c] = "exited"]
      /\ said' = said \cup {<<c, runs[c]>>}
  BY DEF Logging!Exit, Logging!UnderWay
<1>2. /\ runs[c] \in Nat /\ runs[c] >= 1 /\ runs[c] <= troubles + 1 /\ troubles \in 0..(MaxTroubles - 1)
      /\ \A d \in Logged \ {c} : life'[d] = life[d]
      /\ life'[c] = "exited"
  BY <1>0, <1>1 DEF LogTypes, LogEngine
<1> DEFINE e == [what |-> "die", of |-> c, run |-> runs[c]]
<1>3. e \in LogEvents /\ e.of = c /\ e.what = "die"
  BY <1>2 DEF LogEvents
<1>4. IF listening = "loop" THEN news' = Append(news, e) ELSE news' = news
  BY <1>1 DEF Logging!Exit, Logging!Tell
<1> HIDE DEF e
<1>5. (news' = news /\ listening # "loop") \/ (Tells(e) /\ e.of = c)
  BY <1>3, <1>4 DEF Tells
<1>6. Grows
  <2>1. \A d \in Logged : runs[d] \in Nat /\ (life[d] = "gone" => life'[d] = "gone")
    BY <1>0, <1>1 DEF LogTypes
  <2> QED  BY <1>1, <2>1 DEF Grows
<1>7. LogTold' /\ LogStages' /\ LogCopies' /\ news' \in Seq(LogEvents)
  BY <1>0, <1>5, <1>6, GrowsTold, GrowsStages, GrowsCopies
<1>8. LogTypes'
  <2>1. <<c, runs[c]>> \in Logging!Copies
    BY <1>2, CopyIndex, TroublesOfLogs
  <2>2. life' \in [Logged -> {"absent", "created", "running", "exited", "gone"}]
    BY <1>0, <1>1 DEF LogTypes
  <2> QED  BY <1>0, <1>1, <1>7, <2>1, <2>2 DEF LogTypes
<1>9. LogEngine'
  <2> SUFFICES ASSUME NEW d \in Logged
               PROVE  /\ runs'[d] <= troubles' + 1
                      /\ life'[d] \in {"absent", "created"} => runs'[d] = 0
                      /\ life'[d] \in {"running", "exited"} => runs'[d] >= 1
                      /\ \A r \in 1..runs'[d] : r < runs'[d] \/ life'[d] # "running" => <<d, r>> \in said'
                      /\ \A r \in 0..Logging!MaxStarts : <<d, r>> \in said' => r \in 1..runs'[d]
    BY DEF LogEngine
  <2>1. CASE d = c
    <3>1. \A r \in 1..runs[c] : r < runs[c] => <<c, r>> \in said
      BY <1>0 DEF LogEngine
    <3>2. \A r \in 1..runs[c] : r < runs[c] \/ r = runs[c]
      BY <1>2
    <3>3. \A r \in 0..Logging!MaxStarts : <<c, r>> \in said => r \in 1..runs[c]
      BY <1>0 DEF LogEngine
    <3>4. \A r \in 0..Logging!MaxStarts : <<c, r>> \in said' => r \in 1..runs[c]
      BY <1>1, <1>2, <3>3
    <3> QED  BY <1>1, <1>2, <2>1, <3>1, <3>2, <3>4
  <2>2. CASE d # c
    <3>1. life'[d] = life[d] /\ runs'[d] = runs[d] /\ troubles' = troubles
      BY <1>1, <1>2, <2>2
    <3>2. \A r : <<d, r>> \in said' <=> <<d, r>> \in said
      BY <1>1, <2>2
    <3> QED  BY <1>0, <3>1, <3>2 DEF LogEngine
  <2> QED  BY <2>1, <2>2
<1>10. LogCovered'
  <2>1. \A d \in Logged : d \in Logging!Listed' => d \in Logging!Listed \/ runs'[d] = 0
    BY <1>0, <1>1 DEF Logging!Listed, Logging!Present, LogTypes
  <2>2. \A d \in Logged : \A r \in 1..runs'[d] : r \in 1..runs[d]
    BY <1>1
  <2> QED  BY <1>0, <1>5, <1>6, <2>1, <2>2, GrowsCovered
<1>11. LogWatch'
  BY <1>0, <1>1, <1>2, <1>3, <1>5, <1>6, GrowsWatch DEF LogWatch
<1> QED  BY <1>7, <1>8, <1>9, <1>10, <1>11 DEF LogInv

LEMMA RemoveStep ==
  ASSUME LogInv, NEW c \in Logged, Logging!Remove(c)  PROVE LogInv'
<1>0. LogTypes /\ LogEngine /\ LogTold /\ LogStages /\ LogCopies /\ LogCovered /\ LogWatch
  BY DEF LogInv
<1>1. /\ UNCHANGED <<asked, at, runs, said, untold, reader, listening, followed, news, interrupted, broken, answer>>
      /\ at \in {"list", "group"} /\ life[c] \in {"created", "exited"} /\ life' = [life EXCEPT ![c] = "gone"]
      /\ troubles < (MaxTroubles - 1) /\ troubles' = troubles + 1
  BY DEF Logging!Remove, Logging!Trouble, Logging!UnderWay, Logging!watch
<1>2. /\ troubles \in Nat /\ \A d \in Logged : runs[d] \in Nat
      /\ \A d \in Logged \ {c} : life'[d] = life[d] /\ runs'[d] = runs[d]
      /\ life'[c] = "gone"
  BY <1>0, <1>1 DEF LogTypes
<1>3. Grows
  BY <1>1, <1>2 DEF Grows
<1>4. LogTold' /\ LogStages' /\ LogCopies' /\ news' \in Seq(LogEvents)
  BY <1>0, <1>1, <1>3, GrowsTold, GrowsStages, GrowsCopies
<1>5. LogTypes'
  <2>1. troubles' \in 0..(MaxTroubles - 1)
    BY <1>0, <1>1, TroublesOfLogs DEF LogTypes
  <2>2. life' \in [Logged -> {"absent", "created", "running", "exited", "gone"}]
    BY <1>0, <1>1 DEF LogTypes
  <2> QED  BY <1>0, <1>1, <1>4, <2>1, <2>2 DEF LogTypes
<1>6. LogEngine'
  <2>1. \A d \in Logged : runs[d] <= troubles + 1
    BY <1>0 DEF LogEngine
  <2>2. \A d \in Logged : runs[d] <= troubles' + 1
    BY <1>1, <1>2, <2>1
  <2>3. \A r \in 1..runs[c] : <<c, r>> \in said
    BY <1>0, <1>1 DEF LogEngine
  <2> SUFFICES ASSUME NEW d \in Logged
               PROVE  /\ runs'[d] <= troubles' + 1
                      /\ life'[d] \in {"absent", "created"} => runs'[d] = 0
                      /\ life'[d] \in {"running", "exited"} => runs'[d] >= 1
                      /\ \A r \in 1..runs'[d] : r < runs'[d] \/ life'[d] # "running" => <<d, r>> \in said'
                      /\ \A r \in 0..Logging!MaxStarts : <<d, r>> \in said' => r \in 1..runs'[d]
    BY DEF LogEngine
  <2>4. CASE d = c
    BY <1>0, <1>1, <1>2, <2>2, <2>3, <2>4 DEF LogEngine
  <2>5. CASE d # c
    BY <1>0, <1>1, <1>2, <2>2, <2>5 DEF LogEngine
  <2> QED  BY <2>4, <2>5
<1>7. LogCovered'
  <2>1. \A d \in Logged : d \in Logging!Listed' => d \in Logging!Listed \/ runs'[d] = 0
    BY <1>0, <1>1, <1>2 DEF Logging!Listed, Logging!Present, LogTypes
  <2>2. \A d \in Logged : \A r \in 1..runs'[d] : r \in 1..runs[d]
    BY <1>1
  <2> QED  BY <1>0, <1>1, <1>3, <2>1, <2>2, GrowsCovered
<1>8. LogWatch'
  <2>1. life[c] # "running" /\ runs'[c] = runs[c] /\ news' = news
    BY <1>1
  <2> QED  BY <1>0, <1>2, <1>3, <2>1, GrowsWatch
<1> QED  BY <1>4, <1>5, <1>6, <1>7, <1>8 DEF LogInv

LEMMA InterruptStep == ASSUME LogInv, Logging!Interrupt  PROVE LogInv'
<1>0. LogTypes /\ LogEngine /\ LogTold /\ LogStages /\ LogCopies /\ LogCovered /\ LogWatch
  BY DEF LogInv
<1>1. /\ UNCHANGED <<asked, at, life, runs, said, untold, reader, listening, followed, news, broken, answer>>
      /\ troubles < (MaxTroubles - 1) /\ troubles' = troubles + 1 /\ interrupted' = TRUE
  BY DEF Logging!Interrupt, Logging!Trouble, Logging!engine, Logging!watch
<1>2. LogTypes'
  <2>1. troubles' \in 0..(MaxTroubles - 1)
    BY <1>0, <1>1, TroublesOfLogs DEF LogTypes
  <2> QED  BY <1>0, <1>1, <2>1 DEF LogTypes
<1>3. LogEngine'
  <2>1. \A d \in Logged : runs[d] <= troubles + 1 /\ runs[d] \in Nat
    BY <1>0 DEF LogEngine, LogTypes
  <2>2. troubles \in Nat
    BY <1>0 DEF LogTypes
  <2>3. \A d \in Logged : runs[d] <= troubles' + 1
    BY <1>1, <2>1, <2>2
  <2> QED  BY <1>0, <1>1, <2>3 DEF LogEngine
<1>4. LogTold' /\ LogStages'
  BY <1>0, <1>1 DEF LogTold, LogStages
<1>5. LogCopies'
  BY <1>0, <1>1 DEF LogCopies, CopyOK, Mute
<1>6. LogCovered'
  BY <1>0, <1>1 DEF LogCovered, Covered, StartTold, FirstListed, Mute,
    Logging!Listed, Logging!Present
<1>7. LogWatch'
  BY <1>0, <1>1 DEF LogWatch, EndTold, NotWatched, StartTold, Renews
<1> QED  BY <1>2, <1>3, <1>4, <1>5, <1>6, <1>7 DEF LogInv

LEMMA GiveStep == ASSUME LogInv, Logging!Give  PROVE LogInv'
<1>0. LogTypes /\ LogEngine /\ LogTold /\ LogStages /\ LogCopies /\ LogCovered /\ LogWatch
  BY DEF LogInv
<1>1. /\ at = "idle" /\ at' = "list" /\ asked' \in Logging!Requests
      /\ life' \in [Logged -> {"absent", "running", "exited"}]
      /\ runs' = [c \in Logged |-> IF life'[c] \in {"running", "exited"} THEN 1 ELSE 0]
      /\ said' = {c \in Logged : life'[c] = "exited"} \X {1}
      /\ UNCHANGED <<reader, listening, followed, news, untold, interrupted, broken, troubles, answer>>
  BY DEF Logging!Give, Logging!watch
<1>2. /\ listening = "none" /\ news = <<>> /\ answer = "none"
      /\ \A i \in Logging!Copies : reader[i].pc = "none" /\ reader[i].shown = {}
  <2>1. listening = "none" /\ answer = "none" /\ \A i \in Logging!Copies : reader[i].pc = "none"
    BY <1>0, <1>1 DEF LogStages
  <2>2. news = <<>>
    BY <1>0, <2>1 DEF LogStages
  <2>3. \A i \in Logging!Copies : reader[i].shown = {}
    BY <1>0, <2>1 DEF LogCopies, CopyOK
  <2> QED  BY <2>1, <2>2, <2>3
<1>3. \A c \in Logged : runs'[c] \in {0, 1} /\ (runs'[c] = 1 <=> life'[c] \in {"running", "exited"})
  BY <1>1
<1>4. \A c \in Logged : life'[c] \in {"absent", "running", "exited"}
  BY <1>1
<1>5. \A c, r : <<c, r>> \in said' <=> c \in Logged /\ r = 1 /\ life'[c] = "exited"
  BY <1>1
<1>6. LogTypes'
  <2>1. said' \subseteq Logging!Copies
    <3>1. 1 \in 0..Logging!MaxStarts
      BY CopyIndex, TroublesOfLogs
    <3> QED  BY <1>1, <3>1 DEF Logging!Copies
  <2>2. life' \in [Logged -> {"absent", "created", "running", "exited", "gone"}]
    BY <1>1
  <2>3. runs' \in [Logged -> Nat]
    BY <1>1
  <2>4. at' \in {"idle", "list", "group", "returned"}
    BY <1>1
  <2> QED  BY <1>0, <1>1, <2>1, <2>2, <2>3, <2>4 DEF LogTypes
<1>7. LogEngine'
  <2>1. troubles' \in Nat
    BY <1>0, <1>1 DEF LogTypes
  <2> SUFFICES ASSUME NEW d \in Logged
               PROVE  /\ runs'[d] <= troubles' + 1
                      /\ life'[d] \in {"absent", "created"} => runs'[d] = 0
                      /\ life'[d] \in {"running", "exited"} => runs'[d] >= 1
                      /\ \A r \in 1..runs'[d] : r < runs'[d] \/ life'[d] # "running" => <<d, r>> \in said'
                      /\ \A r \in 0..Logging!MaxStarts : <<d, r>> \in said' => r \in 1..runs'[d]
    BY DEF LogEngine
  <2>2. \A r : <<d, r>> \in said' <=> r = 1 /\ life'[d] = "exited"
    BY <1>5
  <2>3. /\ runs'[d] \in {0, 1} /\ life'[d] \in {"absent", "running", "exited"}
        /\ runs'[d] = 1 <=> life'[d] \in {"running", "exited"}
    BY <1>3, <1>4
  <2>4. \A r \in 1..runs'[d] : r = 1 /\ runs'[d] = 1
    BY <2>3
  <2>5. runs'[d] <= troubles' + 1
    BY <2>1, <2>3
  <2>6. \A r \in 0..Logging!MaxStarts : <<d, r>> \in said' => r \in 1..runs'[d]
    BY <2>2, <2>3
  <2>7. \A r \in 1..runs'[d] : r < runs'[d] \/ life'[d] # "running" => <<d, r>> \in said'
    BY <2>2, <2>3, <2>4
  <2> QED  BY <2>3, <2>5, <2>6, <2>7
<1>8. LogTold' /\ LogStages'
  BY <1>1, <1>2 DEF LogTold, LogStages
<1>9. LogCopies'
  <2> SUFFICES ASSUME NEW i \in Logging!Copies  PROVE CopyOK(i)'
    BY DEF LogCopies
  <2>1. reader' = reader /\ reader[i].pc = "none" /\ reader[i].shown = {} /\ (i[2] = 0 => reader[i].since = 0)
    BY <1>0, <1>1, <1>2 DEF LogCopies, CopyOK
  <2> QED  BY <2>1 DEF CopyOK
<1>10. LogCovered'
  <2>1. \A c \in Logged : \A r \in 1..runs'[c] : r = 1
    BY <1>3
  <2> QED  BY <1>1, <2>1 DEF LogCovered, Covered
<1>11. LogWatch'
  BY <1>1, <1>2 DEF LogWatch
<1> QED  BY <1>6, <1>7, <1>8, <1>9, <1>10, <1>11 DEF LogInv

LEMMA ListStep == ASSUME LogInv, Logging!List  PROVE LogInv'
<1>0. LogTypes /\ LogEngine /\ LogTold /\ LogStages /\ LogCopies /\ LogCovered /\ LogWatch
  BY DEF LogInv
<1>1. at = "list" /\ UNCHANGED <<asked, life, runs, said, untold, followed, news, interrupted, broken, troubles>>
  BY DEF Logging!List, Logging!engine
<1>2. listening = "none" /\ answer = "none" /\ news = <<>> /\ \A i \in Logging!Copies : reader[i].pc = "none"
  <2>1. listening = "none" /\ answer = "none" /\ \A i \in Logging!Copies : reader[i].pc = "none"
    BY <1>0, <1>1 DEF LogStages
  <2> QED  BY <1>0, <2>1 DEF LogStages
<1>3. /\ Logging!NoCopy \in CopyState /\ Logging!NoCopy.pc = "none" /\ Logging!NoCopy.shown = {}
      /\ Logging!NoCopy.since = 0 /\ Logging!NoCopy.upto = 0
  BY DEF Logging!NoCopy, CopyState, Places
<1> DEFINE fresh == [Logging!NoCopy EXCEPT !.pc = "inspect"]
<1>4. fresh \in CopyState /\ fresh.pc = "inspect" /\ fresh.shown = {} /\ fresh.since = 0 /\ fresh.upto = 0
  BY DEF Logging!NoCopy, CopyState, Places
<1>5. LogEngine'
  BY <1>0, <1>1 DEF LogEngine
<1>6. CASE at' = "returned" /\ answer' = "err" /\ UNCHANGED <<reader, listening>>
  <2>1. LogTypes' /\ LogTold'
    BY <1>0, <1>1, <1>6 DEF LogTypes, LogTold
  <2>2. LogStages' /\ LogCovered' /\ LogWatch'
    BY <1>0, <1>1, <1>2, <1>6 DEF LogStages, LogCovered, LogWatch
  <2>3. LogCopies'
    BY <1>0, <1>1, <1>6 DEF LogCopies, CopyOK, Mute
  <2> QED  BY <1>5, <2>1, <2>2, <2>3 DEF LogInv
<1>7. CASE /\ at' = "group" /\ answer' = answer
           /\ reader' = [i \in Logging!Copies |-> IF i[2] = 0 /\ i[1] \in Logging!Listed THEN fresh ELSE Logging!NoCopy]
           /\ listening' = IF asked.follow THEN "list" ELSE "none"
  <2> HIDE DEF fresh
  <2>1. \A i \in Logging!Copies : (reader'[i] = fresh /\ i[2] = 0) \/ reader'[i] = Logging!NoCopy
    BY <1>7
  <2>2. LogTypes'
    <3>1. reader' \in [Logging!Copies -> CopyState]
      BY <1>3, <1>4, <1>7
    <3> QED  BY <1>0, <1>1, <1>7, <3>1 DEF LogTypes
  <2>3. \A i \in Logging!Copies : i[2] >= 1 => reader'[i].pc = "none"
    BY <1>3, <2>1
  <2>4. LogTold' /\ LogStages'
    BY <1>0, <1>1, <1>2, <1>7, <2>3 DEF LogTold, LogStages
  <2>5. LogCopies'
    <3> SUFFICES ASSUME NEW i \in Logging!Copies  PROVE CopyOK(i)'
      BY DEF LogCopies
    <3>1. reader'[i].pc \in {"none", "inspect"} /\ reader'[i].shown = {} /\ reader'[i].since = 0
      BY <1>3, <1>4, <2>1
    <3> QED  BY <3>1 DEF CopyOK
  <2>6. LogCovered'
    <3> SUFFICES ASSUME NEW c \in Logged, c \in Logging!Listed', NEW r \in 1..runs[c]  PROVE Covered(c, r)'
      BY <1>1, <1>7 DEF LogCovered
    <3>1. c \in Logging!Listed
      BY <1>1 DEF Logging!Listed, Logging!Present
    <3>2. Covered(c, r)
      BY <1>0, <1>1 DEF LogCovered
    <3>3. runs[c] \in 1..Logging!MaxStarts /\ r \in 0..Logging!MaxStarts
      <4>1. runs[c] <= troubles + 1 /\ runs[c] \in Nat /\ troubles \in 0..(MaxTroubles - 1)
        BY <1>0 DEF LogEngine, LogTypes
      <4> QED  BY <4>1, CopyIndex, TroublesOfLogs
    <3>4. <<c, r>> \in untold \/ r = 1
      <4>1. reader[<<c, r>>].pc = "none"
        BY <1>2, <3>3, CopyIndex
      <4>2. ~StartTold(c, r)
        BY <1>2 DEF StartTold
      <4> QED  BY <3>2, <4>1, <4>2 DEF Covered
    <3>5. FirstListed(c)'
      <4>1. <<c, 0>> \in Logging!Copies /\ <<c, 0>>[1] = c /\ <<c, 0>>[2] = 0
        BY CopyIndex
      <4>2. reader'[<<c, 0>>] = fresh
        BY <1>7, <3>1, <4>1
      <4> QED  BY <1>4, <4>2 DEF FirstListed
    <3> QED  BY <1>1, <3>4, <3>5 DEF Covered
  <2>7. LogWatch'
    BY <1>7 DEF LogWatch
  <2> QED  BY <1>5, <2>2, <2>4, <2>5, <2>6, <2>7 DEF LogInv
<1> QED  BY <1>6, <1>7 DEF Logging!List

LEMMA ReturnStep == ASSUME LogInv, Logging!Return  PROVE LogInv'
<1>0. LogTypes /\ LogEngine /\ LogTold /\ LogStages /\ LogCopies /\ LogCovered /\ LogWatch
  BY DEF LogInv
<1>1. /\ at = "group" /\ at' = "returned" /\ answer' = IF broken THEN "err" ELSE "nil"
      /\ listening \in {"none", "over"} /\ \A i \in Logging!Copies : reader[i].pc \in {"none", "over"}
      /\ UNCHANGED <<asked, life, runs, said, untold, reader, listening, followed, news, interrupted, broken, troubles>>
  BY DEF Logging!Return, Logging!engine, Logging!watch
<1>2. LogTypes' /\ LogEngine' /\ LogTold' /\ LogStages'
  BY <1>0, <1>1 DEF LogTypes, LogEngine, LogTold, LogStages
<1>3. LogCopies'
  BY <1>0, <1>1 DEF LogCopies, CopyOK, Mute
<1>4. LogCovered'
  BY <1>0, <1>1 DEF LogCovered, Covered, StartTold, FirstListed, Mute,
    Logging!Listed, Logging!Present
<1>5. LogWatch'
  BY <1>1 DEF LogWatch
<1> QED  BY <1>2, <1>3, <1>4, <1>5 DEF LogInv

(* A step of a copy.                                                       *)
LEMMA CopyStep ==
  ASSUME LogInv, NEW i \in Logging!Copies, NEW f \in CopyState, reader' = [reader EXCEPT ![i] = f],
         reader[i].pc \in {"inspect", "open", "copy"}, f.pc # "none",
         UNCHANGED <<asked, at, life, runs, said, untold, listening, followed, news, interrupted, troubles, answer>>,
         broken' = broken \/ broken' = TRUE,
         CopyOK(i)',
         i[2] = 0 /\ runs[i[1]] >= 1 /\ FirstListed(i[1]) => FirstListed(i[1])'
  PROVE  LogInv'
<1>0. LogTypes /\ LogEngine /\ LogTold /\ LogStages /\ LogCopies /\ LogCovered /\ LogWatch
  BY DEF LogInv
<1>1. reader'[i] = f /\ \A j \in Logging!Copies : j # i => reader'[j] = reader[j]
  BY <1>0 DEF LogTypes
<1>2. \A j \in Logging!Copies : reader'[j].pc = "none" <=> reader[j].pc = "none"
  BY <1>1
<1>3. at = "group" /\ answer = "none"
  <2>1. at \notin {"idle", "list", "returned"}
    BY <1>0 DEF LogStages
  <2> QED  BY <1>0, <2>1 DEF LogStages, LogTypes
<1>4. LogTypes' /\ LogEngine'
  <2>1. reader' \in [Logging!Copies -> CopyState]
    BY <1>0 DEF LogTypes
  <2>2. broken' \in BOOLEAN
    BY <1>0 DEF LogTypes
  <2> QED  BY <1>0, <2>1, <2>2 DEF LogTypes, LogEngine
<1>5. LogTold' /\ LogStages'
  BY <1>0, <1>2, <1>3 DEF LogTold, LogStages
<1>6. LogCopies'
  <2> SUFFICES ASSUME NEW j \in Logging!Copies, j # i  PROVE CopyOK(j)'
    BY DEF LogCopies
  <2>1. reader'[j] = reader[j] /\ CopyOK(j) /\ (~broken' => ~broken) /\ Mute(j[1])' = Mute(j[1])
    BY <1>0, <1>1 DEF LogCopies, Mute, LogTypes
  <2> QED  BY <2>1 DEF CopyOK
<1>7. LogCovered'
  <2> SUFFICES ASSUME NEW c \in Logged, c \in Logging!Listed', NEW r \in 1..runs[c]  PROVE Covered(c, r)'
    BY <1>3 DEF LogCovered
  <2>1. c \in Logging!Listed
    BY DEF Logging!Listed, Logging!Present
  <2>2. Covered(c, r)
    BY <1>0, <1>3, <2>1 DEF LogCovered
  <2>3. CASE <<c, r>> \in untold \/ StartTold(c, r)
    BY <2>3 DEF Covered, StartTold
  <2>4. CASE reader[<<c, r>>].pc # "none"
    <3>1. runs[c] \in Nat /\ runs[c] <= troubles + 1 /\ troubles \in 0..(MaxTroubles - 1)
      BY <1>0 DEF LogEngine, LogTypes
    <3>2. r \in 0..Logging!MaxStarts
      BY <3>1, CopyIndex, TroublesOfLogs
    <3>3. <<c, r>> \in Logging!Copies
      BY <3>2, CopyIndex
    <3> QED  BY <1>2, <2>4, <3>3 DEF Covered
  <2>5. CASE r = 1 /\ FirstListed(c)
    <3>1. <<c, 0>> \in Logging!Copies /\ <<c, 0>>[1] = c /\ <<c, 0>>[2] = 0 /\ runs[c] \in Nat /\ runs[c] >= 1
      BY <1>0, <2>5, CopyIndex DEF LogTypes
    <3>2. CASE <<c, 0>> = i
      BY <2>5, <3>1, <3>2 DEF Covered
    <3>3. CASE <<c, 0>> # i
      <4>1. reader'[<<c, 0>>] = reader[<<c, 0>>] /\ (~broken' => ~broken) /\ Mute(c)' = Mute(c)
        BY <1>0, <1>1, <3>1, <3>3 DEF Mute, LogTypes
      <4>2. FirstListed(c)'
        BY <2>5, <4>1 DEF FirstListed
      <4> QED  BY <2>5, <4>2 DEF Covered
    <3> QED  BY <3>2, <3>3
  <2> QED  BY <1>3, <2>2, <2>3, <2>4, <2>5 DEF Covered
<1>8. LogWatch'
  <2> SUFFICES ASSUME listening = "loop", NEW c \in Logged, life[c] # "running", runs[c] >= 1,
                      reader'[<<c, runs[c]>>].pc # "none" \/ StartTold(c, runs[c])
               PROVE  EndTold(c) \/ NotWatched(c)
    BY DEF LogWatch, EndTold, NotWatched, StartTold
  <2>1. runs[c] \in Nat /\ runs[c] <= troubles + 1 /\ troubles \in 0..(MaxTroubles - 1)
    BY <1>0 DEF LogEngine, LogTypes
  <2>2. runs[c] \in 0..Logging!MaxStarts
    BY <2>1, CopyIndex, TroublesOfLogs
  <2>3. <<c, runs[c]>> \in Logging!Copies
    BY <2>2, CopyIndex
  <2> QED  BY <1>0, <1>2, <2>3 DEF LogWatch
<1> QED  BY <1>4, <1>5, <1>6, <1>7, <1>8 DEF LogInv

LEMMA ReaderSteps == ASSUME LogInv, NEW i \in Logging!Copies, Logging!Reader(i)  PROVE LogInv'
<1>0. LogTypes /\ LogEngine /\ LogTold /\ LogStages /\ LogCopies /\ LogCovered /\ LogWatch
  BY DEF LogInv
<1>1. /\ i[1] \in Logged /\ i[2] \in Nat /\ runs[i[1]] \in Nat /\ i = <<i[1], i[2]>>
      /\ reader[i].pc \in Places /\ reader[i].since \in Nat /\ reader[i].upto \in Nat /\ reader[i].shown \in SUBSET Nat
      /\ CopyOK(i) /\ (i[2] >= 1 /\ reader[i].pc # "none" => i[2] <= runs[i[1]])
  BY <1>0, CopyIndex DEF LogTypes, CopyState, LogCopies, LogTold
<1>3. CASE Logging!Inspect(i)
  <2> DEFINE f == [reader[i] EXCEPT !.pc = "open", !.since = Logging!Since(i)]
  <2>1. /\ Logging!Since(i) \in Nat /\ Logging!Since(i) <= runs[i[1]] /\ i[2] <= Logging!Since(i)
        /\ i[2] = 0 => Logging!Since(i) = 0
    BY <1>1, <1>3 DEF Logging!Since, Logging!Inspect
  <2>2. /\ f \in CopyState /\ f.pc = "open"
        /\ f.since = Logging!Since(i) /\ f.upto = reader[i].upto /\ f.shown = reader[i].shown
    BY <1>0, <1>1, <2>1 DEF LogTypes, CopyState, Places
  <2>3. /\ reader[i].pc = "inspect" /\ reader' = [reader EXCEPT ![i] = f]
        /\ UNCHANGED <<asked, at, life, runs, said, untold, listening, followed, news, interrupted, broken, troubles,
                       answer>>
    BY <1>3 DEF Logging!Inspect, Logging!Becomes, Logging!engine, Logging!watch
  <2> HIDE DEF f
  <2>4. reader'[i] = f
    BY <1>0, <2>3 DEF LogTypes
  <2>5. reader[i].shown = {}
    BY <1>1, <2>3 DEF CopyOK
  <2>6. CopyOK(i)'
    BY <2>1, <2>2, <2>3, <2>4, <2>5 DEF CopyOK
  <2>7. i[2] = 0 => FirstListed(i[1])'
    BY <1>1, <2>2, <2>4 DEF FirstListed
  <2> QED  BY <2>2, <2>3, <2>6, <2>7, CopyStep
<1>4. CASE Logging!Open(i)
  <2> DEFINE p == IF asked.odd = "mute" /\ i[1] = Picked THEN "over" ELSE "copy"
             f == [reader[i] EXCEPT !.pc = p, !.upto = runs[i[1]]]
  <2>1. (p = "over" /\ Mute(i[1])) \/ p = "copy"
    BY DEF Mute
  <2>2. /\ f \in CopyState /\ f.pc = p
        /\ f.since = reader[i].since /\ f.upto = runs[i[1]] /\ f.shown = reader[i].shown
    BY <1>0, <1>1 DEF LogTypes, CopyState, Places
  <2>3. /\ reader[i].pc = "open" /\ reader' = [reader EXCEPT ![i] = f]
        /\ UNCHANGED <<asked, at, life, runs, said, untold, listening, followed, news, interrupted, broken, troubles,
                       answer>>
    BY <1>4 DEF Logging!Open, Logging!Becomes, Logging!engine, Logging!watch
  <2> HIDE DEF f, p
  <2>4. reader'[i] = f /\ Mute(i[1])' = Mute(i[1])
    BY <1>0, <2>3 DEF LogTypes, Mute
  <2>5. /\ reader[i].shown = {} /\ i[2] <= reader[i].since /\ reader[i].since <= runs[i[1]]
        /\ i[2] = 0 => reader[i].since = 0
    BY <1>1, <2>3 DEF CopyOK
  <2>6. CopyOK(i)'
    BY <1>1, <2>1, <2>2, <2>3, <2>4, <2>5 DEF CopyOK
  <2>7. i[2] = 0 /\ runs[i[1]] >= 1 => FirstListed(i[1])'
    BY <1>1, <2>1, <2>2, <2>4 DEF FirstListed
  <2> QED  BY <2>1, <2>2, <2>3, <2>6, <2>7, CopyStep
<1>5. CASE Logging!Copy(i)
  <2> DEFINE f == [reader[i] EXCEPT !.shown = Logging!Readable(i)]
  <2>1. Logging!Readable(i) \in SUBSET Nat /\ Logging!Readable(i) \subseteq reader[i].since..reader[i].upto
    BY <1>1 DEF Logging!Readable
  <2>2. /\ f \in CopyState /\ f.pc = reader[i].pc
        /\ f.since = reader[i].since /\ f.upto = reader[i].upto /\ f.shown = Logging!Readable(i)
    BY <1>0, <1>1, <2>1 DEF LogTypes, CopyState, Places
  <2>3. /\ reader[i].pc = "copy" /\ reader' = [reader EXCEPT ![i] = f]
        /\ UNCHANGED <<asked, at, life, runs, said, untold, listening, followed, news, interrupted, broken, troubles,
                       answer>>
    BY <1>5 DEF Logging!Copy, Logging!Becomes, Logging!engine, Logging!watch
  <2> HIDE DEF f
  <2>4. reader'[i] = f
    BY <1>0, <2>3 DEF LogTypes
  <2>5. CopyOK(i)'
    BY <1>1, <2>1, <2>2, <2>3, <2>4 DEF CopyOK
  <2>6. i[2] = 0 /\ FirstListed(i[1]) => FirstListed(i[1])'
    BY <1>1, <2>2, <2>3, <2>4 DEF FirstListed
  <2> QED  BY <2>2, <2>3, <2>5, <2>6, CopyStep
<1>6. CASE Logging!CopyEnds(i)
  <2> DEFINE f == [reader[i] EXCEPT !.pc = "over"]
  <2>2. /\ f \in CopyState /\ f.pc = "over"
        /\ f.since = reader[i].since /\ f.upto = reader[i].upto /\ f.shown = reader[i].shown
    BY <1>0, <1>1 DEF LogTypes, CopyState, Places
  <2>3. /\ reader[i].pc = "copy" /\ reader' = [reader EXCEPT ![i] = f]
        /\ UNCHANGED <<asked, at, life, runs, said, untold, listening, followed, news, interrupted, broken, troubles,
                       answer>>
        /\ \/ life[i[1]] = "gone"
           \/ /\ Logging!Readable(i) = reader[i].shown
              /\ ~asked.follow \/ life[i[1]] # "running" \/ runs[i[1]] # reader[i].upto
    BY <1>6 DEF Logging!CopyEnds, Logging!Becomes, Logging!engine, Logging!watch
  <2> HIDE DEF f
  <2>4. reader'[i] = f
    BY <1>0, <2>3 DEF LogTypes
  <2>5. /\ i[2] <= reader[i].since /\ reader[i].since <= reader[i].upto /\ reader[i].upto <= runs[i[1]]
        /\ reader[i].shown \subseteq reader[i].since..reader[i].upto /\ (i[2] = 0 => reader[i].since = 0)
    BY <1>1, <2>3 DEF CopyOK
  <2>6. ASSUME life[i[1]] # "gone", NEW r \in reader[i].since..reader[i].upto
        PROVE  r = 0 \/ r \in reader[i].shown \/ (~asked.follow /\ r = reader[i].upto)
    <3> SUFFICES ASSUME r # 0, <<i[1], r>> \notin said  PROVE ~asked.follow /\ r = reader[i].upto
      BY <2>3, <2>6 DEF Logging!Readable
    <3>1. r \in 1..runs[i[1]]
      BY <1>1, <2>5
    <3>2. ~(r < runs[i[1]]) /\ life[i[1]] = "running"
      BY <1>0, <1>1, <3>1 DEF LogEngine
    <3>3. r = runs[i[1]] /\ r = reader[i].upto
      BY <1>1, <2>5, <3>1, <3>2
    <3> QED  BY <2>3, <2>6, <3>2, <3>3
  <2>7. CopyOK(i)'
    BY <2>2, <2>3, <2>4, <2>5, <2>6 DEF CopyOK
  <2>8. i[2] = 0 /\ FirstListed(i[1]) => FirstListed(i[1])'
    BY <1>1, <2>2, <2>3, <2>4 DEF FirstListed
  <2> QED  BY <2>2, <2>3, <2>7, <2>8, CopyStep
<1>7. CASE Logging!CopyFails(i)
  <2> DEFINE f == [reader[i] EXCEPT !.pc = "over"]
  <2>2. /\ f \in CopyState /\ f.pc = "over"
        /\ f.since = reader[i].since /\ f.upto = reader[i].upto /\ f.shown = reader[i].shown
    BY <1>0, <1>1 DEF LogTypes, CopyState, Places
  <2>3. /\ reader[i].pc \in {"inspect", "open", "copy"} /\ reader' = [reader EXCEPT ![i] = f] /\ broken' = TRUE
        /\ UNCHANGED <<asked, at, life, runs, said, untold, listening, followed, news, interrupted, troubles, answer>>
    BY <1>7 DEF Logging!CopyFails, Logging!Becomes, Logging!engine, Logging!watch
  <2> HIDE DEF f
  <2>4. reader'[i] = f
    BY <1>0, <2>3 DEF LogTypes
  <2>5. CopyOK(i)'
    BY <1>1, <2>2, <2>3, <2>4 DEF CopyOK
  <2>6. i[2] = 0 /\ FirstListed(i[1]) => FirstListed(i[1])'
    BY <1>1, <2>2, <2>3, <2>4 DEF FirstListed
  <2> QED  BY <2>2, <2>3, <2>5, <2>6, CopyStep
<1> QED  BY <1>3, <1>4, <1>5, <1>6, <1>7 DEF Logging!Reader

(* The steps of the monitor, but for what it hears.                        *)
LEMMA MonitorSteps ==
  ASSUME LogInv, Logging!MonitorLists \/ Logging!Subscribe \/ Logging!MonitorReturns  PROVE LogInv'
<1>0. LogTypes /\ LogEngine /\ LogTold /\ LogStages /\ LogCopies /\ LogCovered /\ LogWatch
  BY DEF LogInv
<1>1. /\ UNCHANGED <<asked, at, life, runs, said, untold, reader, news, interrupted, troubles, answer>>
      /\ listening \in {"list", "subscribe", "loop"} /\ listening' \in {"subscribe", "loop", "over"}
      /\ broken' = broken \/ broken' = TRUE
  BY <1>0 DEF Logging!MonitorLists, Logging!Subscribe, Logging!MonitorReturns, Logging!engine, LogTypes
<1>2. at = "group" /\ answer = "none" /\ asked.follow
  <2>1. at \notin {"idle", "list", "returned"}
    BY <1>0, <1>1 DEF LogStages
  <2> QED  BY <1>0, <1>1, <2>1 DEF LogStages, LogTypes
<1>3. LogTypes' /\ LogEngine' /\ LogTold'
  <2>1. followed' \subseteq Logged
    BY <1>0 DEF Logging!MonitorLists, Logging!Subscribe, Logging!MonitorReturns, LogTypes
  <2>2. broken' \in BOOLEAN
    BY <1>0, <1>1 DEF LogTypes
  <2> QED  BY <1>0, <1>1, <2>1, <2>2 DEF LogTypes, LogEngine, LogTold
<1>4. LogStages'
  <2>1. listening' = "subscribe" => listening = "list"
    BY DEF Logging!MonitorLists, Logging!Subscribe, Logging!MonitorReturns
  <2> QED  BY <1>0, <1>1, <1>2, <2>1 DEF LogStages
<1>5. LogCopies'
  <2>1. ~broken' => ~broken
    BY <1>0, <1>1 DEF LogTypes
  <2> QED  BY <1>0, <1>1, <2>1 DEF LogCopies, CopyOK, Mute
<1>6. LogCovered'
  <2>1. ~broken' => ~broken
    BY <1>0, <1>1 DEF LogTypes
  <2> QED  BY <1>0, <1>1, <1>2, <2>1 DEF LogCovered, Covered, StartTold, FirstListed, Mute,
    Logging!Listed, Logging!Present
<1>7. LogWatch'
  <2> SUFFICES ASSUME listening' = "loop", NEW c \in Logged, runs[c] >= 1,
                      reader[<<c, runs[c]>>].pc # "none" \/ StartTold(c, runs[c])
               PROVE  FALSE
    BY <1>1 DEF LogWatch, StartTold
  <2>1. listening = "subscribe"
    BY DEF Logging!MonitorLists, Logging!Subscribe, Logging!MonitorReturns
  <2>2. news = <<>> /\ \A i \in Logging!Copies : i[2] >= 1 => reader[i].pc = "none"
    BY <1>0, <2>1 DEF LogStages
  <2>3. runs[c] \in Nat /\ runs[c] <= troubles + 1 /\ troubles \in 0..(MaxTroubles - 1)
    BY <1>0 DEF LogEngine, LogTypes
  <2>4. runs[c] \in 0..Logging!MaxStarts
    BY <2>3, CopyIndex, TroublesOfLogs
  <2>5. <<c, runs[c]>> \in Logging!Copies /\ <<c, runs[c]>>[2] = runs[c]
    BY <2>4, CopyIndex
  <2> QED  BY <2>2, <2>5 DEF StartTold
<1> QED  BY <1>3, <1>4, <1>5, <1>6, <1>7 DEF LogInv

(* The monitor reads an event.                                             *)
LEMMA NextNews ==
  ASSUME news \in Seq(LogEvents), news # <<>>, news' = Tail(news)
  PROVE  /\ news' \in Seq(LogEvents) /\ Len(news) \in Nat /\ Len(news) >= 1 /\ Len(news') = Len(news) - 1
         /\ Head(news) = news[1] /\ Head(news) \in LogEvents /\ 1 \in 1..Len(news)
         /\ \A k \in 1..Len(news') : k + 1 \in 1..Len(news) /\ news'[k] = news[k + 1]
         /\ \A k \in 1..Len(news) : k = 1 \/ (k - 1 \in 1..Len(news') /\ news'[k - 1] = news[k])
OBVIOUS

LEMMA HearsStep == ASSUME LogInv, Logging!MonitorHears  PROVE LogInv'
<1>0. LogTypes /\ LogEngine /\ LogTold /\ LogStages /\ LogCopies /\ LogCovered /\ LogWatch
  BY DEF LogInv
<1> DEFINE e == Head(news)
           fresh == [Logging!NoCopy EXCEPT !.pc = "inspect"]
<1>1. /\ UNCHANGED <<asked, at, life, runs, said, untold, listening, interrupted, broken, troubles, answer>>
      /\ listening = "loop" /\ news # <<>> /\ news' = Tail(news)
  BY DEF Logging!MonitorHears, Logging!engine
<1>2. /\ news' \in Seq(LogEvents) /\ Len(news) \in Nat /\ Len(news) >= 1 /\ Len(news') = Len(news) - 1
      /\ e = news[1] /\ e \in LogEvents /\ 1 \in 1..Len(news)
      /\ \A k \in 1..Len(news') : k + 1 \in 1..Len(news) /\ news'[k] = news[k + 1]
      /\ \A k \in 1..Len(news) : k = 1 \/ (k - 1 \in 1..Len(news') /\ news'[k - 1] = news[k])
  BY <1>0, <1>1, NextNews DEF LogTypes
<1>3. \/ e.what = "create" /\ followed' = followed \cup {e.of} /\ reader' = reader
      \/ e.what = "start" /\ followed' = followed \cup {e.of} /\ reader' = [reader EXCEPT ![<<e.of, e.run>>] = fresh]
      \/ /\ e.what = "die" /\ reader' = reader
         /\ followed' = IF life[e.of] = "running" THEN followed ELSE followed \ {e.of}
  BY DEF Logging!MonitorHears, Logging!Becomes
<1>4. fresh \in CopyState /\ fresh.pc = "inspect" /\ fresh.shown = {} /\ fresh.since = 0 /\ fresh.upto = 0
  BY DEF Logging!NoCopy, CopyState, Places
<1> HIDE DEF e, fresh
<1>5. e.of \in Logged /\ runs[e.of] \in Nat /\ (e.what = "start" => e.run \in 1..runs[e.of])
  <2>1. e.of \in Logged
    BY <1>2 DEF LogEvents
  <2> QED  BY <1>0, <1>2, <2>1 DEF LogTypes, LogTold
<1>6. \A c \in Logged : \A r \in 0..runs[c] : <<c, r>> \in Logging!Copies /\ <<c, r>>[1] = c /\ <<c, r>>[2] = r
  <2> SUFFICES ASSUME NEW c \in Logged, NEW r \in 0..runs[c]  PROVE r \in 0..Logging!MaxStarts
    BY CopyIndex
  <2>1. runs[c] \in Nat /\ runs[c] <= troubles + 1 /\ troubles \in 0..(MaxTroubles - 1)
    BY <1>0 DEF LogEngine, LogTypes
  <2> QED  BY <2>1, CopyIndex, TroublesOfLogs
<1>7. \A j \in Logging!Copies : \/ reader'[j] = reader[j]
                                \/ e.what = "start" /\ j = <<e.of, e.run>> /\ j[1] = e.of /\ j[2] = e.run /\ reader'[j] = fresh
  <2> DEFINE h == <<e.of, e.run>>
  <2>1. h[1] = e.of /\ h[2] = e.run
    OBVIOUS
  <2>2. reader' = reader \/ (e.what = "start" /\ reader' = [reader EXCEPT ![h] = fresh])
    BY <1>3
  <2> HIDE DEF h
  <2>3. \A j \in Logging!Copies : reader'[j] = reader[j] \/ (e.what = "start" /\ j = h /\ reader'[j] = fresh)
    BY <1>0, <2>2 DEF LogTypes
  <2>4. \A j \in Logging!Copies : \/ reader'[j] = reader[j]
                                  \/ e.what = "start" /\ j = h /\ j[1] = e.of /\ j[2] = e.run /\ reader'[j] = fresh
    BY <2>1, <2>3
  <2> QED  BY <2>4 DEF h
<1>8. at = "group" /\ answer = "none" /\ asked.follow
  <2>1. at \notin {"idle", "list", "returned"}
    BY <1>0, <1>1 DEF LogStages
  <2> QED  BY <1>0, <1>1, <2>1 DEF LogStages, LogTypes
<1>9. LogTypes' /\ LogEngine'
  <2>1. followed' \subseteq Logged
    BY <1>0, <1>3, <1>5 DEF LogTypes
  <2>2. reader' \in [Logging!Copies -> CopyState]
    BY <1>0, <1>3, <1>4 DEF LogTypes
  <2> QED  BY <1>0, <1>1, <1>2, <2>1, <2>2 DEF LogTypes, LogEngine
<1>10. LogTold'
  <2>1. \A k \in 1..Len(news') : news'[k].what = "start" => news'[k].run \in 1..runs[news'[k].of]
    BY <1>0, <1>2 DEF LogTold
  <2>2. \A j \in Logging!Copies : j[2] >= 1 /\ reader'[j].pc # "none" => j[2] <= runs[j[1]]
    <3> SUFFICES ASSUME NEW j \in Logging!Copies, j[2] >= 1, reader'[j].pc # "none"  PROVE j[2] <= runs[j[1]]
      OBVIOUS
    <3>1. CASE reader'[j] = reader[j]
      BY <1>0, <3>1 DEF LogTold
    <3>2. CASE e.what = "start" /\ j[1] = e.of /\ j[2] = e.run
      BY <1>5, <3>2
    <3> QED  BY <1>7, <3>1, <3>2
  <2> QED  BY <1>1, <2>1, <2>2 DEF LogTold
<1>11. LogStages'
  BY <1>0, <1>1, <1>8 DEF LogStages
<1>12. LogCopies'
  <2> SUFFICES ASSUME NEW j \in Logging!Copies  PROVE CopyOK(j)'
    BY DEF LogCopies
  <2>1. CASE reader'[j] = reader[j]
    BY <1>0, <1>1, <2>1 DEF LogCopies, CopyOK, Mute
  <2>2. CASE reader'[j] = fresh
    BY <1>4, <2>2 DEF CopyOK
  <2> QED  BY <1>7, <2>1, <2>2
<1>13. \A c \in Logged : \A r \in 1..runs[c] :
         reader[<<c, r>>].pc # "none" \/ StartTold(c, r) <=> reader'[<<c, r>>].pc # "none" \/ StartTold(c, r)'
  <2> SUFFICES ASSUME NEW c \in Logged, NEW r \in 1..runs[c]
               PROVE  reader[<<c, r>>].pc # "none" \/ StartTold(c, r)
                        <=> reader'[<<c, r>>].pc # "none" \/ StartTold(c, r)'
    OBVIOUS
  <2>1. <<c, r>> \in Logging!Copies /\ r \in Nat
    BY <1>0, <1>6 DEF LogTypes
  <2>2. StartTold(c, r)' => StartTold(c, r)
    BY <1>2 DEF StartTold
  <2>3. StartTold(c, r) => StartTold(c, r)' \/ (e.what = "start" /\ e.of = c /\ e.run = r)
    BY <1>2 DEF StartTold
  <2>4. e.what = "start" /\ e.of = c /\ e.run = r => StartTold(c, r) /\ reader'[<<c, r>>].pc # "none"
    <3>1. e.what = "start" /\ e.of = c /\ e.run = r => StartTold(c, r)
      BY <1>2 DEF StartTold
    <3>2. e.what = "start" /\ e.of = c /\ e.run = r => reader'[<<c, r>>] = fresh
      BY <1>0, <1>3, <2>1 DEF LogTypes
    <3> QED  BY <1>4, <3>1, <3>2
  <2>5. reader'[<<c, r>>] = reader[<<c, r>>] \/ (e.what = "start" /\ e.of = c /\ e.run = r)
    BY <1>7, <2>1
  <2> QED  BY <2>2, <2>3, <2>4, <2>5
<1>14. LogCovered'
  <2> SUFFICES ASSUME NEW c \in Logged, c \in Logging!Listed', NEW r \in 1..runs[c]  PROVE Covered(c, r)'
    BY <1>1, <1>8 DEF LogCovered
  <2>1. c \in Logging!Listed
    BY <1>1 DEF Logging!Listed, Logging!Present
  <2>2. Covered(c, r)
    BY <1>0, <1>8, <2>1 DEF LogCovered
  <2>3. FirstListed(c) => FirstListed(c)'
    <3>1. <<c, 0>> \in Logging!Copies /\ <<c, 0>>[2] = 0
      BY CopyIndex
    <3>2. reader'[<<c, 0>>] = reader[<<c, 0>>]
      BY <1>5, <1>7, <3>1
    <3> QED  BY <1>1, <3>2 DEF FirstListed, Mute
  <2> QED  BY <1>1, <1>8, <1>13, <2>2, <2>3 DEF Covered
<1>15. LogWatch'
  <2> SUFFICES ASSUME NEW c \in Logged, life[c] # "running", runs[c] >= 1,
                      reader'[<<c, runs[c]>>].pc # "none" \/ StartTold(c, runs[c])'
               PROVE  EndTold(c)' \/ NotWatched(c)'
    BY <1>1 DEF LogWatch, StartTold
  <2>1. runs[c] \in Nat /\ runs[c] \in 1..runs[c]
    BY <1>0 DEF LogTypes
  <2>2. reader[<<c, runs[c]>>].pc # "none" \/ StartTold(c, runs[c])
    BY <1>1, <1>13, <2>1 DEF StartTold
  <2>3. EndTold(c) \/ NotWatched(c)
    BY <1>0, <1>1, <2>2 DEF LogWatch
  <2>4. CASE NotWatched(c)
    <3>1. c \notin followed /\ ~Renews(e, c) /\ \A j \in 1..Len(news') : ~Renews(news'[j], c)
      BY <1>2, <2>4 DEF NotWatched
    <3>2. c \notin followed'
      BY <1>3, <3>1 DEF Renews
    <3> QED  BY <3>1, <3>2 DEF NotWatched
  <2>5. CASE EndTold(c)
    <3>1. PICK k \in 1..Len(news) : /\ news[k].of = c /\ news[k].what = "die"
                                    /\ \A j \in 1..Len(news) : Renews(news[j], c) => j < k
      BY <2>5 DEF EndTold
    <3>2. CASE k = 1
      <4>1. \A j \in 1..Len(news) : ~Renews(news[j], c)
        BY <1>2, <3>1, <3>2
      <4>2. \A j \in 1..Len(news') : ~Renews(news'[j], c)
        BY <1>2, <4>1
      <4>3. e.of = c /\ e.what = "die"
        BY <1>2, <3>1, <3>2
      <4>4. c \notin followed'
        BY <1>3, <4>3
      <4> QED  BY <4>2, <4>4 DEF NotWatched
    <3>3. CASE k # 1
      <4>1. k - 1 \in 1..Len(news') /\ news'[k - 1] = news[k]
        BY <1>2, <3>3
      <4>2. \A j \in 1..Len(news') : Renews(news'[j], c) => j < k - 1
        <5> SUFFICES ASSUME NEW j \in 1..Len(news'), Renews(news'[j], c)  PROVE j < k - 1
          OBVIOUS
        <5>1. j + 1 \in 1..Len(news) /\ Renews(news[j + 1], c)
          BY <1>2
        <5>2. j + 1 < k
          BY <3>1, <5>1
        <5> QED  BY <1>2, <5>2
      <4> QED  BY <3>1, <4>1, <4>2 DEF EndTold
    <3> QED  BY <3>2, <3>3
  <2> QED  BY <2>3, <2>4, <2>5
<1> QED  BY <1>9, <1>10, <1>11, <1>12, <1>14, <1>15 DEF LogInv

LEMMA LogsKeep == LogInv /\ [Logging!Next]_(Logging!vars) => LogInv'
<1> SUFFICES ASSUME LogInv, [Logging!Next]_(Logging!vars)  PROVE LogInv'
  OBVIOUS
<1>1. CASE Logging!Give
  BY <1>1, GiveStep
<1>2. CASE Logging!Interrupt
  BY <1>2, InterruptStep
<1>3. CASE Logging!List
  BY <1>3, ListStep
<1>4. CASE Logging!Return
  BY <1>4, ReturnStep
<1>5. CASE Logging!Monitor
  BY <1>5, MonitorSteps, HearsStep DEF Logging!Monitor
<1>6. CASE \E i \in Logging!Copies : Logging!Reader(i)
  BY <1>6, ReaderSteps
<1>7. CASE \E c \in Logged : Logging!Create(c) \/ Logging!Start(c) \/ Logging!Exit(c) \/ Logging!Remove(c)
  BY <1>7, CreateStep, StartStep, ExitStep, RemoveStep
<1>8. CASE UNCHANGED Logging!vars
  <2>1. UNCHANGED <<asked, at, life, runs, said, untold, reader, listening, followed, news, interrupted, broken, troubles,
                    answer>>
    BY <1>8 DEF Logging!vars, Logging!engine, Logging!watch
  <2>2. LogTypes' /\ LogEngine' /\ LogTold' /\ LogStages'
    BY <2>1 DEF LogInv, LogTypes, LogEngine, LogTold, LogStages
  <2>3. LogCopies'
    BY <2>1 DEF LogInv, LogCopies, CopyOK, Mute
  <2>4. LogCovered' /\ LogWatch'
    BY <2>1 DEF LogInv, LogCovered, Covered, StartTold, FirstListed, Mute, Logging!Listed, Logging!Present,
                LogWatch, EndTold, NotWatched, Renews
  <2> QED  BY <2>2, <2>3, <2>4 DEF LogInv
<1> QED  BY <1>1, <1>2, <1>3, <1>4, <1>5, <1>6, <1>7, <1>8 DEF Logging!Next, Logging!Command

LEMMA LogsInvariant == MCSpec => []LogInv
<1>1. MCInit => LogInv
  BY LogInit DEF MCInit
<1>2. LogInv /\ [MCNext]_<<vars, command, logVars>> => LogInv'
  <2>1. logVars' = logVars => Logging!vars' = Logging!vars
    BY DEF logVars, Logging!vars, Logging!engine, Logging!watch
  <2> QED  BY <2>1, LogsKeep DEF MCNext
<1> QED  BY <1>1, <1>2, PTL DEF MCSpec

(* What logs shows and when it ends: no line of a container is shown twice *)
(* unless that container had started anew before its log was opened; when  *)
(* logs returns nil none is missing of those it was to show; and it waits  *)
(* for nothing but containers that run or whose end nobody tells it, until *)
(* it is interrupted (Logs, doLogContainer, monitor.Start).                *)
THEOREM LogsAreRightHolds == MCSpec => []LogsAreRight
<1>1. LogInv => LogsAreRight
  BY LogEnds DEF LogsAreRight
<1> QED  BY <1>1, LogsInvariant, PTL
=============================================================================
