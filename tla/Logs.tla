-------------------------------- MODULE Logs --------------------------------
(***************************************************************************)
(* compose logs (pkg/compose/logs.go): the containers are listed, and the  *)
(* log of each is copied by a goroutine of an errgroup; with --follow the  *)
(* monitor (monitor.go) listens in one more, and its listener begins a     *)
(* copy for every start it is told of, from the time of that start on as   *)
(* an inspection gives it.  List, copies and monitor are not synchronised: *)
(* containers start, end, come and go between any two of them.             *)
(*                                                                         *)
(* A container says one line each time it runs, as the last thing it does. *)
(***************************************************************************)
EXTENDS Integers, Sequences

CONSTANTS Containers,  \* Containers the project has or gets
          Odd,         \* The one that is no plain container, if one is not
          MaxTroubles  \* Bound: containers created, started or removed, and interruptions

VARIABLES
  asked,       \* --follow; and Odd: like the others, picked by --index, one-off, or mute
  at,          \* "idle", "list", "group" or "returned"
  life,        \* "absent", "created", "running", "exited" or "gone"
  runs,        \* How often the container has been started
  said,        \* Lines <<c, r>>, of run r of container c
  reader,      \* reader[<<c, r>>]: the copy for run r of c, <<c, 0>> that for its entry in the list
  monitor,     \* "none", "list", "subscribe", "loop" or "over"
  watched,     \* Its variable containers
  news,        \* Events it has still to read
  untold,      \* Runs <<c, r>> that began while it was not subscribed
  interrupted, \* The context of the command is done
  broken,      \* A goroutine has failed, which cancels the group
  troubles,    \* What has happened from outside
  answer       \* What Logs returned: "none", "nil" or "err"

engine == <<life, runs, said, untold>>
watch  == <<monitor, watched, news>>
vars   == <<asked, at, engine, reader, watch, interrupted, broken, troubles, answer>>

Requests == [follow : BOOLEAN, odd : {"no", "index", "one-off", "mute"}]
Plain    == [follow |-> FALSE, odd |-> "no"]

MaxStarts == MaxTroubles + 1
Copies  == Containers \X (0..MaxStarts)
NoCopy  == [pc |-> "none", since |-> 0, upto |-> 0, shown |-> {}]

Present(c) == life[c] \in {"created", "running", "exited"}
CtxDone    == interrupted \/ broken

Init ==
  /\ asked = Plain /\ at = "idle"
  /\ life = [c \in Containers |-> "absent"] /\ runs = [c \in Containers |-> 0]
  /\ said = {} /\ untold = {}
  /\ reader = [i \in Copies |-> NoCopy]
  /\ monitor = "none" /\ watched = {} /\ news = <<>>
  /\ interrupted = FALSE /\ broken = FALSE /\ troubles = 0 /\ answer = "none"

(* The containers as earlier commands left them: Odd in any state, the     *)
(* others running.                                                         *)
Give ==
  /\ at = "idle" /\ at' = "list"
  /\ asked' \in Requests
  /\ life' \in [Containers -> {"absent", "running", "exited"}]
  /\ \A c \in Containers \ {Odd} : life'[c] = "running"
  /\ asked'.odd = "index" => life'[Odd] # "absent"
  /\ runs' = [c \in Containers |-> IF life'[c] \in {"running", "exited"} THEN 1 ELSE 0]
  /\ said' = {c \in Containers : life'[c] = "exited"} \X {1}
  /\ UNCHANGED <<reader, watch, untold, interrupted, broken, troubles, answer>>

----------------------------------------------------------------------------
(* The engine, while the command is under way.  Containers end; beyond     *)
(* that, things happen to Odd, or to any with --index.                     *)
UnderWay == at \in {"list", "group"}
Trouble == UnderWay /\ troubles < MaxTroubles /\ troubles' = troubles + 1
Touched == IF asked.odd = "index" THEN Containers ELSE {Odd}
Tell(what, c) ==
  news' = IF monitor = "loop" THEN Append(news, [what |-> what, of |-> c, run |-> runs'[c]]) ELSE news

Create(c) ==
  /\ Trouble /\ life[c] = "absent"
  /\ life' = [life EXCEPT ![c] = "created"]
  /\ UNCHANGED <<runs, said, untold>>
  /\ Tell("create", c)
  /\ UNCHANGED <<asked, at, reader, monitor, watched, interrupted, broken, answer>>

Start(c) ==
  /\ Trouble /\ c \in Touched /\ life[c] \in {"created", "exited"}
  /\ life' = [life EXCEPT ![c] = "running"]
  /\ runs' = [runs EXCEPT ![c] = @ + 1]
  /\ untold' = IF monitor = "loop" THEN untold ELSE untold \cup {<<c, runs'[c]>>}
  /\ Tell("start", c)
  /\ UNCHANGED <<asked, at, said, reader, monitor, watched, interrupted, broken, answer>>

Exit(c) ==
  /\ UnderWay /\ life[c] = "running"
  /\ life' = [life EXCEPT ![c] = "exited"]
  /\ said' = said \cup {<<c, runs[c]>>}
  /\ UNCHANGED <<runs, untold>>
  /\ Tell("die", c)
  /\ UNCHANGED <<asked, at, reader, monitor, watched, interrupted, broken, troubles, answer>>

Remove(c) ==
  /\ Trouble /\ c \in Touched /\ life[c] \in {"created", "exited"}
  /\ life' = [life EXCEPT ![c] = "gone"]
  /\ UNCHANGED <<asked, at, runs, said, untold, reader, watch, interrupted, broken, answer>>

Interrupt ==
  /\ Trouble /\ ~interrupted /\ interrupted' = TRUE
  /\ UNCHANGED <<asked, at, engine, reader, watch, broken, answer>>

----------------------------------------------------------------------------
(* Logs                                                                    *)

(* getContainers leaves out one-off containers; --index takes one.         *)
Listed == {c \in Containers : /\ Present(c)
                              /\ asked.odd = "one-off" => c # Odd
                              /\ asked.odd = "index" => c = Odd}

List ==
  /\ at = "list"
  /\ \/ /\ ~interrupted /\ (asked.odd # "index" \/ Listed # {})
        /\ at' = "group"
        /\ reader' = [i \in Copies |-> IF i[2] = 0 /\ i[1] \in Listed
                                       THEN [NoCopy EXCEPT !.pc = "inspect"] ELSE NoCopy]
        /\ monitor' = IF asked.follow THEN "list" ELSE "none"
        /\ UNCHANGED answer
     \/ /\ interrupted \/ (asked.odd = "index" /\ Listed = {})
        /\ at' = "returned" /\ answer' = "err"
        /\ UNCHANGED <<reader, monitor>>
  /\ UNCHANGED <<asked, engine, watched, news, interrupted, broken, troubles>>

Return ==
  /\ at = "group" /\ monitor \in {"none", "over"}
  /\ \A i \in Copies : reader[i].pc \in {"none", "over"}
  /\ at' = "returned"
  /\ answer' = IF broken THEN "err" ELSE "nil"
  /\ UNCHANGED <<asked, engine, reader, watch, interrupted, broken, troubles>>

----------------------------------------------------------------------------
(* The copy of a log: inspect, open, copy.                                 *)
Becomes(i, f) == reader' = [reader EXCEPT ![i] = f]

\* Variant: the copies for starts read the log from its beginning.
BugSince(i) == 0

(* Since is the option of the command for a container of the list, the     *)
(* start of the run that goes on for one the monitor was told of.          *)
Since(i) == IF i[2] = 0 THEN 0 ELSE runs[i[1]]

Inspect(i) ==
  /\ reader[i].pc = "inspect"
  /\ ~CtxDone /\ life[i[1]] # "gone"
  /\ Becomes(i, [reader[i] EXCEPT !.pc = "open", !.since = Since(i)])
  /\ UNCHANGED <<asked, at, engine, watch, interrupted, broken, troubles, answer>>

(* What the engine does with its reader when the container starts again:   *)
(* it has come to its end.  A log that cannot be read is passed over.      *)
Open(i) ==
  /\ reader[i].pc = "open"
  /\ ~CtxDone /\ life[i[1]] # "gone"
  /\ Becomes(i, [reader[i] EXCEPT !.pc = IF asked.odd = "mute" /\ i[1] = Odd THEN "over" ELSE "copy",
                                  !.upto = runs[i[1]]])
  /\ UNCHANGED <<asked, at, engine, watch, interrupted, broken, troubles, answer>>

Readable(i) == {r \in reader[i].since..reader[i].upto : <<i[1], r>> \in said}

Copy(i) ==
  /\ reader[i].pc = "copy" /\ ~CtxDone
  /\ Readable(i) # reader[i].shown
  /\ Becomes(i, [reader[i] EXCEPT !.shown = Readable(i)])
  /\ UNCHANGED <<asked, at, engine, watch, interrupted, broken, troubles, answer>>

CopyEnds(i) ==
  /\ reader[i].pc = "copy" /\ ~CtxDone
  /\ \/ life[i[1]] = "gone"
     \/ /\ Readable(i) = reader[i].shown
        /\ ~asked.follow \/ life[i[1]] # "running" \/ runs[i[1]] # reader[i].upto
  /\ Becomes(i, [reader[i] EXCEPT !.pc = "over"])
  /\ UNCHANGED <<asked, at, engine, watch, interrupted, broken, troubles, answer>>

CopyFails(i) ==
  /\ \/ reader[i].pc \in {"inspect", "open", "copy"} /\ CtxDone
     \/ reader[i].pc \in {"inspect", "open"} /\ life[i[1]] = "gone"
  /\ Becomes(i, [reader[i] EXCEPT !.pc = "over"])
  /\ broken' = TRUE
  /\ UNCHANGED <<asked, at, engine, watch, interrupted, troubles, answer>>

Reader(i) == Inspect(i) \/ Open(i) \/ Copy(i) \/ CopyEnds(i) \/ CopyFails(i)

----------------------------------------------------------------------------
(* The monitor, which has the services of the command and not its index.   *)
MonitorLists ==
  /\ monitor = "list" /\ ~CtxDone
  /\ monitor' = "subscribe"
  /\ watched' = {c \in Containers : Present(c) /\ ~(asked.odd = "one-off" /\ c = Odd)}
  /\ UNCHANGED <<asked, at, engine, reader, news, interrupted, broken, troubles, answer>>

Subscribe ==
  /\ monitor = "subscribe" /\ monitor' = "loop"
  /\ UNCHANGED <<asked, at, engine, reader, watched, news, interrupted, broken, troubles, answer>>

(* An end counts when the container does not run as it is inspected.       *)
MonitorHears ==
  /\ monitor = "loop" /\ watched # {} /\ news # <<>>
  /\ news' = Tail(news)
  /\ LET e == Head(news) IN
       \/ /\ e.what = "create" /\ watched' = watched \cup {e.of} /\ UNCHANGED reader
       \/ /\ e.what = "start" /\ watched' = watched \cup {e.of}
          /\ Becomes(<<e.of, e.run>>, [NoCopy EXCEPT !.pc = "inspect"])
       \/ /\ e.what = "die" /\ ~CtxDone /\ UNCHANGED reader
          /\ watched' = IF life[e.of] = "running" THEN watched ELSE watched \ {e.of}
  /\ UNCHANGED <<asked, at, engine, monitor, interrupted, broken, troubles, answer>>

MonitorReturns ==
  /\ \/ monitor = "loop" /\ watched = {} /\ UNCHANGED broken
     \/ monitor = "loop" /\ CtxDone /\ broken' \in {broken, TRUE}
     \/ monitor = "list" /\ CtxDone /\ broken' = TRUE
  /\ monitor' = "over"
  /\ UNCHANGED <<asked, at, engine, reader, watched, news, interrupted, troubles, answer>>

Monitor == MonitorLists \/ Subscribe \/ MonitorHears \/ MonitorReturns

Command == List \/ Return \/ Monitor \/ \E i \in Copies : Reader(i)

Next ==
  \/ Give \/ Interrupt \/ Command
  \/ \E c \in Containers : Create(c) \/ Start(c) \/ Exit(c) \/ Remove(c)

----------------------------------------------------------------------------
(* Properties.                                                             *)

TypeOK ==
  /\ at \in {"idle", "list", "group", "returned"} /\ answer \in {"none", "nil", "err"}
  /\ asked \in Requests
  /\ runs \in [Containers -> 0..MaxStarts] /\ said \cup untold \subseteq Copies
  /\ \A i \in Copies : reader[i].shown \subseteq reader[i].since..reader[i].upto
  /\ watched \subseteq Containers /\ monitor \in {"none", "list", "subscribe", "loop", "over"}

(* The container was started again before the copy for an earlier start    *)
(* inspected it.                                                           *)
Overtaken(c) == \E r \in 1..MaxStarts : reader[<<c, r>>].since > r

(* No line is shown twice, unless its container has started anew, which    *)
(* the monitor is told of too, before its log was opened.                  *)
EachLineOnce ==
  \A c \in Containers, r, q \in 0..MaxStarts :
    r < q /\ q > reader[<<c, r>>].upto => reader[<<c, r>>].shown \cap reader[<<c, q>>].shown = {}

Shown(c) == UNION {reader[<<c, r>>].shown : r \in 0..MaxStarts}

(* When logs returns nil, the lines it was to show have been shown: all of *)
(* the runs that were over when the log was opened; and with --follow all  *)
(* of those the monitor was told of, and whose start it has read.          *)
NoLineLost ==
  answer = "nil" =>
    \A c \in {c \in Listed : ~(asked.odd = "mute" /\ c = Odd)} :
      \/ Overtaken(c)
      \/ \A r \in 1..runs[c] :
           \/ r \in Shown(c) \/ <<c, r>> \in untold
           \/ ~asked.follow /\ r >= reader[<<c, 0>>].upto
           \/ \E k \in DOMAIN news : news[k].of = c /\ news[k].what = "start" /\ news[k].run = r

(* A container whose end the monitor was not told, since its last run, if  *)
(* it has run, began before the subscription.                              *)
Silent(c) ==
  /\ c \in watched /\ life[c] # "running"
  /\ runs[c] = 0 \/ reader[<<c, runs[c]>>].pc = "none"

(* Where a copy, and the monitor, wait, or are done.                       *)
CopyRests(i) ==
  \/ reader[i].pc \in {"none", "over"}
  \/ /\ reader[i].pc = "copy" /\ ~CtxDone /\ Readable(i) = reader[i].shown
     /\ asked.follow /\ life[i[1]] = "running" /\ runs[i[1]] = reader[i].upto
MonitorRests ==
  \/ monitor \in {"none", "over"}
  \/ monitor = "loop" /\ ~CtxDone /\ watched # {} /\ news = <<>>

(* What is left to do, when all wait, is to wait: for a container that     *)
(* runs, or for ever for one that had ended, or had not run, before the    *)
(* monitor subscribed.  An interruption ends that wait.                    *)
WaitsForContainers ==
  at = "group" /\ MonitorRests /\ (\A i \in Copies : CopyRests(i)) =>
    \/ monitor \in {"none", "over"} /\ \A i \in Copies : reader[i].pc \in {"none", "over"}
    \/ ~CtxDone /\ \E c \in Containers : life[c] = "running" \/ Silent(c)

(* What is shown and what is reported, and that logs --follow goes on no   *)
(* longer than its containers (Logs, doLogContainer, monitor.Start).       *)
LogsAreRight == TypeOK /\ EachLineOnce /\ NoLineLost /\ WaitsForContainers

(* "index of the container if service has multiple replicas"               *)
(* (cmd/compose/logs.go:64): only that one is shown.                       *)
OnlyTheIndex ==
  asked.odd = "index" => \A c \in Containers \ {Odd} : Shown(c) = {}

=============================================================================
