------------------------- MODULE ProcessDefinitions -------------------------
(***************************************************************************)
(* Where raw processes come from: durablecompose.toml is found and read    *)
(* (pkg/config), with the Procfile it names (pkg/procfile), and both are   *)
(* put into a manager (pkg/process/bridge.go), the definitions of the toml *)
(* file over those of the Procfile.  Go goes through maps in any order.    *)
(***************************************************************************)
EXTENDS Naturals, Sequences, FiniteSets

CONSTANTS MaxLines,       \* Bound: lines of the Procfile
          MaxInProcfile,  \* MaxProcesses of the Procfile
          MaxInManager    \* MaxProcesses of the manager

(* Names are compared in lower case; the others are not valid, or not in a *)
(* Procfile.                                                               *)
ProcessNames == {"web", "Web", "job"}
Lower(n) == IF n = "Web" THEN "web" ELSE n

VARIABLES
  path,     \* What is named like the file sought, from the directory at hand up to the root
  lines,    \* The Procfile, "missing" or "unnamed"
  settings, \* The processes section of the toml file
  parsed,   \* The names that were parsed
  todo,     \* Definitions that are still to be added, of "procfile" or "inline"
  manager,  \* The manager's processes
  result    \* "none", "nil" or "err"

vars == <<path, lines, settings, parsed, todo, manager, result>>

(* A line is a comment or empty, or defines a name, or is not valid: it    *)
(* has no colon, its command is empty or too long, its name not allowed.   *)
Lines   == ProcessNames \cup {"comment", "invalid"}
Entries == {"nothing", "file", "directory"}

(* A definition of the toml file may have an empty command, a directory of *)
(* its own, there or not, and a value of its own for the variable that has *)
(* a default.                                                              *)
Inline == [command : {"inline", ""}, dir : {"", "own"}, env : {"", "own"}]
Definitions == UNION {[S -> {d \in Inline : (d.dir = "own") = (d.env = "own") /\ (d.command = "" => d.dir = "")}]
                        : S \in SUBSET ProcessNames}
Settings == [enabled : BOOLEAN, dir : {"", "default", "missing"}, definitions : Definitions]

Init ==
  /\ path = <<>> /\ lines = <<>> /\ parsed = {} /\ manager = <<>> /\ todo = {} /\ result = "none"
  /\ settings = [enabled |-> FALSE, dir |-> "", definitions |-> <<>>]

----------------------------------------------------------------------------
(* Both files are sought upwards.  A directory called Procfile is passed   *)
(* over; one called durablecompose.toml is what is found.                  *)
Nearest(S) == IF S = {} THEN 0 ELSE CHOOSE i \in S : \A j \in S : i <= j
FindProcfile == Nearest({i \in DOMAIN path : path[i] = "file"})
FindDurableComposeConfig == Nearest({i \in DOMAIN path : path[i] # "nothing"})

(* LoadAndApplyConfig takes any error for a file that is not there.        *)
Applied == LET i == FindDurableComposeConfig
           IN  IF i # 0 /\ path[i] = "file" THEN i ELSE 0

Seek ==
  /\ path = <<>> /\ lines = <<>>
  /\ path' \in [1..3 -> Entries]
  /\ UNCHANGED <<lines, settings, parsed, todo, manager, result>>

----------------------------------------------------------------------------
(* Parse: the first line that is wrong ends it.                            *)
Defines(i) == lines[i] # "comment"
Earlier(i) == {lines[j] : j \in {k \in 1..(i - 1) : Defines(k)}}
WrongLine(i) ==
  /\ Defines(i)
  /\ \/ Cardinality(Earlier(i)) >= MaxInProcfile
     \/ lines[i] = "invalid"
     \/ \E n \in Earlier(i) : Lower(n) = Lower(lines[i])

Parsed == {lines[i] : i \in {k \in DOMAIN lines : Defines(k)}}
ParseFails == (\E i \in DOMAIN lines : WrongLine(i)) \/ Parsed = {}

Fail == result' = "err" /\ UNCHANGED <<path, lines, settings, parsed, todo, manager>>

(* LoadProcessesFromConfig.                                                *)
Load ==
  /\ path = <<>> /\ lines = <<>>
  /\ \/ \E k \in 1..MaxLines : lines' \in [1..k -> Lines]
     \/ lines' \in {<<"unnamed">>, <<"missing">>}
  /\ settings' \in Settings
  /\ ~settings'.enabled => lines' = <<"unnamed">>
  /\ UNCHANGED <<path, parsed, todo, manager, result>>

Reading == lines # <<>> /\ result = "none" /\ parsed = {} /\ todo = {} /\ manager = <<>>
Readable == lines \notin {<<"unnamed">>, <<"missing">>}

Disabled ==
  /\ Reading /\ ~settings.enabled
  /\ result' = "nil"
  /\ UNCHANGED <<path, lines, settings, parsed, todo, manager>>

ProcfileFails ==
  /\ Reading /\ settings.enabled
  /\ lines = <<"missing">> \/ (Readable /\ ParseFails)
  /\ Fail

Of(kind, S) == {[kind |-> kind, name |-> n] : n \in S}

ReadProcfile ==
  /\ Reading /\ settings.enabled
  /\ Readable /\ ~ParseFails
  /\ parsed' = Parsed
  /\ todo' = Of("procfile", Parsed)
  /\ UNCHANGED <<path, lines, settings, manager, result>>

----------------------------------------------------------------------------
(* The process of a definition, with its directory and environment.        *)
DefaultDir == IF settings.dir = "" THEN "project" ELSE settings.dir
Process(d) ==
  IF d.kind = "procfile" THEN [command |-> "procfile", dir |-> DefaultDir, env |-> "default"]
  ELSE LET own == settings.definitions[d.name]
       IN  [command |-> own.command,
            dir     |-> IF own.dir = "" THEN DefaultDir ELSE own.dir,
            env     |-> IF own.env = "" THEN "default" ELSE own.env]

(* NewProcess: a command that is not empty, a directory that is there.     *)
Refused(p) == p.command = "" \/ p.dir = "missing"

(* Remove takes the name as it is.                                         *)
Without(name) == [n \in DOMAIN manager \ {name} |-> manager[n]]

(* Mutant: the definition that is overridden is not removed.               *)
BugRest(d) == manager

(* Inline definitions first remove what has their name.                    *)
Rest(d) == IF d.kind = "inline" THEN Without(d.name) ELSE manager

(* ProcessManager.Add: limits, and no two names equal in lower case.       *)
Taken(rest, name) ==
  \/ Cardinality(DOMAIN rest) >= MaxInManager
  \/ \E n \in DOMAIN rest : Lower(n) = Lower(name)

Add(d) ==
  /\ ~Refused(Process(d)) /\ ~Taken(Rest(d), d.name)
  /\ manager' = [n \in DOMAIN Rest(d) \cup {d.name} |->
                   IF n = d.name THEN Process(d) ELSE Rest(d)[n]]
  /\ todo' = todo \ {d}
  /\ UNCHANGED <<path, lines, settings, parsed, result>>

AddFails(d) == (Refused(Process(d)) \/ Taken(Rest(d), d.name)) /\ Fail

(* The definitions come when the Procfile is done.                         *)
AddOne == result = "none" /\ \E d \in todo : Add(d) \/ AddFails(d)

Inlines == Of("inline", DOMAIN settings.definitions)

BeginInline ==
  /\ result = "none" /\ todo = {} /\ settings.enabled /\ Inlines # {}
  /\ lines = <<"unnamed">> \/ parsed # {}
  /\ \A n \in DOMAIN manager : manager[n].command = "procfile"
  /\ todo' = Inlines
  /\ UNCHANGED <<path, lines, settings, parsed, manager, result>>

Loaded ==
  /\ result = "none" /\ todo = {} /\ settings.enabled
  /\ lines = <<"unnamed">> \/ parsed # {}
  /\ Inlines = {} \/ \E n \in DOMAIN manager : manager[n].command = "inline"
  /\ result' = "nil"
  /\ UNCHANGED <<path, lines, settings, parsed, todo, manager>>

Next ==
  \/ Seek \/ Load \/ Disabled \/ ProcfileFails \/ ReadProcfile
  \/ AddOne \/ BeginInline \/ Loaded

Spec == Init /\ [][Next]_vars

----------------------------------------------------------------------------
(* Variables keep their types; no two processes have names that differ in  *)
(* case only, and limits are kept, whatever the order.                     *)
TypeOK ==
  /\ DOMAIN manager \subseteq ProcessNames /\ result \in {"none", "nil", "err"}
  /\ parsed \subseteq ProcessNames /\ todo \subseteq Of("procfile", ProcessNames) \cup Inlines
  /\ \A m, n \in DOMAIN manager : Lower(m) = Lower(n) => m = n
  /\ Cardinality(DOMAIN manager) <= MaxInManager

(* A load that succeeds has every process there is a definition of, the    *)
(* one of the toml file if there are two: nothing is lost, mixed or left   *)
(* over from the Procfile.                                                 *)
AllDefined ==
  result = "nil" =>
    LET inline == IF settings.enabled THEN DOMAIN settings.definitions ELSE {}
    IN  manager = [n \in parsed \cup inline |->
                     Process([kind |-> IF n \in inline THEN "inline" ELSE "procfile", name |-> n])]

(* It fails for a reason: a definition that is not valid, too many, two    *)
(* names of one file that differ in case only, or one of the toml file     *)
(* that differs in case only from one of the Procfile (OverrideAnyCase     *)
(* says that this should be no reason).                                    *)
FailsForAReason ==
  result = "err" =>
    \/ lines = <<"missing">> \/ (Readable /\ ParseFails)
    \/ settings.dir = "missing"
    \/ \E n \in DOMAIN settings.definitions : settings.definitions[n].command = ""
    \/ Cardinality(parsed \cup DOMAIN settings.definitions) > MaxInManager
    \/ \E m, n \in parsed \cup DOMAIN settings.definitions : m # n /\ Lower(m) = Lower(n)

(* The Procfile that is found is the nearest there is; the toml file too,  *)
(* unless a directory is in its way: then none is used.                    *)
NearestIsFound ==
  LET files == {i \in DOMAIN path : path[i] = "file"}
      above(i) == \A j \in files : i <= j
  IN  /\ IF files = {} THEN FindProcfile = 0 ELSE FindProcfile \in files /\ above(FindProcfile)
      /\ Applied # 0 => Applied \in files /\ above(Applied)

DefinitionsAreRight == TypeOK /\ AllDefined /\ FailsForAReason /\ NearestIsFound

(* "Remove existing if present (allow override)" (bridge.go:103): a        *)
(* definition of the toml file overrides that of the Procfile, whose names *)
(* are the same in any case.  (Remove compares as is, Add in lower case.)  *)
OverrideAnyCase ==
  result = "err" /\ parsed # {} =>
    \/ settings.dir = "missing"
    \/ \E n \in DOMAIN settings.definitions : settings.definitions[n].command = ""
    \/ Cardinality({Lower(n) : n \in parsed \cup DOMAIN settings.definitions}) > MaxInManager
    \/ \E m, n \in DOMAIN settings.definitions : m # n /\ Lower(m) = Lower(n)
=============================================================================
