------------------------------- MODULE Images -------------------------------
(***************************************************************************)
(* The images of a project of two services: what create makes sure of      *)
(* (ensureImagesExists in pkg/compose/build.go: local images, then pulls,  *)
(* then a build by bake or by the classic builder), and what compose pull  *)
(* does (pkg/compose/pull.go).  The image of a service is the one it names,*)
(* or one named after it; the two services may name the same.  web may     *)
(* also mount an image as a volume, and its build may use that of db.      *)
(***************************************************************************)
CONSTANT TargetClash \* Whether the services have names like a.b and a_b

Services == {"web", "db"}
Default  == [web |-> "p-web", db |-> "p-db"]
ImageNames == {"x", "p-web", "p-db"}
Absent   == "absent"

VARIABLES
  task,     \* What was asked for
  service,  \* The services of the file
  registry, \* Images that can be pulled
  engine,   \* Images of the engine: "absent", or where they come from
  step,     \* Where the command is
  known,    \* The map of images of the command
  label,    \* The image label of each service, "none" for no label
  mount,    \* The image web is to mount
  built,    \* Services whose image the build has put into the engine
  pulled,   \* Images the pull has put into the engine, and found there
  cancelled,\* The command was cancelled during the pulls
  result    \* "none", "nil" or "err"

vars  == <<task, service, registry, engine, step, known, label, mount, built, pulled, cancelled, result>>
given == <<task, service, registry>>

Policies == {"missing", "always", "never", "build", "refresh"}

(* A service wants a platform only if no other uses its image: of one name *)
(* the engine may have one platform.                                       *)
Projects ==
  [web : [image : {"", "x"}, build : BOOLEAN, policy : Policies, platform : BOOLEAN],
   db  : [image : {"", "x"}, build : BOOLEAN, policy : {"missing", "always", "build"}, platform : {FALSE}]]

(* build is what buildOpts asks for: nothing, all, or web only; volume     *)
(* that web mounts x; context that its build uses db's.  The two ignore    *)
(* options are those of compose pull.                                      *)
Tasks == [of : {"create"}, build : {"none", "all", "web"}, builder : {"bake", "classic"}, volume : BOOLEAN,
          context : BOOLEAN, ignoreBuildable : {FALSE}, ignoreFailures : {FALSE}]
         \cup
         [of : {"pull"}, build : {"none"}, builder : {"bake"}, volume : {FALSE},
          context : {FALSE}, ignoreBuildable : BOOLEAN, ignoreFailures : BOOLEAN]
None == [of |-> "nothing"]

Image(s) == service[s].image
Name(s)  == IF Image(s) = "" THEN Default[s] ELSE Image(s)

Init ==
  /\ task = None /\ service = <<>> /\ registry = {} /\ engine = [n \in ImageNames |-> Absent]
  /\ step = "idle" /\ known = engine /\ label = [s \in Services |-> "none"] /\ mount = "none"
  /\ built = {} /\ pulled = {} /\ cancelled = FALSE /\ result = "none"

Give ==
  /\ step = "idle"
  /\ task' \in Tasks
  /\ service' \in Projects
  /\ registry' \in {{}, {"x"}}
  /\ \E x \in {Absent, "local", "foreign"}, d \in {Absent, "local"} :
       engine' = [n \in ImageNames |-> IF n = "x" THEN x ELSE d]
  /\ service'.web.platform => service'.web.image = "x" /\ service'.db.image = "" /\ ~task'.volume
  /\ engine'["x"] = "foreign" => service'.web.platform
  /\ task'.context => task'.build = "web" /\ service'.web.build /\ service'.db.build
  /\ task'.build = "none" => task'.builder = "bake"
  /\ step' = "inspect"
  /\ UNCHANGED <<known, label, mount, built, pulled, cancelled, result>>

----------------------------------------------------------------------------
(* A service must have an image, or a build.                               *)
Ends(r) == step' = "done" /\ result' = r

CheckImages ==
  /\ step = "inspect" /\ task.of = "create"
  /\ \E s \in Services : Image(s) = "" /\ ~service[s].build
  /\ Ends("err")
  /\ UNCHANGED <<given, engine, known, label, mount, built, pulled, cancelled>>

(* getLocalImagesDigests: an image of the wrong platform is forgotten, but *)
(* its label is set.                                                       *)
Forgotten(n) == \E s \in Services : Name(s) = n /\ service[s].platform /\ engine[n] = "foreign"

Inspect ==
  /\ step = "inspect"
  /\ task.of = "create" => \A s \in Services : Image(s) # "" \/ service[s].build
  /\ known' = [n \in ImageNames |-> IF Forgotten(n) THEN Absent ELSE engine[n]]
  /\ label' = [s \in Services |-> IF engine[Name(s)] = Absent THEN "none" ELSE engine[Name(s)]]
  /\ mount' = IF task.of = "create" /\ task.volume THEN "x" ELSE mount
  /\ step' = "pull"
  /\ UNCHANGED <<given, engine, built, pulled, cancelled, result>>

----------------------------------------------------------------------------
(* mustPull; the time of refresh is up or not.                             *)
MustPull(s, due) ==
  /\ Image(s) # ""
  /\ CASE service[s].policy = "always"            -> TRUE
       [] service[s].policy \in {"never", "build"} -> FALSE
       [] service[s].policy = "refresh"           -> known[Name(s)] = Absent \/ due
       [] OTHER                                   -> known[Name(s)] = Absent

(* The pulls of create, by who wants them; "volume" is the image to mount. *)
Needed(due) ==
  {s \in Services : MustPull(s, due)}
    \cup (IF task.volume /\ known["x"] = Absent THEN {"volume"} ELSE {})

NameOf(p) == IF p = "volume" THEN "x" ELSE Name(p)

(* isServiceImageToBuild: by the service itself, or by another that builds *)
(* the image of that name.                                                 *)
CanBeBuilt(p) ==
  \/ p # "volume" /\ service[p].build
  \/ \E s \in Services : service[s].build /\ Image(s) = NameOf(p)

(* pullServiceImage: a pull may fail at any time, "unseen" if the engine   *)
(* has the image but the inspection that follows fails; one that is        *)
(* interrupted, by a cancellation or by the failure of another, is no      *)
(* error.                                                                  *)
Outcomes(P) ==
  {o \in [P -> {"ok", "unseen", "failed", "interrupted"}] :
     \A p \in P : o[p] \in {"ok", "unseen"} => NameOf(p) \in registry}
Fails(o, p)          == o[p] \in {"unseen", "failed"}
Interrupts(o, fatal) == (\E p \in DOMAIN o : o[p] = "interrupted") => cancelled \/ fatal

Fetched(o)          == {NameOf(p) : p \in {q \in DOMAIN o : o[q] = "ok"}}
Landed(o)           == {NameOf(p) : p \in {q \in DOMAIN o : o[q] \in {"ok", "unseen"}}}
Put(images, names)  == [n \in ImageNames |-> IF n \in names THEN "pulled" ELSE images[n]]

Cancel ==
  /\ step = "pull" /\ ~cancelled
  /\ cancelled' = TRUE
  /\ UNCHANGED <<given, engine, step, known, label, mount, built, pulled, result>>

(* pullRequiredImages: a pull that fails is no error if the image can be   *)
(* built.                                                                  *)
PullRequired ==
  /\ step = "pull" /\ task.of = "create"
  /\ \E due \in BOOLEAN : \E o \in Outcomes(Needed(due)) :
       LET fatal == \E p \in DOMAIN o : Fails(o, p) /\ ~CanBeBuilt(p)
       IN  /\ Interrupts(o, fatal)
           /\ engine' = Put(engine, Landed(o))
           /\ known' = Put(known, Fetched(o))
           /\ pulled' = Fetched(o)
           /\ IF fatal THEN Ends("err") ELSE step' = "build" /\ UNCHANGED result
  /\ UNCHANGED <<given, label, mount, built, cancelled>>

(* imageAlreadyPresent: latest is never present; x has another tag.        *)
Skipped(s) ==
  \/ Image(s) = ""
  \/ service[s].policy \in {"never", "build"}
  \/ service[s].policy = "missing" /\ known[Name(s)] # Absent
  \/ service[s].build /\ task.ignoreBuildable

(* Of the services with one image the first met pulls it for all.          *)
Pullers == {P \in SUBSET {s \in Services : ~Skipped(s)} :
              /\ \A s \in Services : Skipped(s) \/ \E p \in P : Name(p) = Name(s)
              /\ \A p, q \in P : Name(p) = Name(q) => p = q}

(* pull: fails at once if the image cannot be built, and in the end if any *)
(* pull failed, or never.                                                  *)
PullResult(o, fatal) ==
  IF fatal \/ (~task.ignoreFailures /\ \E p \in DOMAIN o : Fails(o, p)) THEN "err" ELSE "nil"

Pull ==
  /\ step = "pull" /\ task.of = "pull"
  /\ \E P \in Pullers : \E o \in Outcomes(P) :
       LET fatal == ~task.ignoreFailures /\ \E p \in P : Fails(o, p) /\ ~service[p].build
       IN  /\ Interrupts(o, fatal)
           /\ engine' = Put(engine, Landed(o))
           /\ pulled' = Fetched(o)
           /\ Ends(PullResult(o, fatal))
  /\ UNCHANGED <<given, known, label, mount, built, cancelled>>

----------------------------------------------------------------------------
(* addBuildDependencies: with the services whose builds theirs use.        *)
Asked ==
  IF task.build = "all" THEN Services
  ELSE IF task.build = "web" THEN {"web"} \cup (IF task.context THEN {"db"} ELSE {}) ELSE {}

(* Mutant: an image that is there is not built, whatever the policy.       *)
BugToBuild == {s \in Asked : service[s].build /\ known[Name(s)] = Absent}

(* build: what is not there, or is to be built always.                     *)
ToBuild == {s \in Asked : service[s].build /\ (known[Name(s)] = Absent \/ service[s].policy = "build")}

(* Each service has a target in the bake file, with dots as underscores:   *)
(* of those with one target the last that is written is built for all.     *)
BakeTargets == IF TargetClash /\ task.builder = "bake" /\ \A s \in Services : service[s].build
           THEN {[s \in ToBuild |-> t] : t \in Services}
           ELSE {[s \in ToBuild |-> s]}

(* The service whose build a name is left with, if several have it.        *)
Tags(B) == {f \in [{Name(s) : s \in B} -> B] : \A n \in DOMAIN f : Name(f[n]) = n}

Tagged(images, tag) == [n \in ImageNames |-> IF n \in DOMAIN tag THEN tag[n] ELSE images[n]]

(* The classic builder takes no additional contexts.                       *)
Supported == task.builder = "classic" /\ task.context => "web" \notin ToBuild

Build ==
  /\ step = "build" /\ ~cancelled /\ Supported
  /\ \E target \in BakeTargets :
       /\ built' = {target[s] : s \in ToBuild}
       /\ \E tag \in Tags(built'), found \in Tags(ToBuild) :
            /\ engine' = Tagged(engine, tag)
            /\ known' = Tagged(known, [n \in DOMAIN found |-> target[found[n]]])
  /\ step' = "label"
  /\ UNCHANGED <<given, label, mount, pulled, cancelled, result>>

(* Some may have been built when another fails.                            *)
BuildFails ==
  /\ step = "build" /\ ToBuild # {}
  /\ built' \in SUBSET ToBuild
  /\ \E tag \in Tags(built') : engine' = Tagged(engine, tag)
  /\ Ends("err")
  /\ UNCHANGED <<given, known, label, mount, pulled, cancelled>>

NothingToBuild ==
  /\ step = "build" /\ cancelled /\ ToBuild = {}
  /\ step' = "label"
  /\ UNCHANGED <<given, engine, known, label, mount, built, pulled, cancelled, result>>

(* The labels, which tell later whether a container has an old image, and  *)
(* the image to mount (resolveImageVolumes).                               *)
SetLabels ==
  /\ step = "label"
  /\ label' = [s \in Services |-> IF known[Name(s)] = Absent THEN label[s] ELSE known[Name(s)]]
  /\ mount' = IF mount = "x" /\ known["x"] # Absent THEN known["x"] ELSE mount
  /\ Ends("nil")
  /\ UNCHANGED <<given, engine, known, built, pulled, cancelled>>

Next ==
  \/ Give \/ CheckImages \/ Inspect \/ Cancel \/ PullRequired \/ Pull
  \/ Build \/ BuildFails \/ NothingToBuild \/ SetLabels

Spec == Init /\ [][Next]_vars

----------------------------------------------------------------------------
(* Variables keep their types.                                             *)
TypeOK ==
  /\ task \in Tasks \cup {None}
  /\ step \in {"idle", "inspect", "pull", "build", "label", "done"} /\ result \in {"none", "nil", "err"}
  /\ \A n \in ImageNames : {engine[n], known[n]} \subseteq {Absent, "local", "foreign", "pulled"} \cup Services
  /\ built \subseteq Services /\ pulled \subseteq ImageNames /\ (step = "done") = (result # "none")

Succeeded(of) == result = "nil" /\ task.of = of /\ ~cancelled

(* When create goes on, each service has its image, but where the file     *)
(* says that it is neither pulled nor built, or where the options say that *)
(* no image, or not that of this service, is built.                        *)
ImageForEach ==
  Succeeded("create") =>
    \A s \in Services :
      \/ engine[Name(s)] # Absent
      \/ service[s].policy \in {"never", "build"} /\ ~service[s].build
      \/ \E b \in Services \ Asked : service[b].build /\ Name(b) = Name(s)

(* The label says which image the engine has under the name, and what is   *)
(* mounted is that image: two services that build one name aside, whose    *)
(* builds are tagged in one order and noted in another, and images that    *)
(* were pulled but not found, and could have been built.                   *)
Unseen(n)  == engine[n] = "pulled" /\ n \notin pulled
BuiltTwice == built = Services /\ Name("web") = Name("db")
LabelIsTrue ==
  Succeeded("create") =>
    /\ \A s \in Services :
         \/ label[s] = (IF engine[Name(s)] = Absent THEN "none" ELSE engine[Name(s)])
         \/ BuiltTwice \/ Unseen(Name(s))
    /\ mount # "none" =>
         mount = (IF engine["x"] = Absent THEN "x" ELSE engine["x"]) \/ BuiltTwice \/ Unseen("x")

(* pull_policy build, and --build, which sets it, always build.            *)
BuiltWhatWasAsked ==
  Succeeded("create") => \A s \in Asked : service[s].build /\ service[s].policy = "build" => s \in built

(* A pull that reports success has pulled what it did not skip.            *)
PullIsHonest ==
  Succeeded("pull") /\ ~task.ignoreFailures => \A s \in Services : Skipped(s) \/ Name(s) \in pulled

ImagesAreRight == TypeOK /\ ImageForEach /\ LabelIsTrue /\ BuiltWhatWasAsked /\ PullIsHonest

(* pull_policy always: "image can be built, so we can ignore pull failure" *)
(* (pull.go:336); then it is built.  (It is not, if an older one is there.)*)
AlwaysIsFresh ==
  Succeeded("create") =>
    \A s \in Asked : service[s].policy = "always" /\ Image(s) # "" =>
      Name(s) \in pulled \/ \E b \in built : Name(b) = Name(s)
=============================================================================
