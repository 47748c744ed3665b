---------------------------- MODULE Publication -----------------------------
(***************************************************************************)
(* compose publish (pkg/compose/publish.go, internal/oci/push.go): the     *)
(* compose file and, level by level, the files its services extend become  *)
(* layers of an artifact, in which references to other files are replaced  *)
(* by the names of their layers.  Layers are pushed first, then a          *)
(* manifest, in a format the registry may refuse; then maybe an index of   *)
(* the images.  Extended files lie in the directory of the project.        *)
(***************************************************************************)
EXTENDS Naturals

Files == {"main", "base", "other"} \* main is project.ComposeFiles
FileCount == 3

VARIABLES
  project,  \* What concerns publication
  options,  \* PublishOptions, and what the user answers
  registry, \* The formats it takes
  step,     \* Where publish is
  extFiles, \* Files processExtends is to process
  level,    \* How deep it is in its recursion
  layers,   \* Layers so far
  blobs,    \* What the registry has: layers, and formats of manifests
  manifest, \* The layers the manifest in the registry names, or {}
  index,    \* The index is in the registry
  result    \* "none", "nil", "declined" (nil, nothing done), "err" or "panic"

vars  == <<project, options, registry, step, extFiles, level, layers, blobs, manifest, index, result>>
given == <<project, options, registry>>

(* Services may have no image but a build, mount directories, hold what    *)
(* looks like a secret.  extends[f] is the files services of f extend, env *)
(* the files with services that have an env_file; in the project these may *)
(* count or not, if they are in another file.  The env file of main may be *)
(* one that cannot be read (missing, and not required).                    *)
Projects == [buildOnly : BOOLEAN, binds : BOOLEAN, secrets : BOOLEAN,
             extends : [Files -> SUBSET Files], env : SUBSET {"main", "base"}, readable : BOOLEAN,
             counts : BOOLEAN]
Simple(p) == ~p.buildOnly /\ ~p.binds /\ ~p.secrets
Plain(p)  == p.env = {} /\ p.extends = [f \in Files |-> IF f = "main" THEN {"base"} ELSE {}]
Versions  == {"", "1.0", "1.1"}
Options   == [env : BOOLEAN, digests : BOOLEAN, app : BOOLEAN, version : Versions, yes : BOOLEAN]

Init ==
  /\ project = [buildOnly |-> TRUE] /\ options = [env |-> FALSE] /\ registry = {}
  /\ step = "idle" /\ extFiles = {} /\ level = 0 /\ layers = {}
  /\ blobs = {} /\ manifest = {} /\ index = FALSE /\ result = "none"

(* Cases of the checks, of the files and of the registry are not combined  *)
(* with each other.                                                        *)
Give ==
  /\ step = "idle"
  /\ project' \in Projects /\ options' \in Options /\ registry' \in {{"1.0"}, {"1.0", "1.1"}}
  /\ Simple(project') \/ Plain(project')
  /\ ~project'.readable => "main" \in project'.env
  /\ ~Simple(project') \/ ~Plain(project') => options'.version = "1.0" /\ ~options'.app /\ ~options'.digests
  /\ step' = "check"
  /\ UNCHANGED <<extFiles, level, layers, blobs, manifest, index, result>>

Ends(r) == step' = "done" /\ result' = r
Goes(s) == step' = s /\ UNCHANGED result

----------------------------------------------------------------------------
(* preChecks.                                                              *)
HasEnv == "main" \in project.env \/ (project.env # {} /\ project.counts)

Check ==
  /\ step = "check"
  /\ IF project.buildOnly THEN Ends("err")
     ELSE IF (project.binds \/ project.secrets) /\ ~options.yes THEN Ends("declined")
     ELSE IF HasEnv /\ ~options.env THEN Ends("err")
     ELSE Goes("files")
  /\ UNCHANGED <<given, extFiles, level, layers, blobs, manifest, index>>

(* The images are pushed; failures are ignored.  Then createLayers.        *)
ProcessMain ==
  /\ step = "files"
  /\ layers' = {"main"}
  /\ extFiles' = project.extends["main"]
  /\ level' = 1
  /\ Goes("extends")
  /\ UNCHANGED <<given, blobs, manifest, index>>

(* Mutant: the files that extended files extend are left out.              *)
BugRemaining(more) == {}

(* Of the files a level finds those it has itself processed are done.      *)
Remaining(more) == more \ extFiles

(* processExtends; it has no map for env files, so processFile panics.     *)
ProcessExtends ==
  /\ step = "extends" /\ level <= FileCount + 1
  /\ IF extFiles \cap project.env # {}
     THEN Ends("panic") /\ UNCHANGED <<extFiles, level, layers>>
     ELSE /\ layers' = layers \cup extFiles
          /\ extFiles' = Remaining(UNION {project.extends[f] : f \in extFiles})
          /\ level' = level + 1
          /\ IF extFiles' = {} THEN Goes("others") ELSE Goes("extends")
  /\ UNCHANGED <<given, blobs, manifest, index>>

(* Env files, but those that cannot be read; and the digests of images,    *)
(* which may not be resolved.                                              *)
ProcessOthers ==
  /\ step = "others"
  /\ layers' = layers \cup (IF options.env /\ "main" \in project.env /\ project.readable THEN {"env"} ELSE {})
                      \cup (IF options.digests THEN {"digests"} ELSE {})
  /\ Goes("push")
  /\ UNCHANGED <<given, extFiles, level, blobs, manifest, index>>

DigestsFail ==
  /\ step = "others" /\ options.digests
  /\ Ends("err")
  /\ UNCHANGED <<given, extFiles, level, layers, blobs, manifest, index>>

----------------------------------------------------------------------------
(* PushManifest: one layer after the other.                                *)
PushLayers ==
  /\ step = "push"
  /\ blobs' \in SUBSET layers
  /\ IF blobs' = layers THEN Goes(IF options.version = "" THEN "1.1" ELSE options.version)
     ELSE Ends("err")
  /\ UNCHANGED <<given, extFiles, level, layers, manifest, index>>

(* createAndPushManifest: the config, then the manifest.  An answer that   *)
(* is no matter of authentication makes it try the other format, if none   *)
(* was asked for.                                                          *)
PushManifest(v) ==
  /\ step = v
  /\ blobs' = blobs \cup {v}
  /\ manifest' = layers
  /\ v \in registry
  /\ IF options.app THEN Goes("app") ELSE Ends("nil")
  /\ UNCHANGED <<given, extFiles, level, layers, index>>

ManifestRefused(v) ==
  /\ step = v /\ v \notin registry
  /\ blobs' \in {blobs, blobs \cup {v}}
  /\ IF options.version = "" /\ v = "1.1" THEN Goes("1.0") ELSE Ends("err")
  /\ UNCHANGED <<given, extFiles, level, layers, manifest, index>>

PushFails ==
  /\ step \in Versions \cup {"app"}
  /\ Ends("err")
  /\ UNCHANGED <<given, extFiles, level, layers, blobs, manifest, index>>

(* Images are copied into the repository, then an index is pushed.         *)
PushIndex ==
  /\ step = "app"
  /\ index' = TRUE
  /\ Ends("nil")
  /\ UNCHANGED <<given, extFiles, level, layers, blobs, manifest>>

Next ==
  \/ Give \/ Check \/ ProcessMain \/ ProcessExtends \/ ProcessOthers \/ DigestsFail
  \/ PushLayers \/ (\E v \in Versions : PushManifest(v) \/ ManifestRefused(v))
  \/ PushFails \/ PushIndex

Spec == Init /\ [][Next]_vars

----------------------------------------------------------------------------
(* Variables keep their types.                                             *)
TypeOK ==
  /\ layers \subseteq Files \cup {"env", "digests"} /\ extFiles \subseteq Files
  /\ blobs \subseteq layers \cup Versions /\ manifest \subseteq layers
  /\ level \in 0..(FileCount + 2) /\ index \in BOOLEAN
  /\ result \in {"none", "nil", "declined", "err", "panic"}

(* What is published can be used: each file that a published file refers   *)
(* to by the name of a layer is published with it, but an env file that    *)
(* could not be read.                                                      *)
ReferencesResolved ==
  /\ \A f \in manifest \cap Files : project.extends[f] \subseteq manifest
  /\ manifest # {} /\ "main" \in project.env => "env" \in manifest \/ ~project.readable

(* The registry never has a manifest, or an index, of what it has not.     *)
ManifestIsComplete ==
  /\ manifest \subseteq blobs /\ (manifest # {} => \E v \in registry : v \in blobs)
  /\ index => manifest # {}

(* Success means that all was published; and nothing has been, when the    *)
(* user declines or a check fails.                                         *)
PublishIsHonest ==
  /\ result = "nil" => manifest = layers /\ (options.app => index)
  /\ result = "nil" => (options.digests => "digests" \in manifest)
  /\ result = "declined" => blobs = {}

(* The recursion goes no deeper than there are files, but if two files     *)
(* extend each other's services; then it does not end.                     *)
EachOther == \E f, g \in Files : f # g /\ g \in project.extends[f] /\
               (f \in project.extends[g] \/ \E h \in project.extends[g] : h # g /\ f \in project.extends[h])
RecursionEnds == level > FileCount + 1 => EachOther

(* A panic comes from an env_file in an extended file only.                *)
PanicsForEnvFiles == result = "panic" => \E f \in project.env : \E g \in Files : f \in project.extends[g]

PublicationIsRight ==
  /\ TypeOK /\ ReferencesResolved /\ ManifestIsComplete /\ PublishIsHonest
  /\ RecursionEnds /\ PanicsForEnvFiles

(* "--with-env: Include environment variables in the published OCI         *)
(* artifact" (docs/reference/compose_publish.md:12).  (With an env_file in *)
(* an extended file it panics.)                                            *)
WithEnvPublishes == result # "panic"
=============================================================================
