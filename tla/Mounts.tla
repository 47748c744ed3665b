------------------------------- MODULE Mounts -------------------------------
(***************************************************************************)
(* What a container of a service mounts, over the containers that replace  *)
(* each other: buildContainerVolumes and what it calls (pkg/compose/       *)
(* create.go).  A container is given the volumes the service declares, its *)
(* secrets and configs, and the anonymous volumes of the container before  *)
(* it, each by the bind or by the mount API of the engine.  A file that    *)
(* asks for a secret or config that is external or has a driver gives no   *)
(* container, and changes nothing; one from a variable or from content is  *)
(* copied into the container later, and is none of its mounts.  Mounts of  *)
(* type image are left out (Images has the image that is to be mounted).   *)
(***************************************************************************)
EXTENDS Integers, FiniteSets

CONSTANTS Targets,       \* Paths in the container
          Named, Paths,  \* Volumes of the project, paths of the host
          Generations    \* Bound: containers that replace each other

VARIABLES
  service,   \* What the compose file, the image and the options say of the service's files
  request,   \* What the engine is asked for: by target, through which API
  mounted,   \* The container's mounts as the engine reports them
  before,    \* Those of the container that was replaced
  generation \* Containers made so far

vars == <<service, request, mounted, before, generation>>

(* Sources other than volumes and paths: an anonymous volume is known by   *)
(* the generation of the container it was made for.                        *)
NoSource == 0
HostFile == -1
Sources  == Named \cup Paths \cup (HostFile..Generations)

Mount(type, source, options, readOnly) ==
  [type |-> type, source |-> source, options |-> options, readOnly |-> readOnly]
Nothing   == Mount("none", NoSource, {}, FALSE)
Tmpfs     == Mount("tmpfs", NoSource, {}, FALSE)
Unnamed   == Mount("volume", NoSource, {}, FALSE)
File      == Mount("bind", HostFile, {"no_create"}, TRUE)

Declarable == {Nothing, Tmpfs, Unnamed}
  \cup {Mount("volume", v, o, r) : v \in Named, r \in BOOLEAN, o \in {{}, {"nocopy"}, {"subpath"}, {"labels"}}}
  \cup {Mount("bind", p, o, FALSE) : p \in Paths,
          o \in {{}, {"selinux"}, {"selinux", "no_create"}, {"propagation"}, {"recursive"}}}

(* service.declared: the volumes by target; service.image: the targets the *)
(* image declares as volumes; service.files: the targets of its secrets    *)
(* and configs, which are read-only files of the host; service.inherit:    *)
(* not --renew-anon-volumes.                                               *)
Services == [declared : [Targets -> Declarable], image : SUBSET Targets,
             files : SUBSET Targets, inherit : BOOLEAN]

----------------------------------------------------------------------------
(* What the container inherits: of the mounts of the container before, but *)
(* for tmpfs, the one at a volume of the image, and the one where a volume *)
(* is declared without a source, of whatever type either is.               *)
Unsourced(s, t) == s.declared[t].type # "none" /\ s.declared[t].source = NoSource

BugInherits(s, t) ==
  /\ s.inherit
  /\ mounted[t].type \notin {"none", "tmpfs"}
  /\ t \in s.image

Inherits(s, t) ==
  /\ s.inherit
  /\ mounted[t].type \notin {"none", "tmpfs"}
  /\ t \in s.image \/ Unsourced(s, t)

BugMountOption(s, t) ==
  CASE Inherits(s, t) -> [mounted[t] EXCEPT !.options = {}]
    [] ~Inherits(s, t) /\ s.declared[t].type # "none" -> s.declared[t]
    [] OTHER -> IF t \in s.files THEN File ELSE Nothing

(* buildContainerMountOptions and fillBindMounts: a declaration with a     *)
(* source replaces what is inherited, one without gives way to it; secrets *)
(* and configs come where nothing else is.                                 *)
MountOption(s, t) ==
  IF s.declared[t].type # "none" /\ ~(Inherits(s, t) /\ Unsourced(s, t)) THEN s.declared[t]
  ELSE IF Inherits(s, t) THEN [mounted[t] EXCEPT !.options = {}]
  ELSE IF t \in s.files THEN File ELSE Nothing

BugRequiresMountAPI(v) ==
  \/ v.type = "bind"   /\ v.options \cap {"no_create", "propagation"} # {}
  \/ v.type = "volume" /\ v.options \cap {"labels", "subpath", "nocopy"} # {}

(* bindRequiresMountAPI, volumeRequiresMountAPI.                           *)
RequiresMountAPI(v) ==
  \/ v.type = "bind"   /\ v.options \cap {"no_create", "propagation", "recursive"} # {}
  \/ v.type = "volume" /\ v.options \cap {"labels", "subpath", "nocopy"} # {}

(* buildContainerVolumes: the bind API where a volume is declared for the  *)
(* target and asks for nothing that API lacks, for volumes of the project  *)
(* and binds; toBindString has the access and options of the declaration.  *)
UsesBindAPI(s, t, m) ==
  /\ s.declared[t].type # "none"
  /\ m.type = "bind" \/ (m.type = "volume" /\ m.source \in Named)
  /\ ~(s.declared[t].type = m.type /\ RequiresMountAPI(s.declared[t]))

BindString(s, t, m) ==
  [m EXCEPT !.readOnly = s.declared[t].readOnly,
            !.options = s.declared[t].options \cap {"selinux", "propagation", "nocopy"}]

(* buildMount and buildMountOptions: the mount API knows no SELinux label. *)
MountRequest(m) == [m EXCEPT !.options = @ \ {"selinux"}]

Request(s, t) ==
  LET m == MountOption(s, t)
  IN  IF UsesBindAPI(s, t, m) THEN BindString(s, t, m) ELSE MountRequest(m)

(* The engine makes a volume for a volume without a source, and for one of *)
(* the image where nothing is mounted.                                     *)
Mounted(s, t, r) ==
  IF (r.type = "volume" /\ r.source = NoSource) \/ (r.type = "none" /\ t \in s.image)
  THEN Mount("volume", generation + 1, {}, r.readOnly)
  ELSE r

----------------------------------------------------------------------------
Init ==
  /\ service \in [declared : {[t \in Targets |-> Nothing]}, image : {{}}, files : {{}},
                 inherit : {FALSE}]
  /\ request = [t \in Targets |-> Nothing]
  /\ mounted = [t \in Targets |-> Nothing]
  /\ before = mounted
  /\ generation = 0

(* The container is made, or made again, from what the compose file, the   *)
(* image and the options are now.                                          *)
CreateContainer ==
  /\ generation < Generations
  /\ service' \in Services
  /\ request' = [t \in Targets |-> Request(service', t)]
  /\ mounted' = [t \in Targets |-> Mounted(service', t, request'[t])]
  /\ before' = mounted
  /\ generation' = generation + 1

Next == CreateContainer

Spec == Init /\ [][Next]_vars

----------------------------------------------------------------------------
(* Variables keep their types.                                             *)
TypeOK ==
  LET Mounts == [Targets -> [type : {"none", "bind", "volume", "tmpfs"}, source : Sources,
                             options : SUBSET {"selinux", "no_create", "propagation", "recursive",
                                               "nocopy", "subpath", "labels"}, readOnly : BOOLEAN]]
  IN  /\ request \in Mounts /\ mounted \in Mounts /\ before \in Mounts
      /\ service \in Services /\ generation \in 0..Generations

AnonymousAt(mounts, t) == mounts[t].type = "volume" /\ mounts[t].source \in 1..Generations
AnonymousWanted(t) ==
  \/ service.declared[t] = Unnamed
  \/ service.declared[t].type = "none" /\ t \in service.image

(* The data of an anonymous volume survives the container: the one made    *)
(* next mounts it with the same access where an anonymous volume is wanted *)
(* again, and no secret hides it; with --renew-anon-volumes it never does. *)
AnonymousKept ==
  \A t \in Targets : AnonymousAt(before, t) /\ AnonymousWanted(t) =>
    IF service.inherit
    THEN mounted[t] = [before[t] EXCEPT !.options = {}]
    ELSE mounted[t].source # before[t].source

(* A volume that names its source is mounted from it with its access,      *)
(* whatever the container before and the image had there.                  *)
DeclaredWins ==
  \A t \in Targets : service.declared[t].source # NoSource =>
    /\ mounted[t].type = service.declared[t].type
    /\ mounted[t].source = service.declared[t].source
    /\ mounted[t].readOnly = service.declared[t].readOnly

(* Whichever API is chosen, a declared option reaches the engine, except   *)
(* a SELinux label beside an option that needs the mount API.              *)
OptionsReachEngine ==
  \A t \in Targets : service.declared[t].source # NoSource =>
    service.declared[t].options \ request[t].options \subseteq
      (IF RequiresMountAPI(service.declared[t]) THEN {"selinux"} ELSE {})

(* A secret or config is mounted from its file where no volume is declared *)
(* for its target, whatever the container before had there, but where the  *)
(* image has a volume and the container before had any mount.              *)
FilesInPlace ==
  \A t \in service.files : service.declared[t].type = "none" =>
    mounted[t] = File \/ (service.inherit /\ t \in service.image /\ before[t].type \notin {"none", "tmpfs"})

(* Anonymous volumes keep their data, declared volumes win, no option of a *)
(* volume is lost but a SELinux label, and secrets and configs are in      *)
(* their places.                                                           *)
VolumesAreRight == TypeOK /\ AnonymousKept /\ DeclaredWins /\ OptionsReachEngine /\ FilesInPlace

(* create.go, buildContainerMountOptions: "inherit previous container's    *)
(* anonymous volume".  What is mounted without being declared is that, or  *)
(* a secret or config.                                                     *)
OnlyAnonymousInherited ==
  \A t \in Targets : mounted[t].type # "none" =>
    \/ mounted[t].type = service.declared[t].type /\ mounted[t].source = service.declared[t].source
    \/ AnonymousAt(mounted, t)
    \/ t \in service.files /\ mounted[t].source = HostFile
=============================================================================
