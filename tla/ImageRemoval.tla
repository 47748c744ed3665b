---------------------------- MODULE ImageRemoval ----------------------------
(***************************************************************************)
(* down --rmi (pkg/compose/image_pruner.go, down.go): which image names it *)
(* collects, by three queries, and how it then removes them, all at once.  *)
(* Meanwhile another command may build an image anew, under its old name.  *)
(***************************************************************************)
EXTENDS Naturals

CONSTANT MaxBuilds \* Bound: images another command builds

Tags     == {"x", "p-web", "extra"} \* p-web is the name web gets by default
Ids      == 1..2
NewIds   == 3..(2 + MaxBuilds)
Gone     == [tags |-> {}, project |-> "", service |-> ""]

VARIABLES
  rmi,      \* The options of down, and the image of service web
  images,   \* Images of the engine
  used,     \* Images that containers use
  query,    \* The queries of ImagesToPrune that are left
  prune,    \* Names to be removed
  pruning,  \* Names being removed
  asListed, \* Images when they were listed by label
  lost,     \* Names removed, each with the image that had it
  downErr,  \* An operation has failed
  downEnd   \* "none", "nil" or "err"

vars == <<rmi, images, used, query, prune, pruning, asListed, lost, downErr, downEnd>>

(* An image has labels if compose has built it.                            *)
Labels == [project : {""}, service : {""}] \cup [project : {"p", "q"}, service : {"web", "old"}]
Labelled(l, t) == [tags |-> t, project |-> l.project, service |-> l.service]

Init ==
  /\ rmi = [mode |-> ""] /\ images = [i \in Ids \cup NewIds |-> Gone] /\ used = {}
  /\ query = {} /\ prune = {} /\ pruning = {} /\ asListed = images /\ lost = {}
  /\ downErr = FALSE /\ downEnd = "none"

Down ==
  /\ rmi.mode = ""
  /\ \E mode \in {"local", "all"}, orphans \in BOOLEAN, image \in {"", "x"} :
       rmi' = [mode |-> mode, orphans |-> orphans, image |-> image]
  /\ \E t \in SUBSET Tags, l, m \in Labels :
       images' = [images EXCEPT ![1] = Labelled(l, t), ![2] = Labelled(m, Tags \ t)]
  /\ used' \in SUBSET Ids
  /\ query' = IF rmi'.mode = "all" THEN {"named", "labelled", "implicit"} ELSE {"labelled", "implicit"}
  /\ UNCHANGED <<prune, pruning, asListed, lost, downErr, downEnd>>

----------------------------------------------------------------------------
Exists(t) == \E i \in DOMAIN images : t \in images[i].tags

(* Inspecting an image may fail; it then counts as one that exists.        *)
Found(t) == IF Exists(t) THEN {{t}} ELSE {{t}, {}}

(* namedImages: what the services name.                                    *)
ListNamed ==
  /\ "named" \in query
  /\ prune' \in (IF rmi.image = "" THEN {prune} ELSE {prune \cup f : f \in Found(rmi.image)})
  /\ query' = query \ {"named"}
  /\ UNCHANGED <<rmi, images, used, pruning, asListed, lost, downErr, downEnd>>

(* Mutant: images of services the project no longer has are pruned too.    *)
BugShouldPrune(i) == TRUE

(* labeledLocalImages: one of its names, for each image that compose has   *)
(* built for a service of the project, or for any service.                 *)
ShouldPrune(i) == rmi.orphans \/ images[i].service = "web"

ListLabelled ==
  /\ "labelled" \in query /\ "named" \notin query
  /\ LET ours == {i \in DOMAIN images : images[i].project = "p" /\ images[i].tags # {} /\ ShouldPrune(i)}
     IN \E first \in [ours -> Tags] :
          /\ \A i \in ours : first[i] \in images[i].tags
          /\ prune' = prune \cup {first[i] : i \in ours}
  /\ asListed' = images
  /\ query' = query \ {"labelled"}
  /\ UNCHANGED <<rmi, images, used, pruning, lost, downErr, downEnd>>

(* unlabeledLocalImages: the default names of services that name none.     *)
ListImplicit ==
  /\ query = {"implicit"}
  /\ \E f \in (IF rmi.image # "" THEN {{}} ELSE Found("p-web")) :
       prune' = prune \cup f /\ pruning' = prune'
  /\ query' = {}
  /\ UNCHANGED <<rmi, images, used, asListed, lost, downErr, downEnd>>

ListFails ==
  /\ query # {} /\ downEnd = "none"
  /\ query' = {} /\ downEnd' = "err"
  /\ UNCHANGED <<rmi, images, used, prune, pruning, asListed, lost, downErr>>

(* removeImage.  The engine takes a name from an image; not the last one   *)
(* of an image in use.                                                     *)
Has(i, t)      == t \in images[i].tags
Conflicts(i, t) == i \in used /\ images[i].tags = {t}

RemoveImage(t) ==
  /\ t \in pruning
  /\ pruning' = pruning \ {t}
  /\ \/ \E i \in DOMAIN images :
          /\ Has(i, t) /\ ~Conflicts(i, t)
          /\ images' = [images EXCEPT ![i].tags = @ \ {t}]
          /\ lost' = lost \cup {<<t, i>>}
     \/ /\ \A i \in DOMAIN images : Has(i, t) => Conflicts(i, t) \* "Resource is still in use", or no resource
        /\ UNCHANGED <<images, lost>>
  /\ UNCHANGED <<rmi, used, query, prune, asListed, downErr, downEnd>>

RemoveFails(t) ==
  /\ t \in pruning
  /\ pruning' = pruning \ {t}
  /\ downErr' = TRUE
  /\ UNCHANGED <<rmi, images, used, query, prune, asListed, lost, downEnd>>

(* eg.Wait.                                                                *)
DownEnds ==
  /\ rmi.mode # "" /\ query = {} /\ pruning = {} /\ downEnd = "none"
  /\ downEnd' = IF downErr THEN "err" ELSE "nil"
  /\ UNCHANGED <<rmi, images, used, query, prune, pruning, asListed, lost, downErr>>

(* Another command builds web anew.                                        *)
Rebuild ==
  /\ rmi.mode # "" /\ downEnd = "none"
  /\ \E i \in NewIds : LET t == IF rmi.image = "" THEN "p-web" ELSE rmi.image IN
       /\ images[i] = Gone
       /\ images' = [j \in DOMAIN images |->
            IF j = i THEN [tags |-> {t}, project |-> "p", service |-> "web"]
            ELSE [images[j] EXCEPT !.tags = @ \ {t}]]
  /\ UNCHANGED <<rmi, used, query, prune, pruning, asListed, lost, downErr, downEnd>>

Next ==
  \/ Down \/ ListNamed \/ ListLabelled \/ ListImplicit \/ ListFails \/ DownEnds \/ Rebuild
  \/ \E t \in Tags : RemoveImage(t) \/ RemoveFails(t)

Spec == Init /\ [][Next]_vars

----------------------------------------------------------------------------
(* Variables keep their types.                                             *)
TypeOK ==
  /\ pruning \subseteq prune /\ prune \subseteq Tags /\ lost \subseteq Tags \X DOMAIN images
  /\ downErr \in BOOLEAN /\ downEnd \in {"none", "nil", "err"}
  /\ \A i, j \in DOMAIN images : i # j => images[i].tags \cap images[j].tags = {}

Old == {e \in lost : e[2] \in Ids}

(* What loses a name was built for the project, is what a service names    *)
(* (only with --rmi all), or has the default name of a service.            *)
OnlyItsImages ==
  \A e \in Old :
    \/ images[e[2]].project = "p" /\ (rmi.orphans \/ images[e[2]].service = "web")
    \/ rmi.mode = "all" /\ e[1] = rmi.image
    \/ rmi.image = "" /\ e[1] = "p-web"

WebName == IF rmi.image = "" THEN "p-web" ELSE rmi.image

(* It never takes the last name of an image that is used: where such an    *)
(* image has lost one to it and has none left, the last was web's, and     *)
(* another command has given it to what it has built.  And it takes at     *)
(* most one name of an image that no service names.                        *)
TakenByBuild(i) == WebName \in asListed[i].tags /\ <<WebName, i>> \notin lost
InUseKept ==
  \A i \in used : images[i].tags = {} => lost \cap (Tags \X {i}) = {} \/ TakenByBuild(i)
OneName ==
  \A e, f \in {g \in Old : g[1] \notin {rmi.image, "p-web"}} : e[2] = f[2] => e = f

(* Success: no image of web is left under its name, but one in use, or one *)
(* that has been built meanwhile.  With local, that is any image that was  *)
(* labelled for web, if it had no other name.                              *)
Mine(i) ==
  \/ rmi.mode = "all" \/ rmi.image = ""
  \/ asListed[i].project = "p" /\ asListed[i].service = "web" /\ asListed[i].tags = {WebName}
SuccessMeansRemoved ==
  downEnd = "nil" => \A i \in Ids \ used : Mine(i) => WebName \notin images[i].tags

(* What another command has just built is taken only by its name, which    *)
(* was listed before or after.                                             *)
NewOnesByName == \A e \in lost \ Old : e[1] = WebName /\ WebName \in prune

RemovalIsRight ==
  /\ TypeOK /\ OnlyItsImages /\ InUseKept /\ OneName /\ SuccessMeansRemoved /\ NewOnesByName

(* "'local' remove only images that don't have a custom tag"               *)
(* (docs/reference/compose_down.md:24).  (An image that compose has built  *)
(* is removed whatever its tag.)                                           *)
LocalKeepsCustomTags == rmi.mode = "local" => \A e \in lost : e[1] = "p-web"
=============================================================================
