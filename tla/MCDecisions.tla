--------------------------- MODULE MCDecisions ----------------------------
(***************************************************************************)
(* What is made of a project, one part in each behavior: its graph, the    *)
(* files of its containers, their configuration, its images and how they   *)
(* are removed, its raw processes, its providers and models, its           *)
(* publication, and where it is loaded from.  The parts have nothing to do *)
(* with each other; those that are not chosen do not move.                 *)
(***************************************************************************)
EXTENDS Configuration

CONSTANTS Names, Few,                        \* DependencyGraph
          Targets, Named, Paths, Generations,\* Mounts
          TargetClash,                       \* Images
          MaxLines, MaxInProcfile, MaxInManager, \* ProcessDefinitions
          MaxMessages,                       \* Providers
          Models,                            \* Models
          MaxBuilds,                         \* ImageRemoval
          MaxLoads, MaxCrashes,              \* RemoteResources
          MaxCommands,                       \* Loading
          MaxChanges, Queried                \* Queries

(* A project has finitely many services; the small ones have some of them. *)
ASSUME NamesAssumption == IsFiniteSet(Names)
ASSUME FewAssumption   == Few \subseteq Names
(* The names of volumes and the paths of the host are no numbers, which    *)
(* anonymous volumes are known by.                                         *)
ASSUME MountsAssumption ==
  Generations \in Nat /\ \A name \in Named \cup Paths : name \notin Int
(* The limit on the processes of a manager.                                *)
ASSUME ManagerAssumption == MaxInManager \in Nat

VARIABLES
  part,                                                 \* What is decided
  enabled, disabled, dependsOn, required, discovered,
  finished, outcome,                                    \* DependencyGraph
  service, request, mounted, before, generation,        \* Mounts
  task, wanted, registry, engine, step, known, imageLabel, mount,
  built, pulled, cancelled, result,                     \* Images
  path, lines, settings, parsed, todo, manager, loaded, \* ProcessDefinitions
  project, options, formats, publishing, extFiles, level,
  layers, blobs, manifest, index, published,            \* Publication
  verb, users, metadata, given, args, visit, child, pipe, sent, variables,
  environment, web, halted, provided,                   \* Providers
  localModels, certs, listed, pulls, modelStep, goroutine, pullResult,
  err, modelFailed, configured, urls, ensured,          \* Models
  rmi, images, used, query, prune, pruning, asListed, lost,
  downErr, downEnd,                                     \* ImageRemoval
  scheme, head, cache, load, version, written, kept, loads, faulted,
  found, loadResult, faults, crashes, shared, spoilt,   \* RemoteResources
  dryProject, mode, phase, dryEngine, dryListed, observed, dryVisit,
  seen, overwritten, shown, ends, outside,              \* DryRun
  flags, around, composeFile, invoked, processEnv, target, selection, made,
  affected, printed, ending, commands, disturbed,       \* Loading
  cli, stage, up, display, limit, services, agreed, call,\* CommandLine
  queried, tag, question, asking, inventory, asked, answer, moved,
  firstList                                             \* Queries

graphVars  == <<enabled, disabled, dependsOn, required, discovered, finished, outcome>>
volumeVars == <<service, request, mounted, before, generation>>
imageVars  == <<task, wanted, registry, engine, step, known, imageLabel, mount,
                built, pulled, cancelled, result>>
processVars == <<path, lines, settings, parsed, todo, manager, loaded>>
publishVars == <<project, options, formats, publishing, extFiles, level,
                 layers, blobs, manifest, index, published>>
providerVars == <<verb, users, metadata, given, args, visit, child, pipe, sent,
                  variables, environment, web, halted, provided>>
modelVars == <<localModels, certs, listed, pulls, modelStep, goroutine,
               pullResult, err, modelFailed, configured, urls, ensured>>
removalVars == <<rmi, images, used, query, prune, pruning, asListed, lost, downErr, downEnd>>
remoteVars == <<scheme, head, cache, load, version, written, kept, loads,
                faulted, found, loadResult, faults, crashes, shared, spoilt>>
dryVars == <<dryProject, mode, phase, dryEngine, dryListed, observed, dryVisit,
             seen, overwritten, shown, ends, outside>>
loadingVars == <<flags, around, composeFile, invoked, processEnv, target, selection,
                 made, affected, printed, ending, commands, disturbed>>
commandLineVars == <<cli, stage, up, display, limit, services, agreed, call>>
queryVars == <<queried, tag, question, asking, inventory, asked, answer, moved,
               firstList>>

Graph  == INSTANCE DependencyGraph
Volume == INSTANCE Mounts
Image  == INSTANCE Images WITH service <- wanted, label <- imageLabel
Processes == INSTANCE ProcessDefinitions WITH result <- loaded
Publish   == INSTANCE Publication
               WITH registry <- formats, step <- publishing, result <- published
Provider  == INSTANCE Providers
               WITH command <- verb, dependsOn <- users, pc <- visit,
                    stop <- halted, result <- provided
Model     == INSTANCE Models
               WITH local <- localModels, outcome <- pullResult, failed <- modelFailed
Removal   == INSTANCE ImageRemoval
Remote    == INSTANCE RemoteResources
               WITH pc <- load, local <- version, known <- kept, outcome <- loadResult
Dry       == INSTANCE DryRun
               WITH project <- dryProject, engine <- dryEngine, listed <- dryListed,
                    visit <- dryVisit, lost <- overwritten
Load      == INSTANCE Loading WITH loaded <- selection
Cli == INSTANCE CommandLine
               WITH given <- cli
Ask == INSTANCE Queries
               WITH engine <- queried

(* Every project over a few names, each of them enabled, disabled or       *)
(* unknown; and every graph over all names, all of them enabled and none   *)
(* depending on itself (the smaller projects have those).                  *)
FewInit ==
  /\ enabled \in SUBSET Few \ {{}}
  /\ disabled \in SUBSET (Few \ enabled)
  /\ dependsOn \in [enabled -> SUBSET Few]
  /\ required \in SUBSET Graph!Edges

AllInit ==
  /\ enabled = Names
  /\ disabled = {}
  /\ dependsOn \in {f \in [Names -> SUBSET Names] : \A n \in Names : n \notin f[n]}
  /\ required = Graph!Edges

GraphInit ==
  /\ FewInit \/ AllInit
  /\ discovered = {} /\ finished = {} /\ outcome = "none"

(* Parts that do not move.                                                 *)
NoGraph ==
  /\ enabled = {} /\ disabled = {} /\ dependsOn = <<>> /\ required = {}
  /\ discovered = {} /\ finished = {} /\ outcome = "none"
NoContainers ==
  /\ Init
  /\ file = [mac |-> "", settings |-> FALSE, networkMac |-> "", ifname |-> FALSE,
             options |-> FALSE, deploy |-> FALSE]

MCInit ==
  /\ part \in {"graph", "volumes", "containers", "images", "processes",
               "publication", "providers", "models", "removal", "remote", "dryrun",
               "loading", "commandline", "queries"}
  /\ IF part = "graph" THEN GraphInit ELSE NoGraph
  /\ IF part = "containers" THEN Init ELSE NoContainers
  /\ Volume!Init /\ Image!Init /\ Processes!Init /\ Publish!Init
  /\ Provider!Init /\ Model!Init /\ Removal!Init /\ Remote!Init
  /\ Dry!Init /\ Load!Init /\ Cli!Init /\ Ask!Init

MCNext ==
  \/ part = "graph" /\ Graph!Next
     /\ UNCHANGED <<part, vars, volumeVars, imageVars, processVars,
                    publishVars, providerVars, modelVars, removalVars,
                    remoteVars, dryVars, loadingVars, commandLineVars,
                    queryVars>>
  \/ part = "containers" /\ Next
     /\ UNCHANGED <<part, graphVars, volumeVars, imageVars, processVars,
                    publishVars, providerVars, modelVars, removalVars,
                    remoteVars, dryVars, loadingVars, commandLineVars,
                    queryVars>>
  \/ part = "volumes" /\ Volume!Next
     /\ UNCHANGED <<part, graphVars, vars, imageVars, processVars,
                    publishVars, providerVars, modelVars, removalVars,
                    remoteVars, dryVars, loadingVars, commandLineVars,
                    queryVars>>
  \/ part = "images" /\ Image!Next
     /\ UNCHANGED <<part, graphVars, vars, volumeVars, processVars,
                    publishVars, providerVars, modelVars, removalVars,
                    remoteVars, dryVars, loadingVars, commandLineVars,
                    queryVars>>
  \/ part = "processes" /\ Processes!Next
     /\ UNCHANGED <<part, graphVars, vars, volumeVars, imageVars, publishVars,
                    providerVars, modelVars, removalVars, remoteVars, dryVars,
                    loadingVars, commandLineVars, queryVars>>
  \/ part = "publication" /\ Publish!Next
     /\ UNCHANGED <<part, graphVars, vars, volumeVars, imageVars, processVars,
                    providerVars, modelVars, removalVars, remoteVars, dryVars,
                    loadingVars, commandLineVars, queryVars>>
  \/ part = "providers" /\ Provider!Next
     /\ UNCHANGED <<part, graphVars, vars, volumeVars, imageVars, processVars,
                    publishVars, modelVars, removalVars, remoteVars, dryVars,
                    loadingVars, commandLineVars, queryVars>>
  \/ part = "models" /\ Model!Next
     /\ UNCHANGED <<part, graphVars, vars, volumeVars, imageVars, processVars,
                    publishVars, providerVars, removalVars, remoteVars,
                    dryVars, loadingVars, commandLineVars, queryVars>>
  \/ part = "removal" /\ Removal!Next
     /\ UNCHANGED <<part, graphVars, vars, volumeVars, imageVars, processVars,
                    publishVars, providerVars, modelVars, remoteVars, dryVars,
                    loadingVars, commandLineVars, queryVars>>
  \/ part = "remote" /\ Remote!Next
     /\ UNCHANGED <<part, graphVars, vars, volumeVars, imageVars, processVars,
                    publishVars, providerVars, modelVars, removalVars,
                    dryVars, loadingVars, commandLineVars, queryVars>>
  \/ part = "dryrun" /\ Dry!Next
     /\ UNCHANGED <<part, graphVars, vars, volumeVars, imageVars, processVars,
                    publishVars, providerVars, modelVars, removalVars,
                    remoteVars, loadingVars, commandLineVars, queryVars>>
  \/ part = "loading" /\ Load!Next
     /\ UNCHANGED <<part, graphVars, vars, volumeVars, imageVars, processVars,
                    publishVars, providerVars, modelVars, removalVars,
                    remoteVars, dryVars, commandLineVars, queryVars>>
  \/ part = "commandline" /\ Cli!Next
     /\ UNCHANGED <<part, graphVars, vars, volumeVars, imageVars, processVars,
                    publishVars, providerVars, modelVars, removalVars,
                    remoteVars, dryVars, loadingVars, queryVars>>
  \/ part = "queries" /\ Ask!Next
     /\ UNCHANGED <<part, graphVars, vars, volumeVars, imageVars, processVars,
                    publishVars, providerVars, modelVars, removalVars,
                    remoteVars, dryVars, loadingVars, commandLineVars>>

MCSpec ==
  MCInit /\ [][MCNext]_<<part, graphVars, vars, volumeVars, imageVars,
                        processVars, publishVars, providerVars, modelVars,
                        removalVars, remoteVars, dryVars, loadingVars,
                        commandLineVars, queryVars>>

(* NewGraph accepts the acyclic projects and loses nothing required.       *)
GraphIsRight == part = "graph" => Graph!GraphIsRight

(* Anonymous volumes keep their data, declared volumes win, no option is   *)
(* lost, secrets and configs are in place (buildContainerVolumes).         *)
VolumesAreRight == part = "volumes" => Volume!VolumesAreRight

(* Each service has its image when create goes on, and the labels say      *)
(* which; what was asked for is built, or pulled (build.go, pull.go); and  *)
(* down --rmi removes the images of the project, and no others; one in use *)
(* keeps a name, but for a build meanwhile (image_pruner.go, down.go).     *)
ImagesAreRight ==
  /\ part = "images" => Image!ImagesAreRight
  /\ part = "removal" => Removal!RemovalIsRight

(* Every process that is defined is loaded, as it is defined, or there is  *)
(* a reason for an error (process/bridge.go).                              *)
DefinitionsAreRight == part = "processes" => Processes!DefinitionsAreRight

(* Providers and models are ready before the services that use them, but   *)
(* for a lost error of a pull, and what they have started or written is    *)
(* left by those only that failed (plugins.go, model.go).                  *)
ExtensionsAreRight ==
  /\ part = "providers" => Provider!ProvidersAreRight
  /\ part = "models" => Model!ModelsAreRight

(* A project loaded from a repository or a registry is whole, but where a  *)
(* process was killed or two met (pkg/remote); and all commands find the   *)
(* same project, by its file, its environment or its containers            *)
(* (cmd/compose/compose.go, pkg/compose/loader.go).                        *)
LoadingIsRight ==
  /\ part = "remote" => Remote!RemoteIsRight
  /\ part = "loading" => Load!LoadingIsRight
  /\ part = "commandline" => Cli!CommandLineIsRight

(* A dry run shows what up then does, but for the steps that DryRun names, *)
(* and does nothing but for providers and models (pkg/dryrun); and what    *)
(* ps, images, top, ls and generate show is there (ps.go, images.go,       *)
(* top.go, ls.go, generate.go).                                            *)
ShownIsRight ==
  /\ part = "dryrun" => Dry!DryRunIsRight
  /\ part = "queries" => Ask!QueriesAreRight

(* A creation leaves the replicas asked for, as the file declares them, by *)
(* recreations only of what differs or has moved (create.go, hash.go).     *)
ContainersAreRight == part = "containers" => AsDeclared /\ ReplicasAreRight

(* What is published is complete, env files that cannot be read aside, and *)
(* can be used (publish.go, push.go).                                      *)
PublicationIsRight == part = "publication" => Publish!PublicationIsRight
===========================================================================
