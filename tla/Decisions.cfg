SPECIFICATION MCSpec
CONSTANTS
  Names = {a, b, c, d}
  Few = {a, b, c}
  Scale = 2
  MaxRuns = 3
  MaxEdits = 1
  Targets = {data}
  Named = {vol}
  Paths = {dir}
  Generations = 3
  TargetClash = FALSE
  MaxLines = 3
  MaxInProcfile = 2
  MaxInManager = 2
  MaxMessages = 2
  Models = {m1, m2}
  MaxBuilds = 1
  MaxLoads = 2
  MaxCrashes = 1
  MaxCommands = 2
  MaxChanges = 1
  Queried = 2
CHECK_DEADLOCK FALSE
INVARIANTS GraphIsRight VolumesAreRight ContainersAreRight
           ImagesAreRight DefinitionsAreRight PublicationIsRight
           ExtensionsAreRight LoadingIsRight ShownIsRight
