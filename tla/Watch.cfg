SPECIFICATION MCSpec
CONSTANTS
  source = source
  manifest = manifest
  Files = {source, manifest}
  RuleChoices <- MCRuleChoices
  MaxEdits = 2
  MaxFailures = 1
  Resources = {image}
  MaxPresses = 3
CHECK_DEADLOCK FALSE
INVARIANTS ContainerFollows NothingHidden
PROPERTIES ChangesAreHandled WatchEnds NobodyHangs DetachEndsWatches
