SPECIFICATION MCSpec
CONSTANTS
  Services = {a, b, c}
  NoService = NoService
  MaxConcurrency = 2
INVARIANTS TypeOK VisitInOrder NothingAfterReturn WalkIsSafe
PROPERTIES VisitedOnce RefinesDependencyOrder VisitTerminates
