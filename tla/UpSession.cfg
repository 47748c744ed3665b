SPECIFICATION MCSpec
CONSTANTS
  Containers = {c1, c2}
  ExitCodes = {0, 1}
  StopCodes = {0}
  MaxTroubles = 3
  Logged = {l1, l2}
  Picked = l1
SYMMETRY ContainersAreAlike
CHECK_DEADLOCK FALSE
INVARIANTS StopStopsAll ChosenExitCode LogsAreRight
PROPERTIES MonitorFollows
