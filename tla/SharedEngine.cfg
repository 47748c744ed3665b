SPECIFICATION MCSpec
CONSTANTS
  Commands = {c1, c2}
  Services = {web, db}
  Orphans = {old}
  Configs = {A, B}
  MaxCommands = 3
  Deaths = 1
SYMMETRY Alike
CHECK_DEADLOCK FALSE
INVARIANTS UpSucceeds DownMeansDown
PROPERTIES DataKept
