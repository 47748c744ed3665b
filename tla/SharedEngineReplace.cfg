SPECIFICATION MCSpec
CONSTANTS
  Commands = {c1}
  Services = {web, db}
  Orphans = {}
  Configs = {A, B}
  MaxCommands = 2
  Deaths = 0
CHECK_DEADLOCK FALSE
INVARIANTS RecreatedWithNetwork
