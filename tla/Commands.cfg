SPECIFICATION MCSpec
CONSTANTS
  Web = {w1, w2}
  Db = {d}
  Kinds = {"pause", "unpause", "kill", "stop", "rm", "restart", "wait"}
  MaxTroubles = 1
CHECK_DEADLOCK FALSE
INVARIANTS RunIsRight
PROPERTIES SweepsAreHonest CommandsReturn
