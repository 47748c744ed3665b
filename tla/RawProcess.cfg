SPECIFICATION MCSpec
CONSTANTS
  Processes = {p, q}
  Callers = {c, d}
  MaxCalls = 3
CHECK_DEADLOCK FALSE
INVARIANTS ShellsAreReaped
PROPERTIES ShellsEndAndStopReturns
