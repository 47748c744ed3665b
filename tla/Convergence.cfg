SPECIFICATION MCSpec
CONSTANTS
  Configs = {A, B, C}
  Scales = {0, 1, 2}
  Policies = {"diverged", "force", "never"}
  MaxCommands = 3
  Faults = 1
SYMMETRY ConfigsAreAlike
CHECK_DEADLOCK FALSE
INVARIANTS NeverFewer Reconciled Undisturbed
