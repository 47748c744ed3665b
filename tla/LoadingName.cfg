SPECIFICATION Spec
CONSTANTS MaxCommands = 2
CHECK_DEADLOCK FALSE
INVARIANTS NameIsGiven
