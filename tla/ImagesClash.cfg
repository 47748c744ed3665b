SPECIFICATION Spec
CONSTANT TargetClash = TRUE
CHECK_DEADLOCK FALSE
INVARIANT BuiltWhatWasAsked
