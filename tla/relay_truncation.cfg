SPECIFICATION Spec
INVARIANTS CleanEndIsTheTargets
CHECK_DEADLOCK FALSE
