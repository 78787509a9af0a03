CONSTANT Shuffled = TRUE
SPECIFICATION Spec
CHECK_DEADLOCK FALSE
INVARIANT BackendReturns
