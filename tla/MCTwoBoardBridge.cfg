CONSTANT Burst = 2
SPECIFICATION Spec
INVARIANT TallyExact
CHECK_DEADLOCK FALSE
