CONSTANTS
    MaxLen = 2
    Surplus = 1
SPECIFICATION FairSpec
INVARIANT DisarmOnlyUntouched
CHECK_DEADLOCK FALSE
