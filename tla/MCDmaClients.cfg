CONSTANTS
    MaxLen = 4
    MaxBytes = 8
    SpiLen = 4
    AdcLen = 3
    AdcCalls = 3
SPECIFICATION MCSpec
INVARIANTS TypesOK InOrder AcceptedWhenDone Exchanged OwnResults HonestReport
PROPERTY EveryCallReturns
CHECK_DEADLOCK FALSE
