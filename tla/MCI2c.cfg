CONSTANTS
    Transactions <- MCTransactions
    MaxCalls = 3
    Prompt = TRUE
    MaxSegments = 4
    MaxBytes = 2
SPECIFICATION MCSpec
INVARIANTS TypeOK BusReleased OkMeansSent FreshRead NackOfThisCall SlaveTypeOK EventsInOrder NoStaleByte
PROPERTY NothingHangs
CHECK_DEADLOCK FALSE
