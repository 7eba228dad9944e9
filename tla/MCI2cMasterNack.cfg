CONSTANTS
    Transactions <- MCTransactions
    MaxCalls = 1
    Prompt = TRUE
SPECIFICATION FairSpec
INVARIANT NackAborts
CHECK_DEADLOCK FALSE
