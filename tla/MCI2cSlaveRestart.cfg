CONSTANTS
    MaxSegments = 3
    MaxBytes = 2
    PromptPolling = TRUE
    RestartAfterRead = TRUE
SPECIFICATION FairSpec
INVARIANT NoStaleByte
CHECK_DEADLOCK FALSE
