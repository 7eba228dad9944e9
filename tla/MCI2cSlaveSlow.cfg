CONSTANTS
    MaxSegments = 3
    MaxBytes = 2
    PromptPolling = FALSE
    RestartAfterRead = FALSE
SPECIFICATION FairSpec
INVARIANT ReceivedInsideWrite
CHECK_DEADLOCK FALSE
