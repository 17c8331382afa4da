SPECIFICATION FairSpec
CONSTANTS
    CCPairs = {1}
    Settings = {s1}
    s1 = s1
    Workers = {w1}
    w1 = w1
    MaxAttempts = 2
    NumBatches = 1
    Checkpointed = TRUE
    Reindexing = {FALSE}
    CandidateLimit = 50
    MaxFaults = 1
    FaultPoints <- AllPoints
    DocFailures = TRUE
    MonitorMayFail = TRUE
    MayPause = TRUE
    MayStall = TRUE
    QuietRestart = TRUE
INVARIANTS
    TypeOK
    OneActive
PROPERTIES
    SuccessIsFinal
    AttemptsEnd
CHECK_DEADLOCK FALSE
