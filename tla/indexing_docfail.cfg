SPECIFICATION Spec
CONSTANTS
    CCPairs = {1}
    Settings = {s1}
    s1 = s1
    Workers = {w1}
    w1 = w1
    MaxAttempts = 2
    NumBatches = 1
    Checkpointed = TRUE
    Reindexing = {FALSE}
    CandidateLimit = 50
    MaxFaults = 1
    FaultPoints <- SafePoints
    DocFailures = TRUE
    MonitorMayFail = FALSE
    MayPause = FALSE
    MayStall = FALSE
    QuietRestart = TRUE
INVARIANTS
    SuccessMeansIndexed
CHECK_DEADLOCK FALSE
