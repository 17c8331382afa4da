SPECIFICATION Spec
CONSTANTS
    CCPairs = {1}
    Settings = {s1}
    s1 = s1
    Workers = {w1}
    w1 = w1
    MaxAttempts = 2
    NumBatches = 2
    Checkpointed = FALSE
    Reindexing = {FALSE}
    CandidateLimit = 50
    MaxFaults = 1
    FaultPoints <- SafePoints
    DocFailures = FALSE
    MonitorMayFail = FALSE
    MayPause = FALSE
    MayStall = FALSE
    QuietRestart = TRUE
INVARIANTS
    SuccessMeansIndexed
CHECK_DEADLOCK FALSE
