SPECIFICATION Spec
CONSTANTS
    CCPairs = {1}
    Settings = {s1}
    s1 = s1
    Workers = {w1}
    w1 = w1
    MaxAttempts = 2
    NumBatches = 2
    Checkpointed = TRUE
    Reindexing = {FALSE}
    CandidateLimit = 50
    MaxFaults = 1
    FaultPoints <- SafePoints
    DocFailures = FALSE
    MonitorMayFail = TRUE
    MayPause = FALSE
    MayStall = FALSE
    QuietRestart = TRUE
INVARIANTS
    FetchedIsKept
CHECK_DEADLOCK FALSE
