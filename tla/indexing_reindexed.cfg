SPECIFICATION Spec
CONSTANTS
    CCPairs = {1}
    Settings = {s1}
    s1 = s1
    Workers = {w1}
    w1 = w1
    MaxAttempts = 4
    NumBatches = 1
    Checkpointed = TRUE
    Reindexing = {FALSE, TRUE}
    CandidateLimit = 50
    MaxFaults = 2
    FaultPoints <- RunPoints
    DocFailures = FALSE
    MonitorMayFail = FALSE
    MayPause = FALSE
    MayStall = FALSE
    QuietRestart = TRUE
INVARIANTS
    FetchedIsKept
CHECK_DEADLOCK FALSE
CONSTRAINT Reindexed
