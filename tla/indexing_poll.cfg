SPECIFICATION Spec
CONSTANTS
    CCPairs = {1}
    Settings = {s1}
    s1 = s1
    Workers = {w1}
    w1 = w1
    MaxAttempts = 2
    NumBatches = 2
    Checkpointed = FALSE
    Reindexing = {FALSE, TRUE}
    CandidateLimit = 50
    MaxFaults = 1
    FaultPoints <- PollPoints
    DocFailures = FALSE
    MonitorMayFail = FALSE
    MayPause = FALSE
    MayStall = FALSE
    QuietRestart = TRUE
INVARIANTS
    SuccessMeansIndexed
    FetchedIsKept
CHECK_DEADLOCK FALSE
