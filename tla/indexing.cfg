SPECIFICATION Spec
CONSTANTS
    CCPairs = {1, 2}
    Settings = {s1}
    s1 = s1
    Workers = {w1}
    w1 = w1
    MaxAttempts = 2
    NumBatches = 2
    Checkpointed = TRUE
    Reindexing = {FALSE}
    CandidateLimit = 50
    MaxFaults = 1
    FaultPoints <- SafePoints
    DocFailures = FALSE
    MonitorMayFail = FALSE
    MayPause = TRUE
    MayStall = FALSE
    QuietRestart = TRUE
INVARIANTS
    SuccessMeansIndexed
    FetchedIsKept
    CountedOnce
    NumbersAreFresh
CHECK_DEADLOCK FALSE
