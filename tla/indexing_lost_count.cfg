SPECIFICATION Spec
CONSTANTS
    CCPairs = {1}
    Settings = {s1}
    s1 = s1
    Workers = {w1}
    w1 = w1
    MaxAttempts = 3
    NumBatches = 2
    Checkpointed = TRUE
    Reindexing = {FALSE}
    CandidateLimit = 50
    MaxFaults = 2
    FaultPoints <- SafePoints
    DocFailures = FALSE
    MonitorMayFail = FALSE
    MayPause = FALSE
    MayStall = FALSE
    QuietRestart = TRUE
INVARIANTS
    NumbersAreFresh
CHECK_DEADLOCK FALSE
