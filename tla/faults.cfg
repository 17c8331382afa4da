SPECIFICATION Spec
CONSTANTS
    Traces = {1}
    MaxClock = 1
    Procs = {p1}
    NoPayload = NoPayload
    Payloads <- FaultPayloads
    Environments <- DevOnly
    Commands <- Generating
    Exclusive = TRUE
    MaxRuns = 2
    MaxFaults = 2
INVARIANTS
    TypeOK
    SealedBundleIsOneRun
    NoBundleOutlivesAFailedRun
    SealedReportIsNoGo
    PassingVerdictIsEarned
PROPERTIES
    KeepsLedger
\* The operator may stop issuing commands, and the bounds stop it in the end.
CHECK_DEADLOCK FALSE
