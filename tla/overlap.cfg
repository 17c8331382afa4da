SPECIFICATION FairSpec
CONSTANTS
    Traces = {1}
    MaxClock = 1
    Procs = {p1, p2}
    NoPayload = NoPayload
    Payloads <- CleanPayloads
    Environments <- EagerOnly
    Commands <- Maintaining
    Exclusive = TRUE
    MaxRuns = 3
    MaxFaults = 0
PROPERTIES
    RetentionKeepsBundleVerifiable
    KeepsLedger
    EveryRunEnds
\* The operator may stop issuing commands, and the bounds stop it in the end.
CHECK_DEADLOCK FALSE
