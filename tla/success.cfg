SPECIFICATION Spec
CONSTANTS
    Traces = {1}
    MaxClock = 1
    Procs = {p1}
    NoPayload = NoPayload
    Payloads <- FlawlessPayloads
    Environments <- DevOnly
    Commands <- OnlyPipeline
    Exclusive = TRUE
    MaxRuns = 1
    MaxFaults = 0
INVARIANTS
    PristineRunIsSuccess
\* The operator may stop issuing commands, and the bounds stop it in the end.
CHECK_DEADLOCK FALSE
