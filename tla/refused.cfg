SPECIFICATION Spec
CONSTANTS
    Traces = {1}
    MaxClock = 1
    Procs = {p1}
    NoPayload = NoPayload
    Payloads <- CleanPayloads
    Environments <- Refusing
    Commands <- OnlyGenerate
    Exclusive = TRUE
    MaxRuns = 1
    MaxFaults = 0
INVARIANTS
    GenerateFailureIsFailedRun
\* The operator may stop issuing commands, and the bounds stop it in the end.
CHECK_DEADLOCK FALSE
