SPECIFICATION Spec
CONSTANTS
    Traces = {1}
    MaxClock = 2
    Procs = {p1}
    NoPayload = NoPayload
    Payloads <- CleanPayloads
    Environments <- Cleaning
    Commands <- Keeping
    Exclusive = TRUE
    MaxRuns = 4
    MaxFaults = 0
PROPERTIES
    NewestPassingReportSurvives
\* The operator may stop issuing commands, and the bounds stop it in the end.
CHECK_DEADLOCK FALSE
