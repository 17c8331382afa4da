SPECIFICATION Spec
CONSTANTS
    Traces = {1}
    MaxClock = 1
    Procs = {p1}
    NoPayload = NoPayload
    Payloads <- AllPayloads
    Environments <- AllProfiles
    Commands <- Generating
    Exclusive = TRUE
    MaxRuns = 2
    MaxFaults = 0
INVARIANTS
    ProdLikeBundleIsObserved
    GoIsUnreachable
    GenerateOkIsVerifiable
    SoundPipelinePasses
\* The operator may stop issuing commands, and the bounds stop it in the end.
CHECK_DEADLOCK FALSE
