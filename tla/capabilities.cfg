SPECIFICATION FairSpec
CONSTANTS
    Tools <- AllTools
    Registry <- ToolRegistry
    Operations = {"use", "purge", "list", "propose"}
    Identities <- Everybody
    Policies <- Releases
    Invocations <- TokenCalls
    Grants <- TokenGrants
    Forged <- MadeUp
    Window = 1
    MaxTtl = 3
    ScopeLimit = 2
    RetryLimit = 1
    MaxClock = 3
    MaxTokens = 2
    MaxRuns = 2
INVARIANTS
    TypeOK
    TokenRunsOnce
    RunsAreAuthorised
PROPERTIES
    EveryCallEnds
