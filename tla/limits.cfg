SPECIFICATION Spec
CONSTANTS
    Tools <- AllTools
    Registry <- ToolRegistry
    Operations = {"use", "purge", "list", "propose"}
    Identities <- Everybody
    Policies <- Settings
    Invocations <- LimitCalls
    Grants <- NoGrants
    Forged <- NoForgery
    Window = 2
    MaxTtl = 3
    ScopeLimit = 2
    RetryLimit = 1
    MaxClock = 4
    MaxTokens = 0
    MaxRuns = 3
INVARIANTS
    LimiterRemembers
    WindowRespected
    HighRiskRunsApart
