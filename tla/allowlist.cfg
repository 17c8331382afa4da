SPECIFICATION Spec
CONSTANTS
    Tools <- AllTools
    Registry <- ToolRegistry
    Operations = {"use", "purge", "list", "propose"}
    Identities <- Everybody
    Policies <- OnlyOpen
    Invocations <- ExecutionCalls
    Grants <- NoGrants
    Forged <- NoForgery
    Window = 1
    MaxTtl = 3
    ScopeLimit = 2
    RetryLimit = 1
    MaxClock = 1
    MaxTokens = 0
    MaxRuns = 1
INVARIANTS
    OnlyAllowedToolsRun
