SPECIFICATION PruneSpec
CONSTANTS
    d1 = d1  p = p  q = q  w1 = w1  w2 = w2  Sync = Sync
    Docs <- OneDoc  Pairs <- BothPairs  Workers <- OneWorker  Initial <- Shared
    MaxRetries = 0  MaxRound = 2  MaxChanges = 1  MaxFaults = 0  Faults <- NoFaults
    Undisturbed = TRUE
    Pruned <- OnlyP  MaxEvents = 2  Prompt = TRUE  Patient = FALSE  Apart = TRUE
CHECK_DEADLOCK FALSE
PROPERTY SourceKept
