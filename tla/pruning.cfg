SPECIFICATION FairPruneSpec
CONSTANTS
    d1 = d1  p = p  q = q  w1 = w1  w2 = w2  Sync = Sync
    Docs <- OneDoc  Pairs <- BothPairs  Workers <- OneWorker  Initial <- SharedOrOther
    MaxRetries = 0  MaxRound = 2  MaxChanges = 1  MaxFaults = 1  Faults <- Recovered
    Undisturbed = TRUE
    Pruned <- OnlyP  MaxEvents = 2  Prompt = TRUE  Patient = TRUE  Apart = TRUE
CHECK_DEADLOCK FALSE
INVARIANT PruneTypeOK
INVARIANT NothingLeftBehind
PROPERTY SourceKept
PROPERTY PruningEnds
