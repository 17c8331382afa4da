SPECIFICATION Spec
CONSTANTS
    d1 = d1  d2 = d2  p = p  q = q  w1 = w1  w2 = w2  Sync = Sync
    Docs <- AllDocs  Pairs <- AllPairs  Workers <- AllWorkers  Initial <- SharedOrNot
    MaxRetries = 1  MaxRound = 3  MaxChanges = 1  MaxFaults = 1  Faults <- Redelivered
    Undisturbed = TRUE
CHECK_DEADLOCK FALSE
PROPERTY SharedDocumentSurvives
