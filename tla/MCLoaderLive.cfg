SPECIFICATION FairSpec
CONSTANTS
    a = a
    b = b
    t1 = t1
    t2 = t2
    Keys <- TwoKeys
    Callers <- TwoCallers
    MaxLoads = 3
    MaxCalls = 1
    Slots = 1
    ErrorLimit = 1
    NegativeTTL = FALSE
    ErrorTTL = TRUE
    LoaderTimeout = TRUE
    BulkLoads = FALSE
    Prefixes <- EveryKey
PROPERTIES
    EveryWaiterReturns

    
