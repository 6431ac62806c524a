SPECIFICATION Spec
CONSTANTS
    a = a
    b = b
    t1 = t1
    t2 = t2
    Keys <- OneKey
    Callers <- TwoCallers
    MaxLoads = 4
    MaxCalls = 2
    Slots = 0
    ErrorLimit = 1
    NegativeTTL = TRUE
    ErrorTTL = TRUE
    LoaderTimeout = FALSE
    BulkLoads = TRUE
    Prefixes <- EveryKey
INVARIANTS
    NoStaleLoad
