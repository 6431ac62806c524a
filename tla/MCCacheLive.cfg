CONSTANTS
    a = a
    b = b
    c = c
    s1 = s1
    s2 = s2
    Keys <- MCKeys2
    Shards <- MCShards
    ShardOf <- MCShardOf2
    Threads = {t1, t2}
    MaxWeight = 1
    InitEntries = 1
    InitBytes = 0
    Sizes = {1, 3}
    NegativeCache = TRUE
    VictimMayBeNil = TRUE
    MaxCalls = 2
    NoThread = NoThread
SPECIFICATION FairSpec
PROPERTY
    EveryCallReturns
INVARIANTS
    ResizeSettled
