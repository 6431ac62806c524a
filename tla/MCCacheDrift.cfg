CONSTANTS
    a = a
    b = b
    c = c
    s1 = s1
    s2 = s2
    Keys <- MCKeys
    Shards <- MCShards
    ShardOf <- MCShardOf
    Threads = {t1, t2}
    MaxWeight = 2
    InitEntries = 0
    InitBytes = 2
    Sizes = {1}
    NegativeCache = TRUE
    VictimMayBeNil = FALSE
    MaxCalls = 2
    NoThread = NoThread
SYMMETRY ThreadSymmetry
SPECIFICATION Spec
INVARIANT
    BytesExact
