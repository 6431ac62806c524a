SPECIFICATION Spec
CONSTANTS
    Parts <- AllParts
    Tagged = {1, 2}
    Tag = {"g", "t"}
    TagSets <- OneTagEach
    Group = "g"
    Capacity = 1
    Workers = {1, 2}
    MaxCalls = 2
    QueueCap = 1
    BatchCap = 2
    Timed = {"x", "y"}
    IdleTicks = 5
    MaxJanitors = 2
    Shard = {"s", "t"}
    MaxWrites = 1
    MaxSaves = 2
    MaxFaults = 1
INVARIANTS
    IndexCovers
    SyncedIndexExact
    InvalidateRemoves
    
    JanitorAttends
    NeverTorn
    FinalSaveCurrent
PROPERTIES
    WorkGetsDone
    CloseEnds
CHECK_DEADLOCK FALSE
