SPECIFICATION Spec
CONSTANTS
    c1 = c1
    c2 = c2
    Callers <- MCCallers
    MaxCalls <- TwoAndOne
    Ops <- MCOps
    Modes <- Both
    Faults = {"lost"}
    Nested = 1
INVARIANTS
    MemoryFollowsStore
    ReadsCurrent
    
    SyncSettles
