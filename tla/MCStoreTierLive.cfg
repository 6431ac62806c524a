SPECIFICATION Spec
CONSTANTS
    c1 = c1
    c2 = c2
    Callers <- MCCallers
    MaxCalls <- OneEach
    Ops <- LiveOps
    Modes <- Both
    Faults = {"lost", "late"}
    Nested = 1
PROPERTIES
    StoreKeepsOrder
    EveryCallReturns
