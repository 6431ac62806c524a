SPECIFICATION Spec
CONSTANTS
    Clients = {"a", "b"}
    MaxOps = 3
    Evictions = FALSE
INVARIANT SameInBoth
CHECK_DEADLOCK FALSE
