SPECIFICATION Spec
CONSTANTS
    c1 = c1
    c2 = c2
    Callers <- MCCallers
    MaxCalls <- OneEach
    Ops = {"get", "set"}
    Modes = {FALSE}
    Faults = {}
    Nested = 0
INVARIANT MemoryIsCurrent
