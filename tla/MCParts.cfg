SPECIFICATION Spec
CONSTANTS
    d1 = d1  d2 = d2  d3 = d3  d4 = d4
    k1 = k1  k2 = k2  k3 = k3  k4 = k4  k5 = k5
    t1 = t1  t2 = t2  t3 = t3  t4 = t4
    Keys <- FourKeys
    SketchKeys <- ThreeKeys
    Values = {1, 2}
    Kinds <- EveryKind
    Rows <- TwoRows
    Width = 2
    Column <- Columns
    MaxAges = 2
    BitsOf <- Bits
    Expected = 2
    InitialCap = 4
    MaxCap = 8
    HashOf <- Hashes
    Rate = 2
    Unit = 2
    MaxTime = 7
    WheelKeys <- TwoKeys
    SlotCount = 2
    TickNs = 2
    WheelTime = 7
    HeapTime = 3
    NoKey = NoKey
    PolicyKeys <- AllKeys
    Setups <- EveryPolicy
    MaxFreq = 3
    PolicyRows <- OneRow
    PolicyWidth = 2
    PolicyColumn <- TinyColumns
    Cached = {"x", "y"}
    Readers = {"r1", "r2"}
    Gets = 1
    MaxEntries = 2
    MaxValue = 3
    Misses = 2
    Subscribers = {"a", "b", "c"}
    Publishers = {"p", "q"}
    Clients = {"a", "b"}
    MaxOps = 4
    Evictions = TRUE
SYMMETRY Symmetric
INVARIANTS
    SketchesSound
    FlatIsMap
    TTLsKept
    RateHeld
    TracksMap
    WithinBudget
    NewestSurvives
    LeastUsedFirst
    ReadsLinearize
    ChannelsEnd
    DeadStayDead
    TiersAgree
PROPERTIES
    HotKept
CHECK_DEADLOCK FALSE
