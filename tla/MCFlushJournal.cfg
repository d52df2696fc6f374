CONSTANTS
    b1 = b1
    b2 = b2
    p1 = p1
    p2 = p2
    p3 = p3
    Bridges = {b1}
    Points = {p1, p2, p3}
    MaxSize = 2
    MayFailDisk = TRUE
    StalePoints = {p1}
    DriftPoints = {}
    BadPoints = {p3}
    AckBatch = 2
    MaxTries = 1
    PersistentStorage = TRUE
    EnableRollups = TRUE
    AutoRefresh = TRUE
    MayExpire = TRUE
    MayFailStart = FALSE
    MayReload = FALSE
    MaxOutages = 1
    MaxRefusals = 1
    MaxCrashes = 1
SPECIFICATION Spec
INVARIANTS
    FlushTypeOK
    MemoryOnDisk
    OneCopy
PROPERTY ReadingsAreDurable
CHECK_DEADLOCK FALSE
