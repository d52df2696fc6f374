CONSTANTS
    b1 = b1
    b2 = b2
    p1 = p1
    p2 = p2
    p3 = p3
    Bridges = {b1, b2}
    Points = {p1, p2}
    MaxSize = 1
    MayFailDisk = TRUE
    StalePoints = {}
    DriftPoints = {}
    BadPoints = {}
    AckBatch = 2
    MaxTries = 1
    PersistentStorage = TRUE
    EnableRollups = TRUE
    AutoRefresh = TRUE
    MayExpire = FALSE
    MayFailStart = FALSE
    MayReload = TRUE
    MaxOutages = 1
    MaxRefusals = 0
    MaxCrashes = 0
SPECIFICATION Spec
PROPERTY ReadingsAreDurable
CHECK_DEADLOCK FALSE
