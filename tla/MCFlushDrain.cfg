CONSTANTS
    b1 = b1
    b2 = b2
    p1 = p1
    p2 = p2
    p3 = p3
    Bridges = {b1}
    Points = {p1, p2}
    MaxSize = 2
    MayFailDisk = FALSE
    StalePoints = {}
    DriftPoints = {p2}
    BadPoints = {}
    AckBatch = 2
    MaxTries = 1
    PersistentStorage = TRUE
    EnableRollups = TRUE
    AutoRefresh = TRUE
    MayExpire = FALSE
    MayFailStart = TRUE
    MayReload = FALSE
    MaxOutages = 2
    MaxRefusals = 1
    MaxCrashes = 1
SPECIFICATION FairSpec
PROPERTIES
    OutagesEnd
CHECK_DEADLOCK FALSE
