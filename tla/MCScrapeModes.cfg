CONSTANTS
    s1 = s1
    s2 = s2
    s3 = s3
    d1 = d1
    d2 = d2
    db = db
    mq = mq
    NoMember = NoMember
    Groups = {d1, d2}
    GroupOrder <- DevicesInOrder
    Members = {s1, s2, s3}
    MemberOrder <- InOrder
    GroupOf <- TargetOf
    Interval <- EveryOrOther
    Primary <- Fastest
    Blocks = {1, 2}
    Wants <- Masks
    Bridges = {db, mq}
    BridgesOf <- Outputs
    WholeBridges = {db}
    Modes = {"sequential", "concurrent", "interleaved"}
    Timeout = 0
    StartTime = 2
    MaxTime = 4
    MaxFaults = 1
SPECIFICATION Spec
INVARIANTS
    ScrapeTypeOK
    OneReader
PROPERTIES
    WholeCycle
    Cadence
CHECK_DEADLOCK FALSE
