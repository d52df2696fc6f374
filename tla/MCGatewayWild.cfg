SPECIFICATION Spec
CONSTANTS
    Gateways = {g1, g2, g3}
    g1 = g1
    g2 = g2
    g3 = g3
    NoConfig = NoConfig
    NoGateway = NoGateway
    NoCaller = NoCaller
    w1 = w1
    t1 = t1
    WebThreads = {w1}
    WatchThreads = {t1}
    PooledConfigs = {p}
    PromptStart = FALSE
    Configs = {p, y}
    Unbuildable = {}
    Leaky = {y}
    Malformed = {}
    DynamicOff = {}
    MaxEdits = 3
    MaxBackups = 1
    EditsWhileBusy = FALSE
    MayOverrun = TRUE
    MayLoseBackups = TRUE
CHECK_DEADLOCK FALSE
SYMMETRY GatewaySymmetry
INVARIANT OfflineWasReported ShownIsCurrent
