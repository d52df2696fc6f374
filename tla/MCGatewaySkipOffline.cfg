SPECIFICATION Spec
CONSTANTS
    Gateways = {g1, g2, g3}
    g1 = g1
    g2 = g2
    g3 = g3
    NoConfig = NoConfig
    NoGateway = NoGateway
    NoCaller = NoCaller
    w1 = w1
    t1 = t1
    WebThreads = {w1}
    WatchThreads = {t1}
    PooledConfigs = {}
    PromptStart = TRUE
    Configs = {a, x}
    Unbuildable = {x}
    Leaky = {}
    Malformed = {}
    DynamicOff = {}
    MaxEdits = 2
    MaxBackups = 2
    EditsWhileBusy = FALSE
    MayOverrun = FALSE
    MayLoseBackups = FALSE
CHECK_DEADLOCK FALSE
PROPERTY SkipOnlyWhenServing
