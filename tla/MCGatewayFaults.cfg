SPECIFICATION Spec
CONSTANTS
    Gateways = {g1, g2, g3}
    g1 = g1
    g2 = g2
    g3 = g3
    NoConfig = NoConfig
    NoGateway = NoGateway
    NoCaller = NoCaller
    w1 = w1
    t1 = t1
    WebThreads = {w1}
    WatchThreads = {t1}
    PooledConfigs = {}
    PromptStart = TRUE
    Configs = {a, b, x, d}
    Unbuildable = {x}
    Leaky = {}
    Malformed = {}
    DynamicOff = {d}
    MaxEdits = 2
    MaxBackups = 2
    EditsWhileBusy = TRUE
    MayOverrun = TRUE
    MayLoseBackups = TRUE
CHECK_DEADLOCK FALSE
SYMMETRY GatewaySymmetry
INVARIANT SingleBus
PROPERTY BusHandover
