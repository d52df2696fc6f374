SPECIFICATION PartSpec
CONSTANTS
  m1 = m1
  m2 = m2
  f1 = f1
  l1 = l1
  l2 = l2
  c1 = c1
  w1 = w1
  w2 = w2
  Metrics = {m1, m2}
  Reports = {{m1, m2}}
  MetricValues = {0, 1}
  WatchKinds = {"influx", "timescale"}
  StaleTimeout = 2
  RetryDelay = 2
  MaxStaleAttempts = 2
  Machines = {m1, m2}
  LabelOf <- OwnLabels
  PrometheusFields = {f1}
  MaxMeter = 2
  MaxTotal = 2
  Threshold = 1
  DeviceOrder <- TwoDevices
  Sensors = {}
  Numbers = {}
  Switches = {c1}
  WriteOnlyEntities = {}
  DiscoveryTypes = {"auto", "sensor"}
  MaxStarts = 2
  Setters = {w1}
  MayHold = TRUE
  CrashesMidway = FALSE
  MaxChanges = 5
  a1 = a1
  a2 = a2
  Sections = {a1, a2}
  Polls <- OnePoll
  MaxFrame = 4
  MaxClients = 2
  MaxFaults = 1
  MayAnswerLate = FALSE
CHECK_DEADLOCK FALSE
INVARIANTS
  BridgesTypeOK
  CountersAreTrue
  CommandsAreSelected
  NoticesAreTrue
  PortIsShared
PROPERTIES
  SilenceIsEnded
