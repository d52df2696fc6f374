SPECIFICATION PartSpec
CONSTANTS
  t1 = t1
  t2 = t2
  b1 = b1
  b2 = b2
  MapFiles <- TheFiles
  Filters <- TheFilters
  MemberCounts = {1, 2}
  BatchSize = 4
  DefaultEvery = 1
  Beyond = 2
  MaxUnanswered = 1
  Layouts <- Chains
  DefaultLayout <- Def
  Bases <- Cand
  DefaultBase = 4
  MaxModels = 3
  WriteTypes = {"off", "standard", "relaxed", "unsafe"}
  MaxSilences = 2
  MaxSessions = 2
  MayReloadDevice = TRUE
  EgKinds = {"inverter", "battery"}
  BatteryModules = {b1, b2}
  SlowestTry = 3
  MaxGlitches = 2
  MaxEgSessions = 1
  WordBits = 4
  FlagDigits = 2
  DeviceWords = 3
  Spare = 1
  Fills = {0, 9}
  Fields <- OwnFields
  FieldWriters = {t1, t2}
  UnsafeWrites = FALSE
  MaxAsked = 2
  x1 = x1
  x2 = x2
  x3 = x3
  p1 = p1
  p2 = p2
  Scrapers = {x1, x2, x3}
  ProtocolOf <- TwoProtocols
  Narrow = "narrow"
  MaxBridgeLives = 2
  MaxRegistrationFailures = 1
CHECK_DEADLOCK FALSE
INVARIANTS
  DevicesTypeOK
  MapsAreTrue
PROPERTIES
  WritesAndIdentityHold
  DeviceKeepsAnswering
