SPECIFICATION PartSpec
CONSTANTS
  w1 = w1
  w2 = w2
  t1 = t1
  t2 = t2
  InfluxWriters = {w1}
  MaxReadings = 3
  BatchSize = 2
  MaxBacklog = 2
  KeepsBacklog = TRUE
  InfluxSetups = {"v1", "v3", "v3auto"}
  PoisonReadings = {}
  WaitsForWriters = TRUE
  MayTear = FALSE
  MaxServerOutages = 1
  MaxInfluxCrashes = 1
  MqttDevices = {t1, t2}
  ReconnectAttempts = 2
  PahoRetries = TRUE
  CallbacksWait = TRUE
  MaxLinkFailures = 2
  RangeCount = 2
  ReadPaths = {"blocking", "iter"}
  ReadRetries = 2
  BlockRetries = 2
  MaxFailures = 3
  DisableTime = 2
  TracksFailures = TRUE
  NoticesSilence = TRUE
CHECK_DEADLOCK FALSE
INVARIANTS
  DeliveryTypeOK
  RangesAreJudgedFairly
PROPERTIES
  ReadingsSurvive
  DeliveryGoesOn
