SPECIFICATION PartSpec
CONSTANTS
  d1 = d1
  k1 = k1
  k2 = k2
  c1 = c1
  c2 = c2
  DeviceKeys = {"bridge"}
  OtherKeys = {"o1"}
  GeneralKeys = {}
  BridgeKeys = {"b1"}
  BridgeRef = "bridge"
  Refers = "v2"
  SettingValues = {"v1", "v2"}
  DefaultValue = "v1"
  Committed = {"bridge"}
  EditsOverlap = TRUE
  ScansOverlap = FALSE
  Mishaps = 1
  MaxChanges = 2
  MaxBackups = 2
  Devices = {d1}
  CsvRows = {"code", "plain"}
  Synthetics = {"derived"}
  Described = {"code"}
  DescOf <- OneDesc
  NameOf <- OwnNames
  WritableRows = {"plain"}
  MaxToggles = 3
  MaxCommits = 2
  MaxDeaths = 1
  Committers = {k1}
  Columns = {c1, c2}
  EditedColumn = c1
  MaxStaged = 3
  MaxRefusals = 1
  a1 = a1
  a2 = a2
  Metrics = {a1, a2}
  ColumnOf <- OwnColumns
  ColumnTypes = {"int", "text"}
  WideLimit = 2
  MaxSchemaStarts = 2
  MaxSchemaOutages = 2
  MaxDeletions = 1
  Wides = {"w1"}
  Shared = "shared_narrow"
  Tiers = 3
  RollupActors = {"main", "web", "retune"}
  MaxRollupStarts = 2
  MaxRollupErrors = 1
  MaxRollupTasks = 1
  RawTables = {"narrow"}
  RollupViews = {}
  Chunks = {1}
  AfterValues = {"3d", "7d"}
  Pausers = {"web1", "web2"}
  MaxJobStarts = 2
  MaxPauses = 2
  MaxJobFaults = 1
  Destinations = {"v1", "v3", "wide", "narrow"}
  Stored <- StoredAtFirst
  ColumnType <- ThreeColumns
  Workbooks <- Books
  ColumnsOf <- BookColumns
  Guess <- BookGuess
  ZoneSteps <- HourTwice
  Offset = 1
  Ticks = 1
  ExportRanges <- StayOrMove
  Shifts = {0, 1}
  FileSpan = 1
  MaxFiles = 1
  BatchPoints = 1
  TypesMayFail = TRUE
  LiveTimes = {2}
  LiveValues <- LiveReading
  MaxImports = 1
  MaxExports = 1
  MaxWriteFaults = 2
  EditRanges <- WholeRange
  NewValues <- OneOrTrue
  Edition = "enterprise"
  MaxEdits = 2
  MaxEditFaults = 1
CHECK_DEADLOCK FALSE
INVARIANTS
  WebStorageTypeOK
  StagingIsTrue
  SelectionsAreTrue
  EditsAreDoneOnce
  WideTableIsTrue
  RollupsAreTrue
  JobsAreTrue
PROPERTIES
  RollbackLeavesNoEdits
  ValuesAreTrue
