\* The smaller components, one at a time.
SPECIFICATION DeviceSpec
CONSTANTS
  Span = 4
  NoFile = NoFile
  Spoiled = Spoiled
  RingSize = 4
  RingTime = 3
  LiveTime = 2
  Readings = {1, 2}
  LiveReadings = {1}
  Imports <- RingImports
  LookAhead = 3
  RingArchive <- OldRings
  RingFaultLimit = 1
  EventSize = 3
  EventLimit = 5
  EventFaultLimit = 2
  SmlGroups = {"power"}
  SmlSome <- SomeTelegrams
  SmlAll <- AllTelegrams
  SmlSpan = 2
  MaxSml = 22
  SmlQualify = 1
  SmlSentinel = 2
  SmlFaultLimit = 2
  D0Readings = {1, 2}
  MaxD0 = 12
  D0FaultLimit = 2
  ModbusRequests <- Requests
  ModbusLimit = 2
  LanAddresses = {1, 2}
  LanEventLimit = 3
  WifiSlots = 2
  WifiKnown = {1, 2}
  WifiSignals <- Signals
INVARIANTS DeviceTypeOK QueryExact RingKeepsRecords EventsSurvive ClearedStaysCleared
           SmlResync SelfCheckAgrees D0Resync ModbusAnswers SearchesWithFullPower
PROPERTIES MigrationKeepsRecords LanFollows WifiComesBack MqttReturns
