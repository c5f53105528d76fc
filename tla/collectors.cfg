SPECIFICATION Spec
CONSTANTS
  Pids = {1, 2}
  Running0 <- OneProcess
  MaxStarts = 3
  MaxWork = 2
  MaxThreads = 2
  Names = {web}
  Unset = unset
  HostName = host
  Clients = {1, 2}
  ClientInfo <- TwoClients
  Engines = {"render", "copy"}
  MaxGroups = 1
  HwEvents = 2
  MaxScans = 1
  Fds = {1, 2, 3}
  FdKind <- SomeKinds
  FdInode <- SomeInodes
  Cpus = {1, 2}
  MaxIdle = 2
  Zones = {1, 2, 3, 4, 5}
  ZoneInfo <- SomeZones
  Fitted <- SomeFitted
  MaxEnergy = 2
  Batteries <- SomeBatteries
  Scenarios <- SmallScenarios
INVARIANTS
  RateIsOwnGrowth RatesAppear HostCacheOwn WakeupsFromOneSource CollectorsLeaveNothing HostFiguresMeasured
PROPERTIES
  WindowMeasuresOwn ScansReturn
CHECK_DEADLOCK FALSE
