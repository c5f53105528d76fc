SPECIFICATION Spec
CONSTANTS
  Pids = {2}
  SelfPid = 98
  SelfPPid = 0
  Nices = {0, 3, 5, 7}
  SessionNames = {}
  Names = {"a", "b"}
  MaxBirths = 1
  None = None
  ManageModes = {"follow", "snapshot"}
  NiceRequests = {5, 7}
  StopRequests = {}
  FreezeRequests = {}
  SignalRequests = {}
  OutsideNices = {0}
  OutsideStops = {}
  Forces = {FALSE}
  Loads <- FirstRun
  Handlers = {h1}
  Flicker = FALSE
  h1 = h1
  Cgroups <- MCCgroups
  SelfCgroup <- MCSelfCgroup
  PolicySets <- NoPolicies
  Requests <- SetA
  Commands <- SetB
  Denials <- NoDenials
  Bounds <- BothBounds
INVARIANT AckedIntentsSaved
CHECK_DEADLOCK FALSE
