SPECIFICATION Spec
CONSTANTS
  Pids = {3}
  SelfPid = 9
  SelfPPid = 2
  Nices = {0, 5}
  Cgroups <- AllCgroups
  SelfCgroup <- MCSession
  SessionNames <- Sessions
  Names = {"a"}
  MaxBirths = 2
  None = None
  ManageModes = {"follow", "snapshot"}
  NiceRequests = {}
  StopRequests = {TRUE, FALSE}
  FreezeRequests = {TRUE, FALSE}
  SignalRequests = {"STOP", "CONT", "KILL"}
  PolicySets <- NoPolicies
  OutsideNices = {0}
  OutsideStops = {"stop", "cont"}
  Forces = {FALSE}
  Loads <- LeftStopped
VIEW View
INVARIANT StopOwned
PROPERTY ContinueOnlyOwnStop
