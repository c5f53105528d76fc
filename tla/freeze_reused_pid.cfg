SPECIFICATION Spec
CONSTANTS
  Pids = {3}
  SelfPid = 9
  SelfPPid = 2
  Nices = {0, 5}
  Cgroups <- AllCgroups
  SelfCgroup <- MCSession
  SessionNames <- Sessions
  Names = {"a"}
  MaxBirths = 2
  None = None
  ManageModes = {"follow"}
  NiceRequests = {}
  StopRequests = {}
  FreezeRequests = {TRUE}
  SignalRequests = {}
  PolicySets <- NoPolicies
  OutsideNices = {0}
  OutsideStops = {}
  Forces = {FALSE}
  Loads <- FirstRun
PROPERTY FreezeHitsBoundProcess
