SPECIFICATION Spec
CONSTANTS
  Pids = {3}
  SelfPid = 9
  SelfPPid = 2
  Nices = {0, 5}
  Cgroups <- AppOnly
  SelfCgroup <- MCApp
  SessionNames = {}
  Names = {"a"}
  MaxBirths = 2
  None = None
  ManageModes = {"follow"}
  NiceRequests = {}
  StopRequests = {TRUE}
  FreezeRequests = {}
  SignalRequests = {}
  PolicySets <- NoPolicies
  OutsideNices = {0}
  OutsideStops = {"stop"}
  Forces = {FALSE}
  Loads <- FirstRun
PROPERTY PreStoppedStaysStopped
