SPECIFICATION Spec
CONSTANTS
  Pids = {3}
  SelfPid = 9
  SelfPPid = 2
  Nices = {0, 5, 10}
  Cgroups <- AppOnly
  SelfCgroup <- MCApp
  SessionNames = {}
  Names = {"a", "b"}
  MaxBirths = 1
  None = None
  ManageModes = {"follow"}
  NiceRequests = {5, 10}
  StopRequests = {}
  FreezeRequests = {}
  SignalRequests = {}
  PolicySets <- NoPolicies
  OutsideNices = {0}
  OutsideStops = {}
  Forces = {FALSE, TRUE}
  Loads <- FirstRun
VIEW View
INVARIANT DriftExplained
PROPERTIES RestoreRespectsDrift DryRunActsOnNothing
