SPECIFICATION Spec
CONSTANTS
  Pids = {2, 3}
  SelfPid = 9
  SelfPPid = 2
  Nices = {0, 10}
  Cgroups <- AppOnly
  SelfCgroup <- MCApp
  SessionNames = {}
  Names = {"a"}
  MaxBirths = 2
  None = None
  ManageModes = {}
  NiceRequests = {10}
  StopRequests = {}
  FreezeRequests = {}
  SignalRequests = {}
  PolicySets <- RulePolicies
  OutsideNices = {0}
  OutsideStops = {}
  Forces = {FALSE}
  Loads <- ParentUnderRule
VIEW View
INVARIANTS TypeOK ProtectedOnlyInherited DriftExplained
PROPERTIES OriginalStable OnlyBoundReniced
