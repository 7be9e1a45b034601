CONSTANTS
  vm = vm
  box = box
  alice = alice
  Requests = {vm}
  OwnerOf <- MCOwnerOf
  Vms = {vm}
  Desktops = {vm}
  Recipes = {vm}
  Refused = {}
  HasIPv6 = TRUE
  HasDns = TRUE
  ServerQuota = 1
  ProvisionAttempts = 3
  TeardownAttempts = 2
  PowerAttempts = 1
  SetupAttempts = 1
  MaxJobs = 3
  ProjectMayFail = TRUE
  MaxRestarts = 1
  MaxDbErrors = 1
SPECIFICATION Spec
INVARIANTS UnapprovedUsesNothing BuildIsTracked LiveBoxIsAttributed OwnerHasAccess
PROPERTIES TeardownIsComplete RunningMeansReady ImplementsQueue
CHECK_DEADLOCK FALSE
