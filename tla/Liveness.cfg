CONSTANTS
  vm = vm
  box = box
  alice = alice
  Requests = {vm, box}
  OwnerOf <- MCOwnerOf
  Vms = {}
  Desktops = {}
  Recipes = {box}
  Refused = {vm}
  HasIPv6 = TRUE
  HasDns = FALSE
  ServerQuota = 2
  ProvisionAttempts = 2
  TeardownAttempts = 1
  PowerAttempts = 1
  SetupAttempts = 1
  MaxJobs = 3
  ProjectMayFail = FALSE
  MaxRestarts = 1
  MaxDbErrors = 0
SPECIFICATION FairSpec

PROPERTIES JobsEnd
CHECK_DEADLOCK FALSE
