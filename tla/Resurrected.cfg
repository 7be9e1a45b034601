CONSTANTS
  vm = vm
  box = box
  alice = alice
  Requests = {vm}
  OwnerOf <- MCOwnerOf
  Vms = {vm}
  Desktops = {}
  Recipes = {}
  Refused = {}
  HasIPv6 = TRUE
  HasDns = TRUE
  ServerQuota = 1
  ProvisionAttempts = 2
  TeardownAttempts = 2
  PowerAttempts = 2
  SetupAttempts = 1
  MaxJobs = 3
  ProjectMayFail = FALSE
  MaxRestarts = 0
  MaxDbErrors = 0
SPECIFICATION Spec

PROPERTIES DeletedStaysDeleted
CHECK_DEADLOCK FALSE
