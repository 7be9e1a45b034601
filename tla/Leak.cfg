CONSTANTS
  vm = vm
  box = box
  alice = alice
  Requests = {vm}
  OwnerOf <- MCOwnerOf
  Vms = {vm}
  Desktops = {}
  Recipes = {}
  Refused = {}
  HasIPv6 = TRUE
  HasDns = TRUE
  ServerQuota = 1
  ProvisionAttempts = 2
  TeardownAttempts = 2
  PowerAttempts = 2
  SetupAttempts = 1
  MaxJobs = 3
  ProjectMayFail = TRUE
  MaxRestarts = 1
  MaxDbErrors = 0
SPECIFICATION Spec
INVARIANTS NothingLeaks

CHECK_DEADLOCK FALSE
