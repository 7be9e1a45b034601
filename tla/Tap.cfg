CONSTANTS
  MaxZoom = 2
  Mods <- MCMods
  MaxChanges = 2
  mine = mine
  web = web
  Recipes = {mine, web}
  Licensed = {mine, web}
  VmOnly = {mine}
  MaxCalls = 4
  Games = {mine, web}
  Docker = "docker"
  NeedsVm = {mine}
  ComingSoon = {web}
  DailyCap = 2
  MaxMoves = 2
  MaxEvents = 2
  PageSize = 2
  MaxEntries = 7
  Millisecond <- MCMillisecond
SPECIFICATION PagesSpec
INVARIANT TapHasNoTravel
CHECK_DEADLOCK FALSE
