CONSTANTS
  alice = alice
  chat = chat
  other = other
  t1 = t1
  t2 = t2
  t3 = t3
  ChatUsers = {alice}
  OwnerOf <- OneOwner
  Conversations = {chat, other}
  Turns = {t1, t2, t3}
  ConversationOf <- TwoChats
  DailyCap = 1
  MaxNotices = 1
  MaxDays = 1
  MaxStalls = 1
  MaxDbErrors = 1
  job = job
  e1 = e1
  e2 = e2
  JobLoop = job
  e3 = e3
  ExecLoops = {e1, e2, e3}
  MaxRows = 4
  MaxErrors = 1
  MaxDrops = 2
  Builds = {1, 2, 3}
  Slots = {1, 2, 3, 4}
  LabelsOf <- MCLabels
  MaxDeploys = 3
  MaxInterrupts = 1
  MaxBootCrashes = 1
SPECIFICATION ProgressSpec
INVARIANTS
  TurnsAreSerial EveryMessageAnswered DailyCapHolds
  NoRestOverWork
  SchemaFits DeployedIsCurrent
PROPERTIES
  TurnsEnd NotificationsSuffice
  NeverBelowOne DrainedBeforeStop DeployEnds
CHECK_DEADLOCK FALSE
