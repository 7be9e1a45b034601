CONSTANTS
  e1 = e1
  e2 = e2
  t1 = t1
  m1 = m1
  home = home
  l1 = l1
  l2 = l2
  Execs = {e1, e2}
  Tokens = {t1}
  Machines = {m1}
  Envs = {home}
  Loops = {l1, l2}
  TokenOf <- MCTokenOf
  MachineOf <- MCMachineOf
  EnvOf <- MCEnvOf
  LoopEnv <- MCLoopEnv
  Cap = 1
  Long = {e1}
  MaxRestarts = 1
  MaxDbErrors = 1
  MaxToggles = 1
SPECIFICATION Spec
INVARIANTS AnsweredIsNotQueued CapHolds
PROPERTIES OperationsAreOneShot OperationsEnd
CHECK_DEADLOCK FALSE
