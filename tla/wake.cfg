SPECIFICATION WakeFairSpec
CONSTANTS
  Conns = {c1}
  Requests = {r1, r2}
  Window = 2
  CheckTimeout = 1
  Pause = 2
  WaitTime = 7
  ConnectTimeout = 3
  HttpTimeout = 1
  SuspendDelay = 3
  SuspendTime = 2
  BootTime = 2
INVARIANT DropsHaveACause
PROPERTIES Settles IdleMachineSleeps
