SPECIFICATION MonitorFairSpec
CONSTANTS
  Macs = {m1, m2}
  Minutes = {0, 1, 3}
  SecsPerMinute = 1
  MaxU32 = 2
  Monitors = {a, b}
  MaxLag = 1
  None = None
INVARIANTS MonitorTypeOK OneSignalPerIdlePeriod TimersMatchRegistry
PROPERTIES SignalOnlyWhenIdle IdleIsSignalled
