SPECIFICATION Spec
CONSTANTS
  NbAlarms = 2
  EveryNext <- MCEveryNext
  DateNext <- MCDateNext
  Builds <- MCBuilds
  Start = 10
  Timeout = 3
  Hard = 3
  HwTimeout = 4
  Active = 2
  Word = 64
  BusyMax = 2
  MaxTime = 24
  FixTimes = {17}
  Drift = 1
  Intervals = {1, 24}
  LateConfig = FALSE
INVARIANTS
  TypeOK
  IdsMatchAlarms
  GpsAlarmAlive
  OnSchedule
  SleepIsSafe
  AppliedConfig
PROPERTIES
  OneFirePerDue
CHECK_DEADLOCK FALSE
