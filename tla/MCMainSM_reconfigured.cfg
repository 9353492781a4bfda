SPECIFICATION Spec
CONSTANTS
  PvtTimeout = 3
  RawTimeout = 1
  Active = 1
  Hard = 4
  HwTimeout = 5
  TickMax = 2
  LedTime = 1
  MaxSession = 9
  Builds <- ScreenBuild
  Faults = {}
INVARIANTS
  Reconfigured
CHECK_DEADLOCK FALSE
