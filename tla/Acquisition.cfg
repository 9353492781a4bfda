SPECIFICATION Spec
CONSTANTS
  Nrf = FALSE
  W = 40
  Correction = 39
  Word = 4000
  Interval = 12
  Hard = 5
  HwTimeout = 7
  Active = 2
  TurnMax = 1
  Default = 3
  FirstFix = 100
  MaxTime = 200
INVARIANTS
  EveryInterval
CHECK_DEADLOCK FALSE
