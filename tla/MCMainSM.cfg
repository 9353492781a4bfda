SPECIFICATION Spec
CONSTANTS
  PvtTimeout = 3
  RawTimeout = 1
  Active = 1
  Hard = 4
  HwTimeout = 5
  TickMax = 2
  LedTime = 1
  MaxSession = 9
  Builds <- MCBuilds
  Faults = {"driver", "hang"}
INVARIANTS
  TypeOK
  NeverLeftPowered
  SessionBound
  ErrorOnlyByFault
PROPERTIES
  ErrorResets
  ConfigServed
CHECK_DEADLOCK FALSE
