SPECIFICATION LiveSpec
CONSTANTS
  Ids <- MCIds
  QueueMax = 1
  MaxPasses = 1
  MaxTimeouts = 1
  MaxNoise = 1
  MaxLine = 3
INVARIANTS
  TypeOK
  EnqueueConfirmed
  Paired
  OnlyReadAcksCleared
PROPERTIES
  ExchangeSpec
  TickEnds
CHECK_DEADLOCK FALSE
