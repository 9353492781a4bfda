SPECIFICATION LiveSpec
CONSTANTS
  NbSlots = 2
  Data = {d1, d2, d3}
  NoData = NoData
  Dates <- MCDates
  MaxEpoch = 9
  GpsTags <- MCPvt
  AckDates <- MCAckDates
  QueueSize = 2
  MaxCmds = 1
  AckHoldsId = TRUE
  Hazards = {"reboot"}
INVARIANTS
  NoSilentLoss
  QueueMatchesLogger
  NoStranded
PROPERTIES
  PromiseSpec
  PushOffersAll
  EveryMessageDelivered
