SPECIFICATION Spec
CONSTANTS
  NbSlots = 2
  Data = {d1, d2}
  NoData = NoData
  Dates <- MCDates
  MaxEpoch = 9
  GpsTags <- MCPvt
  AckDates <- MCAckDates
  QueueSize = 2
  MaxCmds = 0
  AckHoldsId = TRUE
  Hazards = {"user_clear"}
SYMMETRY MCSymmetry
INVARIANTS
  NoSilentLoss
