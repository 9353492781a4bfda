SPECIFICATION Spec
CONSTANTS
  NbSlots = 2
  Data = {d1}
  NoData = NoData
  Dates <- MCDates
  MaxEpoch = 9
  GpsTags <- MCPvt
  AckDates <- MCAckDates
  QueueSize = 1
  MaxCmds = 0
  AckHoldsId = TRUE
  Hazards = {"same_second", "user_clear", "link_fault", "ack_read_fault", "late_answer", "no_mem", "reboot"}
INVARIANTS
  TypeOK
  NoDuplicate
