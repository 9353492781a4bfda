SPECIFICATION Spec
CONSTANTS
  NbSlots = 2
  Data = {d1, d2}
  NoData = NoData
  Dates = {1, 2}
  MaxEpoch = 9
INVARIANTS
  EntryForEachMessage
CHECK_DEADLOCK FALSE
