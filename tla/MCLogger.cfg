SPECIFICATION Spec
CONSTANTS
  NbSlots = 3
  Data = {d1}
  NoData = NoData
  Dates <- MCDates
  MaxEpoch = 9
  ApiTags <- MCApiTags
  AckDates <- MCAckDates
INVARIANTS
  TypeOK
  ScansCorrect
  WalkVisitsEachDateOnce
  ClearMatchingExact
PROPERTY
  NoOverwrite
