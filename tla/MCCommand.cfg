SPECIFICATION Spec
CONSTANTS
  Packets <- MCPackets
  Kind <- MCKind
  Data <- MCData
  Body <- MCBody
  Size = 4
  MaxAnswers = 2
  MaxSends = 1
INVARIANTS
  TypeOK
  OncePerSending
  AckMeansActed
  AnswersFollowAck
  Resynchronises
CHECK_DEADLOCK FALSE
