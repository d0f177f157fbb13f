SPECIFICATION Spec
CONSTANTS
  None = None
  Text <- MCText
  Decimal <- MCDecimal
  Literal <- MCLiteral
  Truth <- MCTruth
  Rank <- MCRank
  Struct <- MCStruct
  Sent <- MCSent
  Bits <- MCBits
INVARIANTS
  TypeOK
  AcceptedMeetsTags
  MeetingIsAccepted
CHECK_DEADLOCK FALSE
