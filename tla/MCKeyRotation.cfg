SPECIFICATION RotationSpec
CONSTANTS
  r1 = r1
  r2 = r2
  k1 = k1
  k2 = k2
  web = web
  None = None
  Second = 2
  HalfRange = 16
  Deadline = 1
  MaxTime = 6
  clockSkewSecs = 1
  maxTokenLifetimeSecs = 6
  Caller = r1
  Client = web
  EmailScope = "email"
  Request <- MCRequest
  Answer <- MCAnswer
  Published <- MCPublished
  Token <- MCToken
INVARIANTS
  RetiredKeyIsRefused
  NewKeyIsKnown
