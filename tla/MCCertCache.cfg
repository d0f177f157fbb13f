SPECIFICATION Spec
CONSTANTS
  r1 = r1
  r2 = r2
  None = None
  Second = 2
  HalfRange = 8
  Deadline = 1
  MaxTime = 5
  Request <- MCRequest
  Answer <- MCAnswer
SYMMETRY MCSymmetry
INVARIANTS
  TypeOK
  OnlyUsableIsCached
  ObtainedIsReturned
PROPERTIES
  ServedIsFresh
