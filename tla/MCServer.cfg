SPECIFICATION Spec
CONSTANTS
  None = None
  Code <- MCCode
  KnownCode <- MCKnownCode
INVARIANTS
  TypeOK
  FailureIsReported
  MethodGetsWhatItDeclares
