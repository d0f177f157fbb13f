SPECIFICATION Spec
CONSTANTS
  None = None
  Type <- MCType
  Kind <- MCKind
  Fields <- MCFields
  Marshals <- MCMarshals
  GoName <- MCGoName
  SchemaName <- MCSchemaName
  Time = "Time"
  Service <- MCService
  Lower <- MCLower
  Setting <- MCSetting
INVARIANTS
  HonorsMarshalingRules
CHECK_DEADLOCK FALSE
