SPECIFICATION FairSpec
CONSTANTS
  None = None
  Type <- MCType
  Kind <- MCKind
  Fields <- MCFields
  Marshals <- MCMarshals
  GoName <- MCGoName
  SchemaName <- MCSchemaName
  Time = "Time"
  Service <- MCService
  Lower <- MCLower
  Setting <- MCSetting
INVARIANTS
  TypeOK
  EveryReferenceResolves
  RecursionIsBounded
  SchemasAreThoseReached
  FaultsAreFound
PROPERTIES
  DescriptionEnds
CHECK_DEADLOCK FALSE
