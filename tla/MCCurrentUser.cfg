SPECIFICATION Spec
CONSTANTS
  email = email
  drive = drive
  web = web
  android = android
  server = server
  k1 = k1
  k2 = k2
  None = None
  EmailScope = email
  clockSkewSecs = 1
  maxTokenLifetimeSecs = 3
  HalfRange = 8
  MaxTime = 2
  Id <- MCId
  Scope <- MCScope
  Token <- MCToken
  Certs <- MCCerts
  Audiences <- MCAudiences
  ScopeLists <- MCScopeLists
INVARIANTS
  TypeOK
  UserIsOfAllowedClient
  AcceptedInTime
  AcceptsExactlyGoodTokens
  CheckedClientGetsUser
