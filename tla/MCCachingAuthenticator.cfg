SPECIFICATION FairSpec
CONSTANTS
  g1 = g1
  g2 = g2
  email = email
  drive = drive
  web = web
  android = android
  None = None
  Goroutine <- MCGoroutine
  Scope <- MCScope
  Client <- MCClient
  ClientOf <- MCClientOf
  ScopeLists <- MCScopeLists
INVARIANTS
  TypeOK
  NoNilUser
  ReturnedUserIsAllowed
  CacheIsLastAnswer
PROPERTIES
  NoRedundantFetch
  ImplementsLastAnswer
  EveryCallReturns
