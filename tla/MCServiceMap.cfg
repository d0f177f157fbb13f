SPECIFICATION FairSpec
CONSTANTS
  r1 = r1
  r2 = r2
  c1 = c1
  greetA = greetA
  greetB = greetB
  myBackend = myBackend
  hidden = hidden
  void = void
  backend = backend
  NewServer = NewServer
  None = None
  BackendSrv = backend
  Registrar <- MCRegistrar
  Reader <- MCReader
  Srv <- MCSrv
  Name <- MCName
  NameOf <- MCNameOf
  Exported <- MCExported
  Method <- MCMethod
  MethodsOf <- MCMethodsOf
  Title <- MCTitle
INVARIANTS
  TypeOK
  OneWinnerPerName
  ResolvedIsCurrent
PROPERTIES
  EntriesArePermanent
  ImplementsDirectory
  EveryCallReturns
