SPECIFICATION ListSpec
CONSTANTS
  r1 = r1
  r2 = r2
  c1 = c1
  greeter = greeter
  broken = broken
  backend = backend
  NewServer = NewServer
  None = None
  BackendSrv = backend
  GetApiConfigs = "GetApiConfigs"
  GetFirstConfig = "GetFirstConfig"
  Undescribable = {broken}
  MaxItems = 2
  Registrar <- MCRegistrar
  Reader <- MCReader
  Srv <- MCSrv
  Name <- MCName
  NameOf <- MCNameOf
  Exported <- MCExported
  Method <- MCMethod
  MethodsOf <- MCMethodsOf
  Title <- MCTitle
INVARIANTS
  EveryServiceIsListed
