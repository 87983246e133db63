SPECIFICATION Spec
CONSTANTS
  NameOrder <- MCNameOrder
  Kind <- MCKind
  HostNum <- MCHostNum
  StartLinks <- MCStartLinks
  Pairs <- MCPairs
  UserPorts = {1}
  UserIds = {254}
  UserServices = {91}
  ThriftBase = 90
  GrpcBase = 91
  LastHost = 254
  DeletesBusy = FALSE
  SharesPorts = FALSE
  MaxCalls = 3
INVARIANTS TypeOK StartSucceeds DistinctWhenStarted CpuLinks TasksServed
PROPERTIES ChoicesKept OneInterfaceSet GatewayReachable
CHECK_DEADLOCK FALSE
