SPECIFICATION Spec
CONSTANTS
  Names = {a, b}
  NoName = NoName
  Direct = {b}
  Impatient = {a, b}
  MaxRequests = 2
  ReadMax = 1
  KernelMax = 1
  MaxMaps = 5
  ScanDelay = FALSE
  DiskMayFill = TRUE
  BrokerMayThrow = TRUE
  MaxStarts = 2
  MaxKills = 1
  MaxSigterms = 1
INVARIANTS
  TypeOK
  AtMostOnce
  Accounted
PROPERTIES
  GatewaySpec
CHECK_DEADLOCK FALSE
