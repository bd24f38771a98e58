SPECIFICATION FairSpec
CONSTANTS
  Names = {a, b}
  NoName = NoName
  Direct = {}
  Impatient = {}
  MaxRequests = 3
  ReadMax = 1
  KernelMax = 2
  MaxMaps = 24
  ScanDelay = TRUE
  DiskMayFill = FALSE
  BrokerMayThrow = FALSE
  MaxStarts = 2
  MaxKills = 1
  MaxSigterms = 1
PROPERTIES
  SignalledIsAnswered
  BacklogIsAnswered
  BusySigtermStops
  WatchedIsAnswered
CHECK_DEADLOCK FALSE
