SPECIFICATION FairSpec
CONSTANTS
  Names = {a}
  NoName = NoName
  Direct = {}
  Impatient = {}
  MaxRequests = 1
  ReadMax = 1
  KernelMax = 1
  MaxMaps = 10
  ScanDelay = TRUE
  DiskMayFill = FALSE
  BrokerMayThrow = FALSE
  MaxStarts = 1
  MaxKills = 0
  MaxSigterms = 0
PROPERTIES
  EveryCommandIsAnswered
CHECK_DEADLOCK FALSE
