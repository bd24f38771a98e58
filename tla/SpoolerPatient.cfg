SPECIFICATION Spec
CONSTANTS
  Names = {a, b, c}
  NoName = NoName
  Direct = {}
  Impatient = {}
  MaxRequests = 4
  ReadMax = 2
  KernelMax = 3
  MaxMaps = 30
  ScanDelay = FALSE
  DiskMayFill = FALSE
  BrokerMayThrow = FALSE
  MaxStarts = 2
  MaxKills = 1
  MaxSigterms = 1
SYMMETRY NameSymmetry
INVARIANTS
  LckMeansAnswer
  OnlySigtermEnds
  LossIsKill
  EventOrder
  NothingHalfWritten
CHECK_DEADLOCK FALSE
