SPECIFICATION Spec
CONSTANTS
  cash = cash
  card = card
  Methods = {cash, card, debit}
  Linked = {card, debit}
  InitialTable <- TableAtStart
  Slots = 3
  Refusals = TRUE
  LateErrors = TRUE
  CancelReceipts = TRUE
  MaxPays = 3
  MaxDocs = 2
  MaxRestarts = 1
INVARIANTS
  TypeOK
  CacheHonest
  UseMatchesPaid
  UnavailableMeansIssued
PROPERTIES
  VouchersInTurn
CHECK_DEADLOCK FALSE
