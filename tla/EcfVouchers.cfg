SPECIFICATION Spec
CONSTANTS
  cash = cash
  card = card
  Methods = {cash, card, debit}
  Linked = {card, debit}
  InitialTable <- TableAtStart
  Slots = 3
  Refusals = FALSE
  LateErrors = FALSE
  CancelReceipts = FALSE
  MaxPays = 4
  MaxDocs = 3
  MaxRestarts = 1
INVARIANTS
  SuppressedOnlyWhereNamed
  OutgoingUnpaid
  OneCardSurvivesRestart
CHECK_DEADLOCK FALSE
