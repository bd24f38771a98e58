SPECIFICATION Spec
CONSTANTS
  cash = cash
  card = card
  Methods = {cash, card, debit}
  Linked = {card, debit}
  InitialTable <- TableAtStart
  Slots = 3
  Refusals = FALSE
  LateErrors = FALSE
  CancelReceipts = TRUE
  MaxPays = 3
  MaxDocs = 2
  MaxRestarts = 0
INVARIANTS
  SuppressedOnlyOnReceipts
CHECK_DEADLOCK FALSE
