SPECIFICATION Spec
CONSTANTS
  Names <- SmallNames
  Slots = 4
  Refusals = TRUE
  LateErrors = TRUE
INVARIANTS
  TypeOK
  IndexIsTheSlot
  CopyHonest
  MissingIsMissing
  NameOnce
PROPERTIES
  NothingOverwritten
