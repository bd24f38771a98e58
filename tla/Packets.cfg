SPECIFICATION Spec
CONSTANTS
  SessionIds <- Ids
  Folded <- FoldedIds
  Lines <- SmallLines
  MaxLines = 9
INVARIANTS
  TypeOK
  ReadsBack
PROPERTIES
  SessionEndsOnRequest
