CONSTANTS
  Handle = {h1, h2}
  NULL = NULL
  Segment = 2
  MaxCount = 2
  MaxLost = 2
  Cancels = {"started"}
  PassesNull = FALSE

SPECIFICATION Spec
INVARIANTS
  TypeOK
  SlotsExclusive
  ReportsTheRequest
PROPERTY
  ImplementsMap
SYMMETRY HandleSymmetry
