CONSTANTS
  Handle = {h1, h2}
  NULL = NULL
  Segment = 1
  MaxCount = 2
  MaxLost = 1
  Cancels = {}
  PassesNull = FALSE
  Buf = {a1, a2, a3}
  Out = Out
  Wild = Wild
  Clock = {10, 11}
  MaxMessage = 2

SPECIFICATION PBSpec
INVARIANTS
  PBTypeOK
  BuffersExclusive
  BuffersAccounted
PROPERTY
  ImplementsChannel
SYMMETRY MemorySymmetry
CHECK_DEADLOCK FALSE
