CONSTANTS
  r1 = r1
  r2 = r2
  r3 = r3
  h1 = h1
  h2 = h2
  NULL = NULL
  NoMessage = NoMessage
  Rank <- Pair
  Channel <- Mesh
  Handle <- TwoHandles
  Ops = {"Isend", "Irecv", "Wait", "Test", "Waitall", "Testall"}
  Careful = TRUE
  MaxCount = 2
  MaxSend = 1
  MaxClock = 11
  ClientClock = {}

SPECIFICATION Spec
INVARIANTS
  TypeOK
  SlotsMatchRequests
  NoAbort
PROPERTY
  ImplementsRules
SYMMETRY PairSymmetry
CHECK_DEADLOCK FALSE
