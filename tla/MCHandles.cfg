CONSTANTS
  r1 = r1
  r2 = r2
  r3 = r3
  h1 = h1
  h2 = h2
  NULL = NULL
  NoMessage = NoMessage
  Rank <- Pair
  Channel <- OneWay
  Handle <- TwoHandles
  Ops = {"Isend", "Irecv", "Testany", "Testsome"}
  Careful = TRUE
  MaxCount = 2
  MaxSend = 2
  MaxClock = 10
  ClientClock = {}

SPECIFICATION Spec
INVARIANTS
  IrecvMapExact
  SendsNeverMissed
SYMMETRY HandleSymmetry
CHECK_DEADLOCK FALSE
