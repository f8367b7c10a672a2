CONSTANTS
  r1 = r1
  r2 = r2
  r3 = r3
  h1 = h1
  h2 = h2
  NULL = NULL
  NoMessage = NoMessage
  Rank <- Pair
  Channel <- Mesh
  Handle <- OneHandle
  Ops = {"Sendrecv"}
  Careful = TRUE
  MaxCount = 1
  MaxSend = 1
  MaxClock = 10
  ClientClock = {}

SPECIFICATION Spec
INVARIANT
  EveryEventTicks
CHECK_DEADLOCK FALSE
