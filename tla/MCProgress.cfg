CONSTANTS
  r1 = r1
  r2 = r2
  r3 = r3
  h1 = h1
  h2 = h2
  NULL = NULL
  NoMessage = NoMessage
  Rank <- Pair
  Channel <- Mesh
  Handle <- OneHandle
  Ops = {"Irecv", "Test", "Waitany", "Waitsome", "Recv", "Sendrecv", "Collective"}
  Careful = FALSE
  MaxCount = 1
  MaxSend = 2
  MaxClock = 13
  ClientClock = {}

SPECIFICATION FairSpec
INVARIANT
  ClockCondition
PROPERTY
  WrappersReturn
CHECK_DEADLOCK FALSE
