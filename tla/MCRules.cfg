CONSTANTS
  r1 = r1
  r2 = r2
  r3 = r3
  h1 = h1
  h2 = h2
  NULL = NULL
  NoMessage = NoMessage
  Rank <- Ranks
  Channel <- Relay
  Handle <- OneHandle
  Ops = {"Send", "Recv", "Collective", "Control", "Client"}
  Careful = FALSE
  MaxCount = 1
  MaxSend = 1
  MaxClock = 11
  ClientClock = {12}

SPECIFICATION Spec
INVARIANTS
  
  EveryEventTicks

  
CHECK_DEADLOCK FALSE
