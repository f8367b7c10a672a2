CONSTANTS
  r1 = r1
  NULL = NULL
  NoMessage = NoMessage
  Rank = {r1}
  Channel <- Loopback
  Handle = {h1, h2, h3}
  Ops = {"Wait", "Waitany", "Waitsome", "Waitall", "Test", "Testany", "Testsome", "Testall"}
  Value = {10}
  MaxCount = 3
  MaxSend = 2

SPECIFICATION Spec
INVARIANTS
  TypeOK
  ValuesReported
  BufferReleased
  AbortsForWantOfBuffer
  SendsNeverMissed
SYMMETRY HandleSymmetry
CHECK_DEADLOCK FALSE
