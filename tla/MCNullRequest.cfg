CONSTANTS
  Handle = {h1, h2}
  NULL = NULL
  Segment = 1
  MaxCount = 2
  MaxLost = 0
  Cancels = {}
  PassesNull = TRUE
  Buf = {a1, a2, a3}
  Out = Out
  Wild = Wild
  Clock = {10, 11}
  MaxMessage = 1

SPECIFICATION PBSpec
INVARIANT
  BuffersExclusive
