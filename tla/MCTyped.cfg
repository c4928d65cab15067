CONSTANTS
  Start = start
  End = end
  Bytes = {start, end, other}
  MaxMessage = 3
  MaxChunk = 3
  MaxGiven = 6
  MaxControl = 1
  MaxFrame = 3
  Base = 3
  Widths <- MCWidths
  Weight <- MCWeight
  k1 = k1
  k2 = k2
  Keys <- MCKeys
  None = None
  ReadSize = 4
  MaxSent = 2
SPECIFICATION TypedSpec
INVARIANTS
  EveryMessage
  EveryFrame
CHECK_DEADLOCK FALSE
