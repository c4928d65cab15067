CONSTANTS
  Gestures = {g1, g2}
  Borrowers = {g1, g2}
  None = None
SPECIFICATION SignalSpec
INVARIANT ShieldedFromTheSignal
CHECK_DEADLOCK FALSE
