CONSTANTS
  A = A
  B = B
  Districts = {A, B}
  None = None
  Lines <- MCLines
  Above = 4
  To = 2
  MaxLines = 6
  MaxTroubles = 2
SPECIFICATION Spec
INVARIANTS
  KeepsThePower
  OnlyOldestGo
  TailIsWhole
SYMMETRY Alike
CHECK_DEADLOCK FALSE
