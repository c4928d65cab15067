CONSTANTS
  Gestures = {here, other}
  Borrowers = {here, other}
  Here = here
  None = None
  MaxList = 2
  MaxTyped = 2
SPECIFICATION MCSpec
INVARIANTS
  ToolIsAlone
  SettledFirst
  StoppedFirst
  NothingHeldOver
PROPERTIES
  BlockEnds
  BarFalls
CHECK_DEADLOCK FALSE
