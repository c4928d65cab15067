CONSTANTS
  Districts = {A, B}
  Settings = {m1, m2}
  None = None
  MaxInFlight = 2
  MaxTroubles = 3
SPECIFICATION FairSpec
INVARIANTS
  ScriptSeesTheRow
  UnknownWhenUnread
  JournalSaysThePower
PROPERTIES
  SaysItsLink
  CatchesTheTruth
CHECK_DEADLOCK FALSE
