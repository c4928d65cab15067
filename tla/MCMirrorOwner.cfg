CONSTANTS
  Clients = {c1, c2}
  Devices = {d1, d2}
  None = None
  Borrower = flash
  Pieces = 2
  MaxBatch = 1
  FirstBackoff = 1
  MaxBackoff = 1
  GraceReopens = 1
SPECIFICATION BoundedSpec
INVARIANTS
  WholeMessages
  NothingAstray
  NothingStale
  NothingParkedOnGone
PROPERTIES
  ImplementsOwner
  GivesItUp
  ComesBack
  CloseEnds
  OutageTakesItsClients
