CONSTANTS
  Clients = {page, other}
  Page = page
  MaxOutstanding = 0
  ReadSize = 1
  MaxSaid = 3
  HighWater = 1
  LowWater = 0
SPECIFICATION MCSpec
INVARIANTS
  NoGaps
  NoClientLeft
  NothingBuffered
PROPERTIES
  LeavesWithThePage
  PatienceEnds
  FaceEnds
  ReaderFollowsMirror
CHECK_DEADLOCK FALSE
