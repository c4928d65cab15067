CONSTANTS
  Locos = {l1}
  Others = {o1}
  Values = {still, moving}
  Stop = still
  Minutes = {m1}
  Railroads = {r1}
  Texts = {s1}
  Broken = {b1}
  Retained <- MCRetained
  NoText = NoText
  None = None
  MissedPolls = 1
  MaxInFlight = 2
  MaxAsks = 1
  MaxTroubles = 2
SPECIFICATION FairSpec
INVARIANTS
  NothingMissed
  StoodDown
PROPERTIES
  SilenceIsSaid
  CatchesUp
  FollowsTheStore
CHECK_DEADLOCK FALSE
