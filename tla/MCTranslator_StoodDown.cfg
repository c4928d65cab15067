CONSTANTS
  Locos = {l1}
  Others = {}
  Values = {still, moving}
  Stop = still
  Minutes = {}
  Railroads = {r1}
  Texts = {s1}
  Broken = {}
  Retained <- MCRetained
  NoText = NoText
  None = None
  MissedPolls = 1
  MaxInFlight = 2
  MaxAsks = 1
  MaxTroubles = 1
SPECIFICATION SignalSpec
INVARIANT StoodDown
CHECK_DEADLOCK FALSE
