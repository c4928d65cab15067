CONSTANTS
  Clients = {c1}
  Devices = {d1, d2}
  None = None
  Pieces = 2
  MaxBatch = 2
  FirstBackoff = 1
  MaxBackoff = 2
  GraceReopens = 2
SPECIFICATION FairSpec
PROPERTY RunEnds
