CONSTANTS
  Railroads = {r1, r2}
  None = None
  Unreported = Unreported
  Awaited = Awaited
  MaxAsks = 2
  MaxPuts = 2
SPECIFICATION EditSpec
SYMMETRY Alike
INVARIANTS
  TextsOfTheirOwn
  SaidAppliedWasHeld
PROPERTY EditsStay
