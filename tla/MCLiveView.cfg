CONSTANTS
  Runs = {r1, r2}
  None = None
  MaxTrace = 3
  MaxPauses = 1
  MaxFailures = 2
  MaxOpens = 2
SPECIFICATION FairSpec
CHECK_DEADLOCK FALSE
INVARIANTS
  TypeOK
  ShownIsTrue
  LastViewIsWhole
PROPERTIES
  Converges
