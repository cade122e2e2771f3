CONSTANTS
  Processes = {p1, p2}
  Clients = {c1, c2}
  Keys = {k1}
  Targets = {t1, t2}
  Runs = {r1, r2}
  None = None
  MaxAdvances = 2
  MaxCrashes = 1
SPECIFICATION Spec
SYMMETRY Symmetry
CHECK_DEADLOCK FALSE
INVARIANTS
  TypeOK
  LoopsAreKnown
  SameKeySameRun
  OrphansAreCrashes
