CONSTANTS
  Viewers = {v1}
  Readers = {r1, r2}
  Loop = Loop
  None = None
  MaxSaves = 3
  MaxCrashes = 2
SPECIFICATION Spec
CHECK_DEADLOCK FALSE
INVARIANTS
  TypeOK
  TraceIsServed
  ViewIsCurrent
PROPERTIES
  NoLostUpdate
