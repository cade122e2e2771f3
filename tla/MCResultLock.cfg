CONSTANTS
  p1 = p1
  p2 = p2
  c1 = c1
  c2 = c2
  c3 = c3
  None = None
  Processes <- TwoProcesses
  Callers <- ThreeCallers
  Home <- Spread
  Runner = p1
  MaxCrashes = 2
SPECIFICATION Spec
CHECK_DEADLOCK FALSE
INVARIANTS
  TypeOK
  ReceiptsStand
  TraceIsNumbered
  ViewsVerify
PROPERTIES
  LockIsKept
  Implements
