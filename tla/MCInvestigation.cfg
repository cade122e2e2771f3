CONSTANTS
  Baseline = {1, 2}
  Adaptive = {3, 4}
  Search = 1
  NeedsCandidate = {3}
  Cost <- MCCost
  Outcomes <- MCOutcomes
  Stop = Stop
  None = None
  MaxSteps = 4
  MaxTools = 4
  MaxAdaptive = 2
  MaxCost = 3
  MaxRevisions = 1
  MaxCrashes = 1
SPECIFICATION FairSpec
CHECK_DEADLOCK FALSE
INVARIANTS
  TypeOK
  LedgerIsSound
  AdaptiveIsEarned
  BudgetsConserved
  NodesFitTogether
PROPERTIES
  HistoryStands
  EveryStepCounts
  VetsAsPromised
  RunStops
