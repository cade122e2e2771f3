CONSTANTS
  Baseline = {1, 2}
  Adaptive = {3, 4}
  Search = 1
  NeedsCandidate = {2, 3}
  Cost <- MCCost
  Outcomes <- MCOutcomes
  Stop = Stop
  None = None
  MaxSteps = 5
  MaxTools = 4
  MaxAdaptive = 2
  MaxCost = 3
  MaxRevisions = 1
  MaxCrashes = 1
SPECIFICATION Spec
CHECK_DEADLOCK FALSE
INVARIANT CompletedIsNotReselected
