CONSTANTS
  Baseline = {1, 2}
  Adaptive = {3, 4, 5}
  Search = 1
  Cost <- MCCost
  Needs <- MCNeeds
  Outcomes <- MCOutcomes
  Sizes = {1, 3}
  Frame <- MCFrame
  Ceiling = 10
  RecentLimit = 2
  Promoted = TRUE
  Stop = Stop
  None = None
  MaxTools = 4
  MaxAdaptive = 3
  MaxCost = 3
  MaxRevisions = 1
SPECIFICATION Spec
CHECK_DEADLOCK FALSE
INVARIANTS
  TypeOK
  PacketShowsTheCase
  MenuIsHonest
