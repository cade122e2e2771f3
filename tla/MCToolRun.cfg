CONSTANTS
  None = None
  Sky <- MCSky
  Isolations = {"SUBPROCESS", "THREAD"}
  MaxLibrary = 2
  MaxCrashes = 2
SPECIFICATION FairSpec
CHECK_DEADLOCK FALSE
INVARIANTS
  TypeOK
  VerdictFollowsStar
  StagingIsCleared
PROPERTIES
  EvidenceStands
  ToolsEnd
