CONSTANTS
  Supported <- SomeRoles
  Limit <- TwoCalls
  MaxCalls = 12
  MaxRetries = 1
  Fallback = TRUE
  Raises = TRUE
  MaxCycles = 2
  MaxCrashes = 2
SPECIFICATION Spec
CHECK_DEADLOCK FALSE
INVARIANTS
  TypeOK
  CallsAreTraced
  AnswersInOrder
  AttemptsBounded
PROPERTIES
  QuietWhenClosed
