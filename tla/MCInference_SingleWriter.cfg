CONSTANTS
  Supported <- AllRoles
  Limit <- TwoCalls
  MaxCalls = 5
  MaxRetries = 1
  Fallback = FALSE
  Raises = TRUE
  MaxCycles = 1
  MaxCrashes = 0
SPECIFICATION Spec
CHECK_DEADLOCK FALSE
PROPERTY SingleWriter
