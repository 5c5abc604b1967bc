SPECIFICATION Spec
CONSTANTS
  Gap <- Gaps
  CompN = 3
  InvN = 2
  MaxCrashes = 1
  Operator = TRUE
  Listed = {FALSE}
CHECK_DEADLOCK FALSE
INVARIANTS
  StreaksAreEarned
PROPERTIES
  CompressionUnwinds
