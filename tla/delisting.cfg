SPECIFICATION Spec
CONSTANTS
  Gap <- Gaps
  CompN = 3
  InvN = 2
  MaxCrashes = 0
  Operator = FALSE
  Listed = {FALSE, TRUE}
CHECK_DEADLOCK FALSE
PROPERTY DelistingUnwinds
