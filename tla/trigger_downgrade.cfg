SPECIFICATION Spec
CONSTANTS
  Gap <- Gaps
  CompN = 3
  InvN = 2
  MaxCrashes = 0
  Operator = FALSE
  Listed = {FALSE}
CHECK_DEADLOCK FALSE
INVARIANT EventExitIsImmediate
