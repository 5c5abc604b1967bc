SPECIFICATION Spec
CONSTANTS
  Entry <- ThreeLots
  Close <- TwoLots
  MakerLegs <- OneMaker
  Patience = 1
  ZeroTicks = 3
  BookViews <- AllBooks
  Slip = 1
  MaxGap = 1
  MaxCrashes = 1
CHECK_DEADLOCK FALSE
INVARIANTS
  ExitWithinEntry
  ClosedIsFlat
