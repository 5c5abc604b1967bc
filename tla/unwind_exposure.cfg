SPECIFICATION Spec
CONSTANTS
  Entry <- ThreeLots
  Close <- TwoLots
  MakerLegs <- OneMaker
  Patience = 1
  ZeroTicks = 3
  BookViews <- LiveOnly
  Slip = 0
  MaxGap = 1
  MaxCrashes = 1
CHECK_DEADLOCK FALSE
PROPERTIES
  UnwindCompletes
  ExposureIsUnwound
