SPECIFICATION Spec
CONSTANTS
  Target = 2
  LeggingCap = 2
  MakerPatience = 3
  Cooldown = 4
  RepostMax = 2
  MaxGap = 2
  MaxCrashes = 2
  ShortViews <- AllShortViews
  LongViews <- AllLongViews
  ThinBooks = TRUE
  Clamps = TRUE
INVARIANTS
  LongOnceWithoutCrash
PROPERTIES
  CapNeverExtended
  ImplementsHedgedEntry
