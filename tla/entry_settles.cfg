SPECIFICATION Spec
CONSTANTS
  Target = 2
  LeggingCap = 2
  MakerPatience = 3
  Cooldown = 4
  RepostMax = 2
  MaxGap = 2
  MaxCrashes = 0
  ShortViews <- AllShortViews
  LongViews <- LiveOnly
  ThinBooks = FALSE
  Clamps = TRUE
INVARIANT BalancedWhenUnclamped
PROPERTY EntrySettles
