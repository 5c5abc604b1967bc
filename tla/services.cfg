CONSTANTS
  Ids = {s1, s2, s3, s4}
  Chains = {entry}
  Names = {XMR, UAI, BTW}
  MaxFaults = 3
  aster = aster
  binance = binance
  Legs <- HeldLegs
  Candidate <- SharedLeg
  Fresh = 1
  Stale = 2
  Day = 3
  Ttl = 3
  MaxChanges = 1
  MaxCrashes = 1
SPECIFICATION MCSpec
INVARIANTS
  SessionsAreHandedOver
  PassMeansAllSix
  NoMissedDelisting
  NoSilentChange
PROPERTIES
  DelistingIsReported
  KillWithinTheHour
  ChangeShutsVenue
CHECK_DEADLOCK FALSE
