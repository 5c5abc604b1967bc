CONSTANTS
  End = 6
  Hour = 2
  Full = 2
  MaxPages = 3
  MaxPosts = 1
  Coins = {c1, c2}
  Venues = {v1, v2}
  Slots = 2
  SaveEvery = 2
  MaxRuns = 2
  Rates <- SpreadRates
  Hours = 5
  DayLen = 1
  MinHours = 3
  MinSpan = 4
  Interval = 2
  Span = 6
  Prices = {95, 100, 104, 106}
  SideBooks <- Sides
  Sizes = {300, 1000}
  Medians <- SixtyDays
  Hourlies <- PerHour
  GateSlip = 50
  GateSwing = 2
  MarkDev = 5
  Cap = 1000
  FundVenues = {"binance", "aster", "okx", "bybit", "bitget", "gate", "bingx", "hl", "dydx", "deribit", "htx", "kucoin", "backpack", "bitmex", "nado"}
  FundRates <- QuoteRates
  TrueIvs = {1, 4, 8}
  SeamBooks <- Orders
  SeamSizes = {150, 1000}
  RuleVenues = {"okx"}
  MaxOps = 2
  MaxCuts = 1
  SendVenues = {"okx", "mexc"}
  MaxSends = 1
  Perps = {"binance", "aster"}
  Spots = {"bybit", "bitget"}
  DeskRates <- RatesShown
  Taker <- Fees
  Marks = {100, 103}
  Hold = 5
  FloorRate = 1
  Keep = 3
  FeedCoins = {"inj", "xmr"}
  MaxDays = 2
  MaxPolls = 3
  Static <- TwoPairs
  Pinnable <- DeskPairs
  Hands = {"hand"}
  DeskWindow = "desk"
  MaxPaper = 1
  Freezable = {"okx"}
  FeeVenues = {"bingx", "okx", "aster"}
  Rwa = {"btc"}
  P0Books <- P0Starts
  Caps <- Depths
  NoCap <- Missing
  VenueCap <- Tiers
  MaxLev = 10
  MaxPin = 5
  PinTtl = 0
  Cooldown = 1
  Amort = 1
  MaxClock = 1
  MaxRows = 2
  Pairs = {"xmr"}
  Jobs = {j1, j2}
  MaxTime = 2
  MaxPos = 2
  MaxDumps = 1
  MaxWipes = 1
  Positions = {p1}
  MaxHours = 3
  MaxCopies = 1
  MaxLosses = 1
SPECIFICATION MCSpec
INVARIANT IntervalIsMedian
CHECK_DEADLOCK FALSE
