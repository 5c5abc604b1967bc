SPECIFICATION Spec
CONSTANTS
  basis = basis
  dated = dated
  Opps <- TwoOpps
  Dated <- OneDated
  Partly <- SellLeg
  Gtc <- BuyLeg
  Alloc = 2
  Equity = 9
  Buffer = 3
  RiskAt = 9
  StaleAfter = 0
  MaxMishaps = 1
  MaxAfter = 1
INVARIANTS
  VenueMatchesBooks
  NoCrossedExecutions
PROPERTY StaleIsUnwound
