SPECIFICATION Spec
CONSTANTS
  Levels = 2
  Prices = {p1}
  NoOrder = NoOrder
  MaxInventory = 4
  OrderQuantity = 2
  MinQuantity = 1
  SideSkew = 50
  Unit = 4
  WarningTrend = 1
  SevereTrend = 3
  WarningFraction = 2
  SevereFraction = 0
  EntryTrend = 2
  MaxShift = 2
  NoProfile = NoProfile
  Policies <- AllPolicies
  Trends <- ScoresOfTwo
  Fundings <- RatesOfOne
INVARIANTS DecisionsPossible WorseTrendNeverAsksMore
PROPERTY SignThroughFlat
