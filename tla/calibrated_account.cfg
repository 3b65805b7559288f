SPECIFICATION Spec
CONSTANTS
  p1 = p1
  p2 = p2
  Prices = {p1, p2}
  NoOrder = NoOrder
  NoProfile = NoProfile
  Unready = Unready
  Levels = 2
  MinQuantity = 1
  SideSkew = 100
  Unit = 4
  WarningTrend = 2
  SevereTrend = 3
  WarningFraction = 2
  SevereFraction = 0
  EntryTrend = 3
  MaxShift = 2
  MaxOpenOrders = 4
  ActiveFeatures <- AllStages
  UsesOrderBook = TRUE
  BaseLongPart = 2
  MaxShortPart = 4
  LotPart = 1
  SpacingUnits = 1
  MaxSpacingUnits = 2
  Equity = 12
  MarginNotional = 12
  VenueQuantity = 6
  NotionalPart = 4
  LossPart = 1
  VolatilityFloor = 1
  Markets <- AllMarkets
  MaxGeneration = 3
INVARIANTS PreparedIsDecidable CurrentLadderRebuilds
PROPERTY AppliedWithWholeLadder
CHECK_DEADLOCK FALSE
