SPECIFICATION FairSpec
CONSTANTS
  Levels = 2
  Prices = {p1}
  NoOrder = NoOrder
  MaxAbsPosition = 3
  MaxOpenOrders = 4
  MaxInventory = 4
  OrderQuantity = 3
  MinQuantity = 1
  SideSkew = 100
  NoObs = NoObs
  NoTransition = NoTransition
  StartPositions <- AtLimits
  OthersOpen = {0, 3}
  MaxEvents = 3
INVARIANTS OneGeneration ExposureBounded ReduceOnlyCovered
PROPERTIES CommitMatchesBook NoSmuggledCommit RiskClearedEntry DecisionsReverseFromFlat RaisesOnlyAfterRefusal SettlesOrBlocks ImplementsQuoteBook
