SPECIFICATION Spec
CONSTANTS
  Levels = 2
  Prices <- LadderPrices
  NoOrder = NoOrder
  MaxAbsPosition = 3
  MaxOpenOrders = 4
  MaxInventory = 3
  OrderQuantity = 2
  MinQuantity = 1
  SideSkew = 100
  References = {1, 2}
  Positions <- BothSides
  Whole = 10
  Tick = 10
  GridQuantity = 1
  GridSpacing = 1
  MinNotional = 8
  Threshold = 1
  MaxStep = 2
  MinSpacing = 1
  MaxSpacing = 3
  CostFloor = 1
  Mids = {30, 80, 100, 120}
  Volatilities = {0, 2, 4}
  LongPositions = {0, 2, 3}
  Runners <- EveryRunner
  MaxMoves = 3
  MaxSubmits = 100
INVARIANTS BooksBalance DeployedWhole
PROPERTY CommitsReachBook
CHECK_DEADLOCK FALSE
