SPECIFICATION Spec
CONSTANTS
  Levels = 1
  Prices = {p1}
  NoOrder = NoOrder
  MaxAbsPosition = 2
  MaxOpenOrders = 2
  MaxInventory = 2
  OrderQuantity = 2
  MinQuantity = 1
  SideSkew = 0
  NoObs = NoObs
  NoTransition = NoTransition
  StartPositions <- FromFlat
  OthersOpen = {0}
  MaxEvents = 4
PROPERTY ReverseFromFlat
