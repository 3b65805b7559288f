SPECIFICATION Spec
CONSTANTS
  Levels = 1
  Prices = {p}
  p = p
  NoOrder = NoOrder
  MaxAbsPosition = 2
  MaxOpenOrders = 2
  MaxQty = 2
  Hour = 2
  MaxTime = 3
  MaxEvents = 4
INVARIANTS FillsAreTrusted LatestExecutionsKept FundingFollowsFills
CHECK_DEADLOCK FALSE
