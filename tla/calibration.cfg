SPECIFICATION Spec
CONSTANTS
    Mids = {0, 1}
    Rates = {"r"}
    Labels <- MCLabels
    Interval = 2
    Tolerance = 1
    LabelHorizon = 1
    VolatilityWindow = 3
    MinReturns = 2
    TrendHorizon = 1
    FundingWindow = 2
    OfiWindow = 2
    MaxTime = 5
INVARIANTS
    WindowIsLatest
    HistoriesAreRecent
    LockStep
    TrendSpansHorizon
CHECK_DEADLOCK FALSE
