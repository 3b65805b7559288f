SPECIFICATION DatasetSpec
CONSTANTS
    MaxPrice = 3
    MaxQuantity = 1
    Depth = 1
    MaxSnapshots = 5
    Hour = 3
    MaxTime = 3
    Micro = 1
    Events <- EveryEvent
    Manifests <- Demanding
    Samples = {1, 2}
    Intervals <- EveryInterval
    MaxEvents = 3
    MaxFrames = 2
INVARIANTS InsideIsTrue TrustedOrderPrices ReplayUncrossed
INVARIANTS FutureIsSilent SamplesGivenOnce WindowKeepsTheAudit
PROPERTY ImplementsQueueEpochs
CHECK_DEADLOCK FALSE
