SPECIFICATION FairSpec

CONSTANTS
    c1 = c1
    c2 = c2
    c3 = c3
    Calls = {c1, c2, c3}
    Null = Null
    OrphanID = OrphanID
    FaultKinds = {}
    MaxFaults = 0
    MaxInFlight = 1
    PaymentPoolSize = 1
    KitchenPoolSize = 1

INVARIANT EventTrailIsComplete
PROPERTY EveryCallIsAnswered

CHECK_DEADLOCK FALSE
