SPECIFICATION Spec

CONSTANTS
    c1 = c1
    c2 = c2
    Calls = {c1, c2}
    Null = Null
    OrphanID = OrphanID
    FaultKinds = {}
    MaxFaults = 0
    MaxInFlight = 2
    PaymentPoolSize = 1
    KitchenPoolSize = 1

INVARIANT OwnOrderIsPublished

CHECK_DEADLOCK FALSE
