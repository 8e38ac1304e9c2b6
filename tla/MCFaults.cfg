SPECIFICATION Spec

CONSTANTS
    c1 = c1
    Calls = {c1}
    Null = Null
    OrphanID = OrphanID
    FaultKinds = {"crash", "lost_record", "repeated_record", "refused_insert"}
    MaxFaults = 1
    MaxInFlight = 1
    PaymentPoolSize = 1
    KitchenPoolSize = 1

INVARIANT ApprovedIsPaidAndCooked
INVARIANT RejectedIsDeniedOrRefunded
INVARIANT EverythingHasItsCause
PROPERTY KeepsPromise

CHECK_DEADLOCK FALSE
