SPECIFICATION FairSpec

CONSTANTS
    c1 = c1
    c2 = c2
    Calls = {c1, c2}
    Null = Null
    OrphanID = OrphanID
    FaultKinds = {}
    MaxFaults = 0
    MaxInFlight = 2
    PaymentPoolSize = 2
    KitchenPoolSize = 1

INVARIANT TypeOK
INVARIANT MoneyMatchesOutcome
INVARIANT OneStepAtATime
INVARIANT LogMatchesTopics
INVARIANT AnswerFollowsFinalize
INVARIANT SameOrderThroughoutSaga
PROPERTY PublishedCallIsAnswered
PROPERTY OpenSagaCloses

CHECK_DEADLOCK FALSE
