SPECIFICATION Spec
CONSTANTS
    Orders = {o1}
    Workers = {w1, w2}
    EventIds = {e1, e2}
    Emitted = {"payment.processed", "payment.failed", "payment.initiated", "no_order"}
    Nobody = Nobody
    NoEvent = NoEvent
    MaxRetries = 1
    MaxCrashes = 1
SYMMETRY Symmetry
CHECK_DEADLOCK FALSE
INVARIANTS
    TypeOK
    StockFollowsDecision
    OneOutcome
    NoLockCycle
    AckedIsHandled
PROPERTIES
    DecisionsAreFinal
    ImplementsContract
