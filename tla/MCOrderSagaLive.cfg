SPECIFICATION FairSpec
CONSTANTS
    Orders = {o1}
    Workers = {w1, w2}
    EventIds = {e1, e2}
    Emitted = {"payment.processed", "payment.failed"}
    Nobody = Nobody
    NoEvent = NoEvent
    MaxRetries = 0
    MaxCrashes = 1
CHECK_DEADLOCK FALSE
PROPERTIES
    EveryEventSettles
    ResultDecidesOrder
