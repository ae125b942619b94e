SPECIFICATION Spec
CONSTANTS
    Rows = {1, 2}
    Relays = {l1, l2}
    BatchSize = 2
    Partitions = {p1}
    Consumers = {c1, c2}
    Nobody = Nobody
    NoMessage = NoMessage
    MaxRetries = 0
    MaxFailures = 1
    MaxRebalances = 1
CHECK_DEADLOCK FALSE
SYMMETRY Symmetry
INVARIANTS
    TypeOK
    BacklogMatchesTopic
    OncePerEventId
    UnsettledIsDelivered
