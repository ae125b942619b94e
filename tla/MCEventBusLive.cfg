SPECIFICATION FairSpec
CONSTANTS
    Rows = {1}
    Relays = {l1, l2}
    BatchSize = 2
    Partitions = {p1}
    Consumers = {c1, c2}
    Nobody = Nobody
    NoMessage = NoMessage
    MaxRetries = 1
    MaxFailures = 1
    MaxRebalances = 1
CHECK_DEADLOCK FALSE
PROPERTIES
    EnqueuedIsSettled
