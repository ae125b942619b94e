SPECIFICATION FairSpec
CONSTANTS
    Replicas = {r1, r2}
    EventIds = {"e1", "e2"}
    Topic <- MCTopic
    MAX_ATTEMPTS = 3
    MaxFailures = 3
CHECK_DEADLOCK FALSE
INVARIANTS
    TypeOK
    OffsetWaits
    CustomersAreTold
PROPERTIES
    EventuallySettled
