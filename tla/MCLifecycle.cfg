SPECIFICATION FairSpec
CONSTANTS
    Requests = {q1, q2}
    PoolSize = 2
    MaxTroubles = 2
INVARIANTS
    TypeOK
    EveryPartHasItsOthers
PROPERTIES
    BackInService
