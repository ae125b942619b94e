SPECIFICATION FairSpec
CONSTANTS
    FailureThreshold = 2
    Clients = {c1, c2}
    Burst = 1
    MaxClients = 1
    MinEvict = 1
    MaxAttempts = 2
    TroubleKinds = {"refusal", "fault", "leave"}
    MaxTroubles = 3
INVARIANTS
    TypeOK
    TrippedByTroubles
    LimitHolds
PROPERTIES
    BreakersRecover
