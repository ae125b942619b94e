SPECIFICATION FairSpec
CONSTANTS
    Readers = {r1, r2}
    MaxVersion = 3
    MaxFailures = 2
INVARIANTS
    TypeOK
    StaleEntryIsInvalidated
PROPERTIES
    CacheCatchesUp
