SPECIFICATION FairCanarySpec
CONSTANTS
    Weights = {0, 10, 100}
    MaxFailures = 3
INVARIANTS
    CanaryTypeOK
    CanaryHasPods
PROPERTIES
    FaultyCanaryIsHeldBack
