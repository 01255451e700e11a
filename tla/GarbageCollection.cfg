SPECIFICATION FairSpec
CONSTANTS
    Instance = {i1}
    Caller <- Callers
    Expiration = 1
    Grace = 1
    Granularity = 0
    LaunchDelay = 1
    CollectDelay = 0
    MayPause = FALSE
    MaxCrashes = 1
INVARIANTS
    KnownInstancesAreSpared
    GraceCoversLaunches
PROPERTY OrphansAreCollected
