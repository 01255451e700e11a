SPECIFICATION FairSpec
CONSTANTS
    Kind = {vSwitches}
    Content = {s1, s2}
    Claim = {c1}
INVARIANTS
    TypeOK
PROPERTIES
    FinalizerKeepsPromise
    StatusIsOfTheSpec
    StatusCatchesUp
    DeletionCompletes
