SPECIFICATION TaggingSpec
SYMMETRY Symmetry
CONSTANTS
    Instance = {i1}
    Caller <- Callers
    Expiration = 1
    Tag = {name, nodeClaim}
INVARIANTS
    DeleteNeverSeesPending
    AnnotatedIsTagged
