SPECIFICATION FairSpec
CHECK_DEADLOCK FALSE
CONSTANTS
    t1 = t1
    z1 = z1
    n2 = n2
    Types = {t1}
    Zones = {z1}
    Caller = {"interruption"}
    MaxSeqNum = 12
    Node = {n1, n2}
    NodeOffering <- OneUnlabelled
    MaxEvents = 1
    MaxFailures = 1
INVARIANTS
    MarkedBeforeDeleted
    InterruptionsAreKept
PROPERTY InterruptedAreDeleted
