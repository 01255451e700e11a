SPECIFICATION Spec
CONSTANTS
    t1 = t1
    Types = {t1}
    Zones = {z1}
    Caller = {}
    Lister = {l1}
    StaticTypes = {t1}
    MaxSeqNum = 0
    MaxUpdates = 1
    NodeClass <- TwoDisks
INVARIANT SystemDiskIsTheCallers
