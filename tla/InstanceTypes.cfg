SPECIFICATION RefreshedSpec
SYMMETRY Symmetry
CONSTRAINT Window
CONSTANTS
    t1 = t1
    Types = {t1, t2}
    Zones = {z1}
    Caller = {c1, c2}
    Lister = {l1}
    StaticTypes = {t1, t2}
    MaxSeqNum = 3
    MaxUpdates = 2
    NodeClass <- OneNodeClass
INVARIANTS
    MarkedOfferingsStayHidden
    EvictedOfferingsComeBack
    TypesAreCurrent
    OnDemandStockIsCurrent
PROPERTY ListsAreRegular
