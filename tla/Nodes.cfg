SPECIFICATION Spec
CONSTANTS
    Group = {g1, g2}
    Matches <- TwoTerms
    Node = {n1}
    MaxEdits = 3
    DiskType = {d1, d2}
    Category = {essd, ssd}
    Nil = Nil
    IntLimit = 4096
    TypeQuestions <- SomeTypes
    PoolQuestions <- UpToThreePools
INVARIANTS
    NoDriftWithoutChange
    UnregisteredKeepsTaint
    FilterIsExact
    TypesLeaveRoom
    PoolsAreRanked
PROPERTIES
    OthersTaintsStay
    TaintGoes
    TaintsAreAtomic
