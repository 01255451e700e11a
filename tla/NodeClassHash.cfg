SPECIFICATION FairSpec
CONSTANTS
    Claim = {c1, c2}
    Content = {s1, s2}
    MaxEdits = 2
INVARIANTS
    NoClaimLeftBehind
    UpgradeCausesNoDrift
    DriftIsExact
    ChangesAreKept
PROPERTY HashSettles
CHECK_DEADLOCK FALSE
