SPECIFICATION Spec
SYMMETRY Symmetry
CONSTANTS
    va = va
    vb = vb
    z1 = z1
    small = small
    large = large
    None = None
    Zone = {z1}
    Zones <- OneZone
    StatusVSwitches <- InStatus
    Terms <- TwoTerms
    InstanceType = {small, large}
    Pods <- PodsOfTypes
    Launch = {l1, l2}
    MaxIPs = 2
INVARIANT EveryDeductionCounts
PROPERTY ZonalChoiceIsBest
