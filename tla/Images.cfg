SPECIFICATION ImagesSpec
SYMMETRY Symmetry
CONSTANTS
    alias = alias
    a = a
    b = b
    c = c
    x86 = x86
    arm = arm
    n1 = n1
    n2 = n2
    NodeClass = {n1, n2}
    Term = {alias, a, b, c}
    Resolved <- ResolvedImages
    Specs <- SelectorTerms
    VersionTTL = 2
    ImageTTL = 1
    ListDelay = 1
    MaxVersion = 1
INVARIANTS
    OneImagePerArch
    ImagesAreOfTheTerms
    ImagesFollowUpgrades
