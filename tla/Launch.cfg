SPECIFICATION MCSpec
CONSTANTS
    t1 = t1
    t2 = t2
    t3 = t3
    z1 = z1
    z2 = z2
    InstanceType = {t1, t2, t3}
    Exotics <- NoneOrOne
    Zone = {z1, z2}
    OnDemandPrice <- OnDemand
    SpotPricings <- Spot
    MaxFloat64 = 4
    MaxInstanceTypes = 2
    ZoneRequirements <- OneOrBothZones
CHECK_DEADLOCK FALSE
INVARIANTS
    LaunchIsPossible
    SpotZoneIsCheapest
    RefusedTypesAreLeftOut
