-------------------------- MODULE MCInstanceTypes --------------------------
EXTENDS InstanceTypes, TLC

CONSTANT t1

OneNodeClass ==
    {[vSwitchZones |-> Zones, kubelet |-> "default", systemDisk |-> "40Gi"]}

\* Two NodeClasses that differ in their system disk only.
TwoDisks ==
    {[vSwitchZones |-> Zones, kubelet |-> "default", systemDisk |-> "40Gi"],
     [vSwitchZones |-> Zones, kubelet |-> "default", systemDisk |-> "200Gi"]}

\* The provider after its first refresh of the types and the offerings, with
\* the static price list still in use.
RefreshedInit ==
    /\ UnavailableInit
    /\ instanceTypesInfo = Types
    /\ instanceTypesSeqNum = 1
    /\ instanceTypesOfferings = Types \X Zones
    /\ spotInstanceTypesOfferings = Types \X Zones
    /\ instanceTypesOfferingsSeqNum = 1
    /\ onDemandPrices = StaticTypes
    /\ spotPrices = {}
    /\ spotPricingUpdated = FALSE
    /\ instanceTypesCache = {}
    /\ lists = [l \in Lister |-> NotListing]
    /\ updates = [u \in {"types", "offerings", "prices"} |-> 0]

RefreshedSpec == RefreshedInit /\ [][Next]_vars

\* The behaviours explored: one offering is marked, there are two refreshes of any
\* kinds, and marks and refreshes do not come together.
Window ==
    /\ \A o \in Offering :
          unavailable[o] # "absent" => o.type = t1 /\ o.cap = "spot"
    /\ updates["types"] + updates["offerings"] + updates["prices"] <= 2
    /\ \/ \A u \in DOMAIN updates : updates[u] = 0
       \/ seqNum = 0 /\ \A o \in Offering : unavailable[o] = "absent"

Symmetry == Permutations(Caller) \cup Permutations(Lister)

=============================================================================
