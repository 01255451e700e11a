------------------------------- MODULE Launch -------------------------------
(***************************************************************************)
(* What a NodeClaim is launched as: CloudProvider.Create, which resolves   *)
(* the instance types, and instance.DefaultProvider.Create, which filters  *)
(* them, chooses a capacity type and a vSwitch for each type, asks for an  *)
(* auto provisioning group and interprets the response                     *)
(* (pkg/providers/instance/instance.go).  A launch that finds no stock     *)
(* marks its offerings unavailable and is tried again.                     *)
(***************************************************************************)
EXTENDS Naturals, FiniteSets, FiniteSetsExt, Functions

CONSTANTS
    InstanceType,
    Exotics,        \* which types may be bare metal or have GPUs: a set of sets
    Zone,
    OnDemandPrice,  \* the on-demand prices, of the types that have one
    SpotPricings,   \* what the spot prices may be: of some types in some zones
    MaxFloat64,     \* more than any price
    MaxInstanceTypes,
    ZoneRequirements\* the sets of zones a NodeClaim may require

Prices == 0 .. MaxFloat64 - 1

ASSUME PriceAssumption ==
    /\ MaxFloat64 \in Nat
    /\ DOMAIN OnDemandPrice \subseteq InstanceType
    /\ \A t \in DOMAIN OnDemandPrice : OnDemandPrice[t] \in Prices
    /\ \A p \in SpotPricings : /\ DOMAIN p \subseteq InstanceType \X Zone
                              /\ \A c \in DOMAIN p : p[c] \in Prices

ASSUME SizeAssumption ==
    /\ IsFiniteSet(InstanceType) /\ IsFiniteSet(Zone)
    /\ MaxInstanceTypes \in Nat \ {0}

CapacityTypes == {"on-demand", "spot"}

\* An offering is identified by its type, zone and capacity type.
Offering == InstanceType \X Zone \X CapacityTypes

VARIABLES
    pc,
    claim,          \* the requirements of the NodeClaim
    vSwitchZones,   \* the zones of the NodeClass's vSwitches
    policy,         \* its vSwitchSelectionPolicy
    exotic,         \* the types that are bare metal or have GPUs
    spotPrice,
    available,      \* the offerings that are available
    refused,        \* history: those that ECS named as out of stock and are marked since
    types,          \* instanceTypes, as resolved and then filtered
    capacityType,
    request,        \* LaunchTemplateConfig: a type and the zone of its vSwitch
    result          \* what Create returned

inputs == <<claim, vSwitchZones, policy, exotic, spotPrice>>

vars == <<pc, inputs, available, refused, types, capacityType, request, result>>

Claim == [zones : ZoneRequirements, capacity : SUBSET CapacityTypes \ {{}}, minValues : BOOLEAN]

Config == InstanceType \X Zone

TypeOK ==
    /\ pc \in {"resolve", "filter", "truncate", "capacity", "request", "respond", "done"}
    /\ claim \in Claim
    /\ vSwitchZones \in SUBSET Zone
    /\ policy \in {"balanced", "cheapest"}
    /\ exotic \in Exotics
    /\ spotPrice \in SpotPricings
    /\ available \in SUBSET Offering
    /\ refused \in SUBSET Offering
    /\ types \in SUBSET InstanceType
    /\ capacityType \in CapacityTypes
    /\ request \in SUBSET Config
    /\ result \in {"none", "instance", "insufficient capacity", "error"}

\* createOfferings: an offering exists only if it has a price.
Offered(o) == IF o[3] = "spot" THEN <<o[1], o[2]>> \in DOMAIN spotPrice
              ELSE o[1] \in DOMAIN OnDemandPrice

\* An offering is available only where the NodeClass has a vSwitch.
Offerable == {o \in Offering : Offered(o) /\ o[2] \in vSwitchZones}

Init ==
    /\ pc = "resolve"
    /\ claim \in Claim
    /\ vSwitchZones \in SUBSET Zone \ {{}}
    /\ policy \in {"balanced", "cheapest"}
    /\ exotic \in Exotics
    /\ spotPrice \in SpotPricings
    /\ available \in SUBSET Offerable
    /\ refused = {}
    /\ types = {} /\ capacityType = "on-demand" /\ request = {}
    /\ result = "none"

Price(o) == IF o[3] = "spot" THEN spotPrice[<<o[1], o[2]>>] ELSE OnDemandPrice[o[1]]

\* Offerings that the requirements of the NodeClaim allow.
Compatible(o) == o[2] \in claim.zones /\ o[3] \in claim.capacity

OfType(t) == {o \in Offering : o[1] = t}

\* Create returns; its local variables are gone.
Return(r) ==
    /\ pc' = "done" /\ result' = r
    /\ types' = {} /\ capacityType' = "on-demand" /\ request' = {}

-----------------------------------------------------------------------------
\* resolveInstanceTypes: the types with an available, compatible offering.
ResolveInstanceTypes ==
    LET resolved == {t \in InstanceType : \E o \in OfType(t) \cap available : Compatible(o)} IN
    /\ pc = "resolve"
    /\ IF resolved = {} THEN Return("insufficient capacity")
       ELSE pc' = "filter" /\ types' = resolved /\ UNCHANGED <<capacityType, request, result>>
    /\ UNCHANGED <<inputs, available, refused>>

\* The NodeClass is not ready, or the instance types cannot be listed.
ResolveFails ==
    /\ pc = "resolve"
    /\ Return("error")
    /\ UNCHANGED <<inputs, available, refused>>

\* The rate limiter's wait is cancelled.
RateLimited ==
    /\ pc = "filter"
    /\ Return("error")
    /\ UNCHANGED <<inputs, available, refused>>

\* filterExoticInstanceTypes: ordinary types are preferred, if there are any.
FilterExotic(ts) == IF ts \subseteq exotic THEN ts ELSE ts \ exotic

\* isMixedCapacityLaunch: spot and on-demand are allowed, and both are on offer.
IsMixedCapacityLaunch(ts) ==
    /\ claim.capacity = CapacityTypes
    /\ \A c \in CapacityTypes :
          \E o \in available : o[1] \in ts /\ o[3] = c /\ Compatible(o)

CheapestOf(offerings) == Min({Price(o) : o \in offerings})

FilterUnwantedSpotStrict(ts) ==
    LET onDemand == {o \in available : o[1] \in ts /\ o[3] = "on-demand"} IN
    {t \in ts : OfType(t) \cap available # {}
                   /\ CheapestOf(OfType(t) \cap available) < CheapestOf(onDemand)}

\* filterUnwantedSpot: types whose cheapest offering costs more than the cheapest
\* on-demand one go, whatever zones the NodeClaim requires.
FilterUnwantedSpot(ts) ==
    LET onDemand == {o \in available : o[1] \in ts /\ o[3] = "on-demand"} IN
    {t \in ts : OfType(t) \cap available # {}
                   /\ CheapestOf(OfType(t) \cap available) <= CheapestOf(onDemand)}

\* filterInstanceTypes, which Create leaves out if a requirement has minValues.
FilterInstanceTypes ==
    LET generic == FilterExotic(types) IN
    /\ pc = "filter"
    /\ types' = IF claim.minValues THEN types
                ELSE IF IsMixedCapacityLaunch(generic) THEN FilterUnwantedSpot(generic)
                ELSE generic
    /\ pc' = "truncate"
    /\ UNCHANGED <<inputs, available, refused, capacityType, request, result>>

\* OrderByPrice ranks a type by its cheapest available compatible offering.
LaunchPrice(t) ==
    LET offerings == {o \in OfType(t) \cap available : Compatible(o)} IN
    IF offerings = {} THEN MaxFloat64 ELSE CheapestOf(offerings)

\* Truncate keeps the cheapest maxInstanceTypes types, or all if there are no more;
\* which of equally dear ones, by name, is left open.
Truncate(kept) ==
    /\ pc = "truncate"
    /\ kept \subseteq types
    /\ IF Cardinality(types) <= MaxInstanceTypes THEN kept = types
       ELSE Cardinality(kept) = MaxInstanceTypes
    /\ \A t \in kept, u \in types \ kept : LaunchPrice(t) <= LaunchPrice(u)
    /\ types' = kept
    /\ pc' = "capacity"
    /\ UNCHANGED <<inputs, available, refused, capacityType, request, result>>

\* What Truncate leaves does not satisfy the minValues.
TruncateFails ==
    /\ pc = "truncate"
    /\ claim.minValues
    /\ Return("error")
    /\ UNCHANGED <<inputs, available, refused>>

\* getCapacityType: spot if it is allowed and on offer, on-demand otherwise.
GetCapacityType ==
    LET spot == \E o \in available : o[1] \in types /\ o[3] = "spot" /\ Compatible(o) IN
    /\ pc = "capacity"
    /\ capacityType' = IF spot THEN "spot" ELSE "on-demand"
    /\ pc' = "request"
    /\ UNCHANGED <<inputs, available, refused, types, request, result>>

-----------------------------------------------------------------------------
KeepCheaperStale(best, o) ==
    IF Offered(o) /\ o[3] = capacityType /\ o[2] \in claim.zones \cap vSwitchZones
          /\ Price(o) < best.price
    THEN [best EXCEPT !.zone = {o[2]}] ELSE best

\* An offering in the loop of getVSwitchID: it takes the place of the best so far
\* if it is compatible, its zone has a vSwitch and it is cheaper.
KeepCheaper(best, o) ==
    IF Offered(o) /\ o[3] = capacityType /\ o[2] \in claim.zones \cap vSwitchZones
          /\ Price(o) < best.price
    THEN [zone |-> {o[2]}, price |-> Price(o)] ELSE best

\* The offerings of a type in a zone: createOfferings puts on-demand before spot.
KeepZone(best, t, z) ==
    KeepCheaper(KeepCheaper(best, <<t, z, "on-demand">>), <<t, z, "spot">>)

Untaken == [zone |-> {}, price |-> MaxFloat64]

\* The loop over the offerings, zone by zone, after n zones.
CheapestAfter(t, zones) ==
    LET best[n \in 0 .. Cardinality(Zone)] ==
            IF n = 0 THEN Untaken ELSE KeepZone(best[n - 1], t, zones[n])
    IN best

\* cheapestVSwitchID in the end, by its zone; empty if no offering was taken.
CheapestVSwitch(t, zones) == CheapestAfter(t, zones)[Cardinality(Zone)].zone

\* The zones come from a set, in any order.
ZoneOrders == {zones \in [1 .. Cardinality(Zone) -> Zone] : Range(zones) = Zone}

\* getVSwitchID: the zones whose vSwitch a type may get.  On-demand and with the
\* balanced policy it is a random zone's; otherwise what the loop comes to.
GetVSwitchID(t) ==
    IF (capacityType = "on-demand" \/ policy = "balanced") /\ vSwitchZones # {}
    THEN vSwitchZones
    ELSE UNION {CheapestVSwitch(t, zones) : zones \in ZoneOrders}

\* FilterInstanceTypesBySystemDisk: the types ECS offers the NodeClass's system disk
\* for; a type it fails to answer for is left out.
FilterInstanceTypesBySystemDisk(disks) == types \cap disks

\* getProvisioningGroup: a configuration for every type that gets a vSwitch.
GetProvisioningGroup(disks) ==
    LET fit == {t \in FilterInstanceTypesBySystemDisk(disks) : GetVSwitchID(t) # {}} IN
    /\ pc = "request"
    /\ IF fit = {}
       THEN Return("error")
       ELSE /\ \E zone \in [fit -> Zone] :
                  /\ \A t \in fit : zone[t] \in GetVSwitchID(t)
                  /\ request' = {<<t, zone[t]>> : t \in fit}
            /\ pc' = "respond"
            /\ UNCHANGED <<types, capacityType, result>>
    /\ UNCHANGED <<inputs, available, refused>>

\* The zonal vSwitches, the node register script or the image of the first type are
\* not to be had.
GetProvisioningGroupFails ==
    /\ pc = "request"
    /\ Return("error")
    /\ UNCHANGED <<inputs, available, refused>>

\* CreateAutoProvisioningGroup fails as a whole, or answers without results.
ProvisioningFails ==
    /\ pc = "respond"
    /\ Return("error")
    /\ UNCHANGED <<inputs, available, refused>>

\* The offerings of some configurations.
Asked(configs) == {<<c[1], c[2], capacityType>> : c \in configs}

MarkOnDemand(named) == available \ {<<c[1], c[2], "on-demand">> : c \in named}

\* updateUnavailableOfferingsCache: every result without stock that names its type
\* and its zone is marked.
Mark(named) == available \ Asked(named)

\* The response: ECS launches at most one of the configurations (ok), and says of
\* others that they had no stock; named are those of them it gives type and zone of.
\* createAutoProvisioningGroupResponseHandler looks at the status code and then at
\* the first result only.
Respond(statusOK, first, ok, noStock, named) ==
    /\ pc = "respond"
    /\ available' = Mark(named)
    /\ refused' = refused \cup Asked(named)
    /\ Return(IF ~statusOK THEN "error"
              ELSE IF first \in noStock THEN "insufficient capacity"
              ELSE IF first \in ok THEN "instance" ELSE "error")
    /\ UNCHANGED inputs

\* The core deletes the NodeClaim, or calls Create again: the next launch of the
\* same pods has the same requirements.
Again ==
    /\ pc = "done"
    /\ result # "instance"
    /\ pc' = "resolve"
    /\ result' = "none"
    /\ UNCHANGED <<inputs, available, refused, types, capacityType, request>>

\* A launch works with the offerings as they were when it resolved the types; what
\* changes meanwhile is seen by the next one.  A mark runs out.
MarkExpires(o) ==
    /\ pc = "done"
    /\ o \in refused
    /\ refused' = refused \ {o}
    /\ available' = available \cup ({o} \cap Offerable)
    /\ UNCHANGED <<pc, inputs, types, capacityType, request, result>>

\* Another launch finds an offering without stock.
MarkedElsewhere(o) ==
    /\ pc = "done"
    /\ o \in available
    /\ refused' = refused \cup {o}
    /\ available' = available \ {o}
    /\ UNCHANGED <<pc, inputs, types, capacityType, request, result>>

Next ==
    \/ ResolveInstanceTypes \/ ResolveFails \/ RateLimited \/ FilterInstanceTypes
    \/ \E kept \in SUBSET types : Truncate(kept)
    \/ TruncateFails \/ GetCapacityType
    \/ \E disks \in SUBSET types : GetProvisioningGroup(disks)
    \/ GetProvisioningGroupFails \/ ProvisioningFails
    \/ \E statusOK \in BOOLEAN, first \in request, ok \in {{}} \cup {{c} : c \in request} :
          \E noStock \in SUBSET (request \ ok) : \E named \in SUBSET noStock :
             Respond(statusOK, first, ok, noStock, named)
    \/ Again
    \/ \E o \in Offering : MarkExpires(o) \/ MarkedElsewhere(o)

Spec == Init /\ [][Next]_vars

-----------------------------------------------------------------------------
\* The filters never filter a launch away: as long as some type was resolved, a
\* type is left when the request is made that has an available offering, in the
\* zones of the NodeClaim, of the capacity type that was chosen, which is one the
\* NodeClaim allows (filterInstanceTypes, filterUnwantedSpot, getCapacityType).
LaunchIsPossible ==
    pc = "request" =>
        \E o \in available : o[1] \in types /\ o[3] = capacityType /\ Compatible(o)

\* A spot instance goes, unless the policy is balanced, into a zone that the
\* NodeClaim allows, has a vSwitch and a price, and is no dearer than any other such
\* zone, whatever order the offerings are in (the loop of getVSwitchID).
SpotZoneIsCheapest ==
    pc = "respond" /\ capacityType = "spot" /\ policy = "cheapest" =>
        \A c \in request :
            /\ c[2] \in claim.zones \cap vSwitchZones
            /\ c \in DOMAIN spotPrice
            /\ \A z \in claim.zones \cap vSwitchZones :
                  <<c[1], z>> \in DOMAIN spotPrice => spotPrice[c] <= spotPrice[<<c[1], z>>]

\* A retry heeds what earlier launches were told of missing stock: a type whose every
\* offering that the NodeClaim allows has been refused is not asked for again while
\* the marks last, and a capacity type that has been refused for all types left is
\* given up for the other (updateUnavailableOfferingsCache, resolveInstanceTypes,
\* getCapacityType).  It is not promised that the zone asked for is one with stock:
\* getVSwitchID does not look at the marks.
RefusedTypesAreLeftOut ==
    pc = "respond" =>
        /\ \A c \in request : \E o \in OfType(c[1]) : Offered(o) /\ Compatible(o) /\ o \notin refused
        /\ \E o \in Offering : /\ o[1] \in types /\ o[3] = capacityType
                             /\ Offered(o) /\ Compatible(o) /\ o \notin refused

\* Create launches "a NodeClaim given the constraints": what is asked for is in
\* a zone that the NodeClaim allows.
ZoneRequirementHolds ==
    pc = "respond" => \A c \in request : c[2] \in claim.zones

=============================================================================
