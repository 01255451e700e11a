---------------------------- MODULE InstanceTypes ----------------------------
(***************************************************************************)
(* The instance type provider (pkg/providers/instancetype/instancetype.go) *)
(* on top of the unavailable offerings: the data its two refreshers         *)
(* replace, the cache of fully built instance types, and concurrent calls  *)
(* of List that read the key, look it up, and on a miss build the result   *)
(* one offering at a time before they store it.                            *)
(***************************************************************************)
EXTENDS UnavailableOfferings

CONSTANTS
    Lister,     \* goroutines that call List
    NodeClass,  \* [vSwitchZones, kubelet, systemDisk]: what List is passed
    StaticTypes,\* types with a price in the static price list of the region
    MaxUpdates  \* bound: refreshes of each kind that change something

ASSUME NodeClassAssumption ==
    \A nc \in NodeClass : nc.vSwitchZones \in SUBSET Zones

ASSUME StaticTypesAssumption == StaticTypes \in SUBSET Types

ASSUME MaxUpdatesAssumption == MaxUpdates \in Nat

VARIABLES
    instanceTypesInfo,          \* the types ECS described, CNI filter applied
    instanceTypesSeqNum,
    instanceTypesOfferings,     \* on-demand <<type, zone>> pairs with stock
    spotInstanceTypesOfferings, \* spot <<type, zone>> pairs with stock
    instanceTypesOfferingsSeqNum,
    onDemandPrices,             \* types with an on-demand price
    spotPrices,                 \* <<type, zone>> pairs with a zonal spot price
    spotPricingUpdated,
    instanceTypesCache,         \* set of [key, result] with distinct keys
    lists,                      \* the step each call of List is at
    updates                     \* refreshes that changed something so far

dataVars == <<instanceTypesInfo, instanceTypesSeqNum, instanceTypesOfferings,
              spotInstanceTypesOfferings, instanceTypesOfferingsSeqNum>>

priceVars == <<onDemandPrices, spotPrices, spotPricingUpdated>>

vars == <<unavailableVars, dataVars, priceVars, instanceTypesCache, lists, updates>>

\* The fields of the cache key, in the order they are formatted.
Key == [types : Nat, offerings : Nat, unavailable : Nat,
        zones : SUBSET Zones, kubelet : {nc.kubelet : nc \in NodeClass}]

\* A list of instance types, as far as availability goes: the types, the
\* system disk their ephemeral storage is computed from, the offerings
\* created in a usable zone, and those created and found unavailable.  An
\* offering is Available when it is in base \ hidden.
Result == [types : SUBSET Types,
           systemDisk : {nc.systemDisk : nc \in NodeClass},
           base : SUBSET Offering,
           hidden : SUBSET Offering]

Available(r) == r.base \ r.hidden

NotListing == [pc |-> "idle"]

Listing(nc, key, before) ==
    [pc |-> "lookup", nodeClass |-> nc, key |-> key, before |-> before]

ListState ==
    {NotListing}
    \cup [pc : {"lookup"}, nodeClass : NodeClass, key : Key,
          before : [Offering -> Settlement]]
    \cup [pc : {"build"}, nodeClass : NodeClass, key : Key,
          before : [Offering -> Settlement],
          todo : SUBSET Offering, result : Result]
    \cup [pc : {"done"}, nodeClass : NodeClass, key : Key,
          before : [Offering -> Settlement], result : Result]

TypeOK ==
    /\ UnavailableTypeOK
    /\ instanceTypesInfo \in SUBSET Types
    /\ instanceTypesSeqNum \in Nat
    /\ instanceTypesOfferings \in SUBSET (Types \X Zones)
    /\ spotInstanceTypesOfferings \in SUBSET (Types \X Zones)
    /\ instanceTypesOfferingsSeqNum \in Nat
    /\ onDemandPrices \in SUBSET Types
    /\ spotPrices \in SUBSET (Types \X Zones)
    /\ spotPricingUpdated \in BOOLEAN
    /\ instanceTypesCache \in SUBSET [key : Key, result : Result]
    /\ lists \in [Lister -> ListState]
    /\ updates \in [{"types", "offerings", "prices"} -> Nat]

Init ==
    /\ UnavailableInit
    /\ instanceTypesInfo = {}
    /\ instanceTypesSeqNum = 0
    /\ instanceTypesOfferings = {}
    /\ spotInstanceTypesOfferings = {}
    /\ instanceTypesOfferingsSeqNum = 0
    /\ onDemandPrices = StaticTypes
    /\ spotPrices = {}
    /\ spotPricingUpdated = FALSE
    /\ instanceTypesCache = {}
    /\ lists = [l \in Lister |-> NotListing]
    /\ updates = [u \in {"types", "offerings", "prices"} |-> 0]

-----------------------------------------------------------------------------
\* List holds both read locks from its first step until it returns, so no
\* refresher's write lock is granted in between.
NoListInProgress == \A l \in Lister : lists[l] = NotListing

\* validateState: List fails, and changes nothing, unless all of these hold.
ValidateState(nc) ==
    /\ instanceTypesInfo # {}
    /\ instanceTypesOfferings # {}
    /\ spotInstanceTypesOfferings # {}
    /\ nc.vSwitchZones # {}

\* allZones: the zones in which some type has on-demand stock.
AllZones == {pair[2] : pair \in instanceTypesOfferings}

\* OnDemandPrice and SpotPrice find a price.  Until the first spot update every
\* type of the static list has a default spot price, the same in all zones.
Priced(o) ==
    IF o.cap = "on-demand" THEN o.type \in onDemandPrices
    ELSE IF spotPricingUpdated THEN <<o.type, o.zone>> \in spotPrices
    ELSE o.type \in StaticTypes

\* createOfferings creates an offering for every listed type, every zone of
\* allZones and each capacity type that has a price.
Created(o) ==
    Priced(o) /\ o.type \in instanceTypesInfo /\ o.zone \in AllZones

\* ZoneData.Available and ZoneData.SpotAvailable.
ZoneAvailable(o, nc) ==
    /\ o.zone \in nc.vSwitchZones
    /\ <<o.type, o.zone>> \in IF o.cap = "spot" THEN spotInstanceTypesOfferings
                                                ELSE instanceTypesOfferings

CacheKey(nc) ==
    [types |-> instanceTypesSeqNum,
     offerings |-> instanceTypesOfferingsSeqNum,
     unavailable |-> seqNum,
     zones |-> nc.vSwitchZones,
     kubelet |-> nc.kubelet]

\* List takes the read locks and computes the key.
ListStart(l, nc) ==
    /\ lists[l] = NotListing
    /\ ValidateState(nc)
    /\ lists' = [lists EXCEPT ![l] = Listing(nc, CacheKey(nc), settled)]
    /\ UNCHANGED <<unavailableVars, dataVars, priceVars, instanceTypesCache, updates>>

\* The call that was at L goes on to build r, with the offerings in todo still
\* to be read, or has r to return.
Building(L, todo, r) ==
    [pc |-> "build", nodeClass |-> L.nodeClass, key |-> L.key,
     before |-> L.before, todo |-> todo, result |-> r]

Done(L, r) ==
    [pc |-> "done", nodeClass |-> L.nodeClass, key |-> L.key,
     before |-> L.before, result |-> r]

\* The key is in the cache: its result is returned (its Capacity copied).
ListHit(l) ==
    /\ lists[l].pc = "lookup"
    /\ \E e \in instanceTypesCache :
          /\ e.key = lists[l].key
          /\ lists' = [lists EXCEPT ![l] = Done(lists[l], e.result)]
    /\ UNCHANGED <<unavailableVars, dataVars, priceVars, instanceTypesCache, updates>>

\* The key is not in the cache, and GetClusterCNI answers.
ListMiss(l) ==
    /\ lists[l].pc = "lookup"
    /\ \A e \in instanceTypesCache : e.key # lists[l].key
    /\ lists' = [lists EXCEPT ![l] =
           Building(lists[l], Offering,
                    [types |-> {},
                     systemDisk |-> lists[l].nodeClass.systemDisk,
                     base |-> {}, hidden |-> {}])]
    /\ UNCHANGED <<unavailableVars, dataVars, priceVars, instanceTypesCache, updates>>

\* The key is not in the cache, and GetClusterCNI fails: List returns its error.
ListCNIError(l) ==
    /\ lists[l].pc = "lookup"
    /\ \A e \in instanceTypesCache : e.key # lists[l].key
    /\ lists' = [lists EXCEPT ![l] = NotListing]
    /\ UNCHANGED <<unavailableVars, dataVars, priceVars, instanceTypesCache, updates>>

\* What createOfferings finds out about one offering.  NewInstanceType makes
\* nothing of a type for which no offering is created.
ReadOffering(r, o, nc) ==
    [types |-> r.types \cup (IF Created(o) THEN {o.type} ELSE {}),
     systemDisk |-> r.systemDisk,
     base |-> r.base \cup (IF Created(o) /\ ZoneAvailable(o, nc) THEN {o} ELSE {}),
     hidden |-> r.hidden \cup (IF Created(o) /\ IsUnavailable(o) THEN {o} ELSE {})]

\* createOfferings reads the price and the unavailability of one offering; the
\* zones come out of a map, in any order.
CreateOffering(l, o) ==
    /\ lists[l].pc = "build"
    /\ o \in lists[l].todo
    /\ lists' = [lists EXCEPT ![l] =
           Building(lists[l], lists[l].todo \ {o},
                    ReadOffering(lists[l].result, o, lists[l].nodeClass))]
    /\ UNCHANGED <<unavailableVars, dataVars, priceVars, instanceTypesCache, updates>>

CacheSet(key, r) ==
    instanceTypesCache' = {e \in instanceTypesCache : e.key # key}
                              \cup {[key |-> key, result |-> r]}

ListStoreLateKey(l) ==
    /\ lists[l].pc = "build"
    /\ lists[l].todo = {}
    /\ CacheSet(CacheKey(lists[l].nodeClass), lists[l].result)
    /\ lists' = [lists EXCEPT ![l] = Done(lists[l], lists[l].result)]
    /\ UNCHANGED <<unavailableVars, dataVars, priceVars, updates>>

\* The whole result goes into the cache under the key read at the start.
ListStore(l) ==
    /\ lists[l].pc = "build"
    /\ lists[l].todo = {}
    /\ CacheSet(lists[l].key, lists[l].result)
    /\ lists' = [lists EXCEPT ![l] = Done(lists[l], lists[l].result)]
    /\ UNCHANGED <<unavailableVars, dataVars, priceVars, updates>>

\* List returns and releases the read locks.
ListReturn(l) ==
    /\ lists[l].pc = "done"
    /\ lists' = [lists EXCEPT ![l] = NotListing]
    /\ UNCHANGED <<unavailableVars, dataVars, priceVars, instanceTypesCache, updates>>

\* The TTL of a cached result (InstanceTypesAndZonesTTL) runs out.
CacheExpire ==
    /\ \E e \in instanceTypesCache :
          instanceTypesCache' = instanceTypesCache \ {e}
    /\ UNCHANGED <<unavailableVars, dataVars, priceVars, lists, updates>>

-----------------------------------------------------------------------------
Count(u, changed) ==
    /\ changed => updates[u] < MaxUpdates
    /\ updates' = [updates EXCEPT ![u] = IF changed THEN @ + 1 ELSE @]

\* HasChanged of the ChangeMonitor: TRUE when the value differs from the last
\* one, and also when the last one is more than 24 hours old.
MayReportChange(old, new) == IF old = new THEN BOOLEAN ELSE {TRUE}

UpdateInstanceTypesNoBump ==
    \E types \in SUBSET Types :
        /\ NoListInProgress
        /\ instanceTypesInfo' = types
        /\ Count("types", types # instanceTypesInfo)
        /\ UNCHANGED <<unavailableVars, instanceTypesSeqNum, instanceTypesOfferings,
                       spotInstanceTypesOfferings, instanceTypesOfferingsSeqNum,
                       priceVars, instanceTypesCache, lists>>

\* UpdateInstanceTypes, when ECS and GetClusterCNI answer; an error of either
\* returns before anything changes.
UpdateInstanceTypes ==
    \E types \in SUBSET Types :
        \E changed \in MayReportChange(instanceTypesInfo, types) :
            /\ NoListInProgress
            /\ instanceTypesSeqNum' = instanceTypesSeqNum + (IF changed THEN 1 ELSE 0)
            /\ instanceTypesInfo' = types
            /\ Count("types", changed)
            /\ UNCHANGED <<unavailableVars, instanceTypesOfferings,
                           spotInstanceTypesOfferings, instanceTypesOfferingsSeqNum,
                           priceVars, instanceTypesCache, lists>>

UpdateInstanceTypeOfferingsNoBump ==
    \E offerings, spot \in SUBSET (Types \X Zones) :
        /\ NoListInProgress
        /\ instanceTypesOfferings' = offerings
        /\ spotInstanceTypesOfferings' = spot
        /\ Count("offerings", offerings # instanceTypesOfferings
                                  \/ spot # spotInstanceTypesOfferings)
        /\ UNCHANGED <<unavailableVars, instanceTypesInfo, instanceTypesSeqNum,
                       instanceTypesOfferingsSeqNum, priceVars, instanceTypesCache,
                       lists>>

\* UpdateInstanceTypeOfferings: the on-demand offerings, then the spot
\* offerings, under one lock.  The second request may fail after the first
\* result is in place (spot stays as it was); failing at the first changes
\* nothing.  Only a change of the on-demand offerings moves the counter.
UpdateInstanceTypeOfferings ==
    \E offerings, spot \in SUBSET (Types \X Zones) :
        \E changed \in MayReportChange(instanceTypesOfferings, offerings) :
            /\ NoListInProgress
            /\ instanceTypesOfferingsSeqNum' =
                  instanceTypesOfferingsSeqNum + (IF changed THEN 1 ELSE 0)
            /\ instanceTypesOfferings' = offerings
            /\ spotInstanceTypesOfferings' \in {spot, spotInstanceTypesOfferings}
            /\ Count("offerings",
                     changed \/ spotInstanceTypesOfferings' # spotInstanceTypesOfferings)
            /\ UNCHANGED <<unavailableVars, instanceTypesInfo, instanceTypesSeqNum,
                           priceVars, instanceTypesCache, lists>>

\* UpdateOnDemandPricing replaces the prices, under a lock of the pricing
\* provider: calls of List in progress see it.  A failed update, or one that
\* finds no prices, changes nothing.
UpdateOnDemandPricing ==
    \E types \in SUBSET Types \ {{}} :
        /\ onDemandPrices' = types
        /\ Count("prices", types # onDemandPrices)
        /\ UNCHANGED <<unavailableVars, dataVars, spotPrices, spotPricingUpdated,
                       instanceTypesCache, lists>>

\* UpdateSpotPricing adds to the zonal prices it has, and drops none.
UpdateSpotPricing ==
    \E pairs \in SUBSET (Types \X Zones) :
        /\ spotPrices' = spotPrices \cup pairs
        /\ spotPricingUpdated' = TRUE
        /\ Count("prices", ~spotPricingUpdated \/ ~(pairs \subseteq spotPrices))
        /\ UNCHANGED <<unavailableVars, dataVars, onDemandPrices,
                       instanceTypesCache, lists>>

ListNext ==
    \/ \E l \in Lister, nc \in NodeClass : ListStart(l, nc)
    \/ \E l \in Lister : \/ ListHit(l) \/ ListMiss(l) \/ ListCNIError(l)
                         \/ ListStore(l) \/ ListReturn(l)
    \/ \E l \in Lister, o \in Offering : CreateOffering(l, o)
    \/ CacheExpire

RefreshNext == \/ UpdateInstanceTypes \/ UpdateInstanceTypeOfferings
               \/ UpdateOnDemandPricing \/ UpdateSpotPricing

OfferingsNext ==
    UnavailableNext /\ UNCHANGED <<dataVars, priceVars, instanceTypesCache, lists, updates>>

Next == ListNext \/ RefreshNext \/ OfferingsNext

Spec == Init /\ [][Next]_vars

-----------------------------------------------------------------------------
\* Before List l started, completed operations had settled that o is in state
\* s, and nothing has happened to o since.
SettledThroughout(l, o, s) ==
    lists[l].before[o] = settled[o] /\ settled[o].state = s

\* Once MarkUnavailable of an offering has returned, no List that starts later
\* reports the offering as available while its entry lives, whether the result
\* is built or comes from the cache: Set runs before SeqNum moves, and List
\* reads SeqNum before it asks IsUnavailable.
MarkedOfferingsStayHidden ==
    \A l \in Lister : lists[l].pc = "done" =>
        \A o \in Offering : SettledThroughout(l, o, "unavailable")
                                => o \notin Available(lists[l].result)

\* Once the eviction of an offering (or a Flush) has been announced, no List
\* that starts later still hides it, unless it is marked again: a result that
\* was cached while the offering was unavailable is not served any more.
EvictedOfferingsComeBack ==
    \A l \in Lister : lists[l].pc = "done" =>
        \A o \in Offering : SettledThroughout(l, o, "available")
                                => o \notin lists[l].result.hidden

\* No List returns an instance type that the last UpdateInstanceTypes did not
\* find, although results of older refreshes are still cached: the refresh moves
\* instanceTypesSeqNum, which is in the key, whenever it finds a change.
TypesAreCurrent ==
    \A l \in Lister :
        lists[l].pc = "done" => lists[l].result.types \subseteq instanceTypesInfo

\* No List reports an on-demand offering as available that the last
\* UpdateInstanceTypeOfferings found without stock, or whose zone has none of
\* the NodeClass's vSwitches.
OnDemandStockIsCurrent ==
    \A l \in Lister : lists[l].pc = "done" =>
        \A o \in Available(lists[l].result) : o.cap = "on-demand" =>
            /\ <<o.type, o.zone>> \in instanceTypesOfferings
            /\ o.zone \in lists[l].nodeClass.vSwitchZones

\* "Any changes to the values passed into the NewInstanceType method will
\* require making updates to the cache key": the result of a List is built
\* from the system disk of the NodeClass it was called for.
SystemDiskIsTheCallers ==
    \A l \in Lister : lists[l].pc = "done" =>
        lists[l].result.systemDisk = lists[l].nodeClass.systemDisk

\* The register of each offering, what a List in progress was asked, as far as
\* nothing has happened since, and what it is about to return.
Known == [o \in Offering |-> settled[o].state]

AskedOf(L, now) ==
    [o \in Offering |-> IF L # NotListing /\ L.before[o] = now[o]
                        THEN now[o].state ELSE "unsettled"]

AnswerOf(L) ==
    IF L.pc = "done"
    THEN [given |-> TRUE, available |-> Available(L.result), hidden |-> L.result.hidden]
    ELSE [given |-> FALSE, available |-> {}, hidden |-> {}]

Regular == INSTANCE RegularOfferings WITH
    known <- Known,
    asked <- [l \in Lister |-> AskedOf(lists[l], settled)],
    answer <- [l \in Lister |-> AnswerOf(lists[l])]

\* Marks, evictions and Lists behave like operations on registers that are written
\* and read concurrently, one for each offering, although the entry and SeqNum are
\* written apart and whole results are cached under keys read earlier.
ListsAreRegular == Regular!Spec

=============================================================================
