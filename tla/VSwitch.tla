------------------------------- MODULE VSwitch -------------------------------
(***************************************************************************)
(* The IP addresses of vSwitches: pkg/providers/vswitch/vswitch.go.  List  *)
(* reads the free addresses from the cloud into availableIPAddressCache;   *)
(* ZonalVSwitchesForLaunch picks a vSwitch for each zone and deducts, in   *)
(* inflightIPs, the addresses an instance there would use.  Both hold the  *)
(* provider's mutex, List across its calls to the cloud.                   *)
(***************************************************************************)
EXTENDS Integers, Sequences, FiniteSetsExt

CONSTANTS
    Zone,
    Zones,          \* the zone of each vSwitch
    StatusVSwitches,\* the vSwitches in the NodeClass's status, a sequence
    Terms,          \* the vSwitches each selector term matches, a sequence of sets
    InstanceType,
    Pods,           \* the pods an instance of a type holds
    Launch,         \* calls of ZonalVSwitchesForLaunch
    None,           \* no entry, no vSwitch
    MaxIPs          \* bound: free addresses of a vSwitch

ASSUME NoneAssumption == None \notin Int /\ None \notin DOMAIN Zones

ASSUME ZonesAssumption == \A v \in DOMAIN Zones : Zones[v] \in Zone

ASSUME StatusAssumption == StatusVSwitches \in Seq(DOMAIN Zones)

ASSUME TermsAssumption == Terms \in Seq(SUBSET DOMAIN Zones)

ASSUME PodsAssumption == Pods \in [InstanceType -> Nat]

ASSUME MaxIPsAssumption == MaxIPs \in Nat

VARIABLES
    free,           \* free addresses in the cloud
    available,      \* availableIPAddressCache
    inflightIPs,
    cached,         \* the List's result is cached
    listing,        \* the List in progress: its next term, 0 if there is none
    launches,       \* the vSwitches each launch got, and what came of it
    \* History: the count last described, and what was deducted since then.
    described, deducted

vars == <<free, available, inflightIPs, cached, listing, launches, described, deducted>>

VSwitchID == DOMAIN Zones

LaunchState ==
    [pc : {"idle", "requested", "done"}, offered : [Zone -> SUBSET InstanceType],
     zonal : [Zone -> VSwitchID \cup {None}]]

TypeOK ==
    /\ free \in [VSwitchID -> 0 .. MaxIPs]
    /\ \A v \in VSwitchID : available[v] \in 0 .. MaxIPs \/ available[v] = None
    /\ \A v \in VSwitchID : inflightIPs[v] \in Int \/ inflightIPs[v] = None
    /\ cached \in BOOLEAN
    /\ listing \in 0 .. Len(Terms) + 1
    /\ launches \in [Launch -> LaunchState]

Init ==
    /\ free \in [VSwitchID -> 0 .. MaxIPs]
    /\ available = [v \in VSwitchID |-> None]
    /\ inflightIPs = [v \in VSwitchID |-> None]
    /\ cached = FALSE
    /\ listing = 0
    /\ launches = [l \in Launch |-> [pc |-> "idle", offered |-> [z \in Zone |-> {}],
                                     zonal |-> [z \in Zone |-> None]]]
    /\ described = free
    /\ deducted = [v \in VSwitchID |-> 0]

-----------------------------------------------------------------------------
\* List takes the mutex; a cached result is returned at once.
ListStart ==
    /\ listing = 0
    /\ ~cached
    /\ listing' = 1
    /\ UNCHANGED <<free, available, inflightIPs, cached, launches, described, deducted>>

\* One selector term: every vSwitch it matches is counted afresh, and what was
\* tracked for it is dropped.
ListDescribe ==
    LET matched == Terms[listing] IN
    /\ listing \in DOMAIN Terms
    /\ available' = [v \in VSwitchID |-> IF v \in matched THEN free[v] ELSE available[v]]
    /\ inflightIPs' = [v \in VSwitchID |-> IF v \in matched THEN None ELSE inflightIPs[v]]
    /\ described' = [v \in VSwitchID |-> IF v \in matched THEN free[v] ELSE described[v]]
    /\ deducted' = [v \in VSwitchID |-> IF v \in matched THEN 0 ELSE deducted[v]]
    /\ listing' = listing + 1
    /\ UNCHANGED <<free, cached, launches>>

\* A term's error ends List; what the terms before it counted stays.
ListFails ==
    /\ listing \in DOMAIN Terms
    /\ listing' = 0
    /\ UNCHANGED <<free, available, inflightIPs, cached, launches, described, deducted>>

ListDone ==
    /\ listing = Len(Terms) + 1
    /\ listing' = 0
    /\ cached' = TRUE
    /\ UNCHANGED <<free, available, inflightIPs, launches, described, deducted>>

\* The entries of the two caches expire.
ExpireList ==
    /\ cached
    /\ cached' = FALSE
    /\ UNCHANGED <<free, available, inflightIPs, listing, launches, described, deducted>>

ExpireAvailable(v) ==
    /\ available[v] # None
    /\ available' = [available EXCEPT ![v] = None]
    /\ UNCHANGED <<free, inflightIPs, cached, listing, launches, described, deducted>>

-----------------------------------------------------------------------------
\* availableIPAddressCount: a vSwitch that is not in the cache counts zero.
AvailableCount(v) == IF available[v] = None THEN 0 ELSE available[v]

\* What a vSwitch counts for in the choice: the tracked addresses if there are any.
Count(v) == IF inflightIPs[v] = None THEN AvailableCount(v) ELSE inflightIPs[v]

KeepLast(zonal, v) == [zonal EXCEPT ![Zones[v]] = v]

\* A step of the loop over the vSwitches of the status: a zone keeps the one it has
\* unless the next one counts more.
KeepBest(zonal, v) ==
    LET current == zonal[Zones[v]] IN
    IF current # None /\ Count(current) >= Count(v) THEN zonal
    ELSE [zonal EXCEPT ![Zones[v]] = v]

\* zonalVSwitches after the first n vSwitches of the status.
ZonalAfter[n \in 0 .. Len(StatusVSwitches)] ==
    IF n = 0 THEN [z \in Zone |-> None]
    ELSE KeepBest(ZonalAfter[n - 1], StatusVSwitches[n])

ZonalVSwitches == ZonalAfter[Len(StatusVSwitches)]

\* minPods: the fewest pods of the types with an available offering in the zone.
MinPods(types) == IF types = {} THEN 0 ELSE Min({Pods[t] : t \in types})

DeductFromCount(v, ips) == AvailableCount(v) - ips

\* The addresses a vSwitch has left after a deduction of ips.
Deduct(v, ips) == Count(v) - ips

\* offered: the types that have an available offering of the capacity type in a
\* zone.
ZonalVSwitchesForLaunch(l, offered) ==
    LET zonal == ZonalVSwitches
        chosen == {zonal[z] : z \in Zone} \ {None}
        ips(v) == MinPods(offered[Zones[v]])
    IN  /\ launches[l].pc = "idle"
        /\ listing = 0
        /\ StatusVSwitches # <<>>
        /\ launches' = [launches EXCEPT ![l] =
              [pc |-> "requested", offered |-> offered, zonal |-> zonal]]
        /\ inflightIPs' = [v \in VSwitchID |->
              IF v \in chosen THEN Deduct(v, ips(v)) ELSE inflightIPs[v]]
        /\ deducted' = [v \in VSwitchID |->
              IF v \in chosen THEN deducted[v] + ips(v) ELSE deducted[v]]
        /\ UNCHANGED <<free, available, cached, listing, described>>

\* CreateAutoProvisioningGroup launches into one of the vSwitches, if it can.
\* Nothing is told to the provider.
Respond(l) ==
    /\ launches[l].pc = "requested"
    /\ launches' = [launches EXCEPT ![l].pc = "done"]
    /\ \/ UNCHANGED free
       \/ \E z \in Zone : \E t \in launches[l].offered[z] :
            LET v == launches[l].zonal[z] IN
            /\ v # None
            /\ free[v] >= Pods[t]
            /\ free' = [free EXCEPT ![v] = @ - Pods[t]]
    /\ UNCHANGED <<available, inflightIPs, cached, listing, described, deducted>>

\* Instances that go give their addresses back.
Release(v) ==
    /\ free[v] < MaxIPs
    /\ free' = [free EXCEPT ![v] = @ + 1]
    /\ UNCHANGED <<available, inflightIPs, cached, listing, launches, described, deducted>>

ListNext == ListStart \/ ListDescribe \/ ListFails \/ ListDone

Next ==
    \/ ListNext \/ ExpireList
    \/ \E v \in VSwitchID : ExpireAvailable(v) \/ Release(v)
    \/ \E l \in Launch : Respond(l)
    \/ \E l \in Launch, offered \in [Zone -> SUBSET InstanceType] :
          ZonalVSwitchesForLaunch(l, offered)

Spec == Init /\ [][Next]_vars

-----------------------------------------------------------------------------
\* ZonalVSwitchesForLaunch "returns a mapping of zone to the vSwitch with the
\* most available IP addresses": in every zone that has a vSwitch, one is chosen
\* that counts no less than any other, tracked and described counts mixed.
ZonalChoiceIsBest ==
    [][\A l \in Launch : launches[l].pc = "idle" /\ launches'[l].pc = "requested" =>
          \A i \in DOMAIN StatusVSwitches :
              LET v == StatusVSwitches[i]
                  best == launches'[l].zonal[Zones[v]]
              IN  best # None /\ Zones[best] = Zones[v] /\ Count(best) >= Count(v)]_vars

\* No deduction is lost before the cloud is asked again: a vSwitch never counts
\* for more than what was last described less all that was deducted since, also
\* after its cached count expired or a later selector term failed.
EveryDeductionCounts ==
    \A v \in VSwitchID : Count(v) <= described[v] - deducted[v]

=============================================================================
