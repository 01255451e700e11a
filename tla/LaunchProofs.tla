---------------------------- MODULE LaunchProofs ----------------------------
(***************************************************************************)
(* What a NodeClaim is launched as, for any instance types, zones, prices, *)
(* NodeClaims and NodeClasses, and any number of attempts; and the images  *)
(* it is launched with, for any selector terms, images and times to live.  *)
(***************************************************************************)
EXTENDS Launch, Images, FiniteSetTheorems, WellFoundedInduction, TLAPS

\* A set of naturals has a least element.
LEMMA NaturalMin ==
    ASSUME NEW S \in SUBSET Nat, S # {}
    PROVE  Min(S) \in S /\ \A y \in S : Min(S) <= y
<1>1. PICK x \in S : \A y \in S : <<y, x>> \notin OpToRel(<, Nat)
  BY Zenon, NatLessThanWellFounded, WFMin
<1>2. ASSUME NEW y \in S PROVE x <= y
  <2>1. x \in Nat /\ y \in Nat
    OBVIOUS
  <2>2. ~(y < x)
    BY Zenon, <1>1, <2>1 DEF OpToRel
  <2>3. QED
    BY <2>1, <2>2
<1>3. QED
  BY Zenon, <1>2 DEF Min

\* The inputs of a launch, and the offerings and types it works with.
LaunchShape ==
    /\ vSwitchZones \subseteq Zone
    /\ spotPrice \in SpotPricings
    /\ available \subseteq Offerable
    /\ types \subseteq InstanceType

\* A type with an available offering that the NodeClaim allows.
Launchable(t) == \E o \in available : o[1] = t /\ Compatible(o)

\* Every type can be launched from its resolution to the response, and as long as
\* no request is made some type is left; nothing refused is available.
LaunchInv ==
    /\ LaunchShape
    /\ available \cap refused = {}
    /\ \A t \in types : Launchable(t)
    /\ pc \in {"filter", "truncate", "capacity"} => types # {}
    /\ pc = "done" => types = {}
    /\ LaunchIsPossible
    /\ SpotZoneIsCheapest
    /\ RefusedTypesAreLeftOut

LEMMA PriceNatural ==
    ASSUME LaunchShape, NEW o \in Offering, Offered(o)
    PROVE  Price(o) \in Nat /\ Price(o) < MaxFloat64
<1>1. Price(o) \in Prices
  BY PriceAssumption DEF LaunchShape, Price, Offered
<1>2. QED
  BY <1>1, PriceAssumption DEF Prices

LEMMA AvailableOffered ==
    ASSUME LaunchShape, NEW o \in available
    PROVE  o \in Offering /\ Offered(o)
BY Zenon DEF LaunchShape, Offerable

\* The cheapest of some offerings is the price of one of them.
LEMMA CheapestIsOne ==
    ASSUME LaunchShape, NEW S \in SUBSET available, S # {}
    PROVE  /\ \E o \in S : Price(o) = CheapestOf(S)
           /\ \A o \in S : CheapestOf(S) <= Price(o)
<1> DEFINE P == {Price(o) : o \in S}
<1>1. \A o \in S : Price(o) \in Nat
  BY Zenon, PriceNatural, AvailableOffered
<1>2. P \in SUBSET Nat /\ P # {}
  BY <1>1
<1>3. Min(P) \in P /\ \A y \in P : Min(P) <= y
  BY Zenon, <1>2, NaturalMin
<1>4. QED
  BY Zenon, <1>3 DEF CheapestOf

\* filterUnwantedSpot never filters every type away: the type of the cheapest
\* on-demand offering stays.
LEMMA UnwantedSpotLeaves ==
    ASSUME LaunchShape, NEW ts \in SUBSET InstanceType,
           \E o \in available : o[1] \in ts /\ o[3] = "on-demand"
    PROVE  FilterUnwantedSpot(ts) # {}
<1> DEFINE onDemand == {o \in available : o[1] \in ts /\ o[3] = "on-demand"}
<1>1. onDemand \in SUBSET available /\ onDemand # {}
  BY Zenon
<1>2. PICK c \in onDemand : Price(c) = CheapestOf(onDemand)
  BY <1>1, CheapestIsOne
<1> DEFINE mine == OfType(c[1]) \cap available
<1>3. c \in mine /\ mine \in SUBSET available /\ mine # {} /\ c[1] \in ts
  BY Zenon, <1>1, AvailableOffered DEF OfType
<1>4. CheapestOf(mine) <= Price(c)
  BY Zenon, <1>3, CheapestIsOne
<1>5. c[1] \in FilterUnwantedSpot(ts)
  BY Zenon, <1>2, <1>3, <1>4 DEF FilterUnwantedSpot
<1>6. QED
  BY <1>5

\* filterInstanceTypes: types are filtered, never all of them.
LEMMA FilterLeaves ==
    ASSUME LaunchInv, FilterInstanceTypes
    PROVE  types' \subseteq types /\ types' # {}
<1> DEFINE generic == FilterExotic(types)
<1>1. generic \subseteq types /\ generic # {}
  BY DEF LaunchInv, FilterInstanceTypes, FilterExotic
<1>2. CASE claim.minValues
  BY <1>2 DEF LaunchInv, FilterInstanceTypes
<1>3. CASE ~claim.minValues /\ IsMixedCapacityLaunch(generic)
  <2>1. \E o \in available : o[1] \in generic /\ o[3] = "on-demand"
    BY Zenon, <1>3 DEF IsMixedCapacityLaunch, CapacityTypes
  <2>2. FilterUnwantedSpot(generic) # {}
    BY <1>1, <2>1, UnwantedSpotLeaves DEF LaunchInv, LaunchShape
  <2>3. FilterUnwantedSpot(generic) \subseteq generic
    BY Zenon DEF FilterUnwantedSpot
  <2>4. types' = FilterUnwantedSpot(generic)
    BY Zenon, <1>3 DEF FilterInstanceTypes
  <2>5. QED
    BY <1>1, <2>2, <2>3, <2>4
<1>4. CASE ~claim.minValues /\ ~IsMixedCapacityLaunch(generic)
  BY Zenon, <1>1, <1>4 DEF FilterInstanceTypes
<1>5. QED
  BY <1>2, <1>3, <1>4

\* Truncate leaves something: a set of maxInstanceTypes types is not empty.
LEMMA TruncateLeaves ==
    ASSUME LaunchInv, NEW kept \in SUBSET types, Truncate(kept)
    PROVE  types' \subseteq types /\ types' # {}
<1>1. types' = kept /\ types # {}
  BY Zenon DEF Truncate, LaunchInv
<1>2. CASE Cardinality(types) <= MaxInstanceTypes
  BY Zenon, <1>1, <1>2 DEF Truncate
<1>3. CASE ~(Cardinality(types) <= MaxInstanceTypes)
  <2>1. Cardinality(kept) = MaxInstanceTypes
    BY Zenon, <1>3 DEF Truncate
  <2>2. MaxInstanceTypes # 0
    BY SizeAssumption
  <2>3. kept # {}
    BY Zenon, <2>1, <2>2, FS_EmptySet
  <2>4. QED
    BY Zenon, <1>1, <2>3
<1>4. QED
  BY Zenon, <1>2, <1>3

-----------------------------------------------------------------------------
(* The loop of getVSwitchID. *)

\* g is what the loop computes for the first zones, step by step.
IsChoice(g, t, zones, length) ==
    g = [n \in 0 .. length |-> IF n = 0 THEN Untaken ELSE KeepZone(g[n - 1], t, zones[n])]

\* The loop computes something: there is no smallest number of zones for which it
\* does not.
LEMMA ChoiceExists ==
    ASSUME NEW t, NEW zones, NEW length \in Nat
    PROVE  \E g : IsChoice(g, t, zones, length)
<1> DEFINE stuck == {n \in Nat : ~ \E g : IsChoice(g, t, zones, n)}
<1> SUFFICES ASSUME stuck # {} PROVE FALSE
  BY Zenon
<1> DEFINE m == Min(stuck)
<1>1. stuck \in SUBSET Nat
  BY Zenon
<1>2. m \in stuck /\ \A n \in stuck : m <= n
  BY Zenon, <1>1, NaturalMin
<1> HIDE DEF m
<1>3. m \in Nat /\ ~ \E g : IsChoice(g, t, zones, m)
  BY Zenon, <1>2
<1>4. CASE m = 0
  <2> DEFINE g == [n \in 0 .. 0 |-> Untaken]
  <2>1. IsChoice(g, t, zones, 0)
    BY DEF IsChoice
  <2>2. QED
    BY Zenon, <1>3, <1>4, <2>1
<1>5. CASE m # 0
  <2>1. m - 1 \in Nat /\ ~(m <= m - 1)
    BY <1>3, <1>5
  <2>2. PICK g : IsChoice(g, t, zones, m - 1)
    BY Zenon, <1>2, <2>1
  <2> HIDE DEF stuck
  <2> DEFINE last == KeepZone(g[m - 1], t, zones[m])
             h == [n \in 0 .. m |-> IF n = m THEN last ELSE g[n]]
  <2>3. ASSUME NEW n \in 0 .. m
        PROVE  h[n] = IF n = 0 THEN Untaken ELSE KeepZone(h[n - 1], t, zones[n])
    <3> HIDE DEF last
    <3>1. CASE n = 0
      BY <1>3, <1>5, <2>2, <3>1 DEF IsChoice
    <3>2. CASE n = m
      <4>1. h[n] = last /\ h[n - 1] = g[m - 1]
        BY <1>3, <1>5, <3>2
      <4>2. QED
        BY Zenon, <1>5, <3>2, <4>1 DEF last
    <3>3. CASE n # 0 /\ n # m
      <4>1. n \in 0 .. m - 1 /\ n - 1 \in 0 .. m /\ n - 1 # m
        BY <1>3, <3>3
      <4>2. h[n] = g[n] /\ h[n - 1] = g[n - 1]
        BY Zenon, <3>3, <4>1
      <4>3. g[n] = KeepZone(g[n - 1], t, zones[n])
        BY Zenon, <2>2, <3>3, <4>1 DEF IsChoice
      <4>4. QED
        BY Zenon, <3>3, <4>2, <4>3
    <3>4. QED
      BY Zenon, <3>1, <3>2, <3>3
  <2>4. h = [n \in 0 .. m |-> h[n]]
    BY Zenon
  <2> HIDE DEF h
  <2>5. IsChoice(h, t, zones, m)
    BY Zenon, <2>3, <2>4 DEF IsChoice
  <2>6. QED
    BY Zenon, <1>3, <2>5
<1>6. QED
  BY Zenon, <1>4, <1>5

LEMMA ZonesCounted == Cardinality(Zone) \in Nat
BY Zenon, SizeAssumption, FS_CardinalityType

LEMMA ChoiceSteps ==
    ASSUME NEW t, NEW zones
    PROVE  /\ CheapestAfter(t, zones)[0] = Untaken
           /\ \A n \in 1 .. Cardinality(Zone) :
                 CheapestAfter(t, zones)[n] = KeepZone(CheapestAfter(t, zones)[n - 1], t, zones[n])
<1> DEFINE N == Cardinality(Zone)
<1>1. \E g : IsChoice(g, t, zones, N)
  BY Zenon, ZonesCounted, ChoiceExists
<1>2. CheapestAfter(t, zones) = CHOOSE g : IsChoice(g, t, zones, N)
  BY Zenon DEF IsChoice, CheapestAfter
<1>3. IsChoice(CheapestAfter(t, zones), t, zones, N)
  BY Zenon, <1>1, <1>2
<1>4. QED
  BY <1>3, ZonesCounted DEF IsChoice

\* A zone the loop may take for spot: the NodeClaim allows it, it has a vSwitch and
\* the type has a spot price there.
Takes(t, z) == z \in claim.zones \cap vSwitchZones /\ <<t, z>> \in DOMAIN spotPrice

\* What the loop has after n zones: the price of the zone it took, which is no more
\* than that of any zone it may have taken.
ChoiceOk(best, t, zones, n) ==
    /\ best.price \in Nat
    /\ \A z \in best.zone : Takes(t, z) /\ spotPrice[<<t, z>>] = best.price
    /\ \A i \in 1 .. n : Takes(t, zones[i]) => best.price <= spotPrice[<<t, zones[i]>>]

LEMMA KeepZoneOk ==
    ASSUME LaunchShape, capacityType = "spot", NEW t \in InstanceType,
           NEW zones \in [1 .. Cardinality(Zone) -> Zone], NEW n \in 1 .. Cardinality(Zone),
           NEW best, ChoiceOk(best, t, zones, n - 1)
    PROVE  ChoiceOk(KeepZone(best, t, zones[n]), t, zones, n)
<1> DEFINE z == zones[n]
           o == <<t, z, "spot">>
           taken == [zone |-> {z}, price |-> Price(o)]
<1>1. z \in Zone /\ n \in Nat
  BY ZonesCounted
<1>2. o \in Offering /\ o[1] = t /\ o[2] = z /\ o[3] = "spot"
  BY <1>1 DEF Offering, CapacityTypes
<1>3. KeepCheaper(best, <<t, z, "on-demand">>) = best
  BY DEF KeepCheaper
<1>4. KeepZone(best, t, z) = KeepCheaper(best, o)
  BY Zenon, <1>3 DEF KeepZone
<1>5. Offered(o) /\ o[3] = capacityType /\ o[2] \in claim.zones \cap vSwitchZones <=> Takes(t, z)
  BY Zenon, <1>2 DEF Offered, Takes
<1>6. Price(o) = spotPrice[<<t, z>>]
  BY Zenon, <1>2 DEF Price
<1>7. Takes(t, z) => Price(o) \in Nat
  BY Zenon, <1>2, <1>5, PriceNatural
<1>8. taken.zone = {z} /\ taken.price = Price(o)
  BY Zenon
<1>9. 1 .. n = (1 .. n - 1) \cup {n}
  BY <1>1
<1> HIDE DEF o, z, taken
<1>a. best.price \in Nat
  BY Zenon DEF ChoiceOk
<1>10. CASE Takes(t, z) /\ Price(o) < best.price
  <2>1. KeepCheaper(best, o) = taken
    BY Zenon, <1>2, <1>5, <1>10 DEF KeepCheaper, taken
  <2>2. ASSUME NEW i \in 1 .. n, Takes(t, zones[i])
        PROVE  taken.price <= spotPrice[<<t, zones[i]>>]
    <3>1. CASE i = n
      BY <1>6, <1>7, <1>8, <1>10, <3>1 DEF z
    <3>2. CASE i \in 1 .. n - 1
      <4>1. best.price <= spotPrice[<<t, zones[i]>>]
        BY Zenon, <2>2, <3>2 DEF ChoiceOk
      <4>2. spotPrice[<<t, zones[i]>>] \in Prices
        BY Zenon, <2>2, PriceAssumption DEF LaunchShape, Takes
      <4>3. spotPrice[<<t, zones[i]>>] \in Nat
        BY <4>2, PriceAssumption DEF Prices
      <4>4. QED
        BY <1>7, <1>8, <1>10, <1>a, <4>1, <4>3
    <3>3. QED
      BY Zenon, <1>9, <2>2, <3>1, <3>2
  <2>3. QED
    BY Zenon, <1>4, <1>6, <1>7, <1>8, <1>10, <2>1, <2>2 DEF ChoiceOk, z
<1>11. CASE ~(Takes(t, z) /\ Price(o) < best.price)
  <2>1. KeepCheaper(best, o) = best
    BY Zenon, <1>2, <1>5, <1>11 DEF KeepCheaper
  <2>2. Takes(t, z) => best.price <= Price(o)
    BY <1>7, <1>11, <1>a
  <2>3. \A i \in 1 .. n : Takes(t, zones[i]) => best.price <= spotPrice[<<t, zones[i]>>]
    BY Zenon, <1>6, <1>9, <2>2 DEF ChoiceOk, z
  <2>4. QED
    BY Zenon, <1>4, <2>1, <2>3 DEF ChoiceOk, z
<1>12. QED
  BY Zenon, <1>10, <1>11

\* There is no first zone after which the loop has something else.
LEMMA ChoiceIsOk ==
    ASSUME LaunchShape, capacityType = "spot", NEW t \in InstanceType,
           NEW zones \in [1 .. Cardinality(Zone) -> Zone]
    PROVE  ChoiceOk(CheapestAfter(t, zones)[Cardinality(Zone)], t, zones, Cardinality(Zone))
<1> DEFINE best == CheapestAfter(t, zones)
           wrong == {n \in 0 .. Cardinality(Zone) : ~ChoiceOk(best[n], t, zones, n)}
<1>1. wrong = {}
  <2> SUFFICES ASSUME wrong # {} PROVE FALSE
    BY Zenon
  <2> DEFINE m == Min(wrong)
  <2>1. wrong \in SUBSET Nat
    BY ZonesCounted
  <2>2. m \in wrong /\ \A n \in wrong : m <= n
    BY Zenon, <2>1, NaturalMin
  <2> HIDE DEF m
  <2>3. m \in 0 .. Cardinality(Zone) /\ ~ChoiceOk(best[m], t, zones, m)
    BY Zenon, <2>2
  <2>4. CASE m = 0
    <3>1. best[0] = Untaken
      BY Zenon, ChoiceSteps
    <3>2. ChoiceOk(Untaken, t, zones, 0)
      BY PriceAssumption DEF ChoiceOk, Untaken
    <3>3. QED
      BY Zenon, <2>3, <2>4, <3>1, <3>2
  <2>5. CASE m # 0
    <3>1. m \in 1 .. Cardinality(Zone) /\ m - 1 \in 0 .. Cardinality(Zone) /\ ~(m <= m - 1)
      BY ZonesCounted, <2>3, <2>5
    <3>2. ChoiceOk(best[m - 1], t, zones, m - 1)
      BY Zenon, <2>2, <3>1
    <3>3. best[m] = KeepZone(best[m - 1], t, zones[m])
      BY Zenon, <3>1, ChoiceSteps
    <3> HIDE DEF best
    <3>4. ChoiceOk(KeepZone(best[m - 1], t, zones[m]), t, zones, m)
      BY Zenon, <3>1, <3>2, KeepZoneOk
    <3>5. QED
      BY Zenon, <2>3, <3>3, <3>4
  <2>6. QED
    BY Zenon, <2>4, <2>5
<1>2. Cardinality(Zone) \in 0 .. Cardinality(Zone)
  BY ZonesCounted
<1>3. QED
  BY Zenon, <1>1, <1>2

\* getVSwitchID, spot and not balanced: the zone of the cheapest offering.
LEMMA VSwitchIsCheapest ==
    ASSUME LaunchShape, NEW t \in InstanceType, NEW zone \in GetVSwitchID(t),
           capacityType = "spot", policy = "cheapest"
    PROVE  /\ Takes(t, zone)
           /\ \A z \in Zone : Takes(t, z) => spotPrice[<<t, zone>>] <= spotPrice[<<t, z>>]
<1>1. PICK zones \in ZoneOrders : zone \in CheapestVSwitch(t, zones)
  BY Zenon DEF GetVSwitchID
<1>2. zones \in [1 .. Cardinality(Zone) -> Zone] /\ Range(zones) = Zone
  BY Zenon DEF ZoneOrders
<1> DEFINE best == CheapestAfter(t, zones)[Cardinality(Zone)]
<1>3. ChoiceOk(best, t, zones, Cardinality(Zone)) /\ zone \in best.zone
  BY Zenon, <1>1, <1>2, ChoiceIsOk DEF CheapestVSwitch
<1> HIDE DEF best
<1>4. Takes(t, zone) /\ spotPrice[<<t, zone>>] = best.price
  BY Zenon, <1>3 DEF ChoiceOk
<1>5. ASSUME NEW z \in Zone, Takes(t, z)
      PROVE  best.price <= spotPrice[<<t, z>>]
  <2>1. PICK i \in 1 .. Cardinality(Zone) : z = zones[i]
    BY <1>2 DEF Range
  <2>2. QED
    BY Zenon, <1>3, <1>5, <2>1 DEF ChoiceOk
<1>6. QED
  BY Zenon, <1>4, <1>5

-----------------------------------------------------------------------------
(* The steps of a launch. *)

LEMMA LaunchInit == Init => LaunchInv
<1> SUFFICES ASSUME Init PROVE LaunchInv
  OBVIOUS
<1>1. LaunchShape
  BY DEF Init, LaunchShape
<1>2. types = {} /\ refused = {} /\ pc = "resolve"
  BY Zenon DEF Init
<1>3. QED
  BY <1>1, <1>2 DEF LaunchInv, LaunchIsPossible, SpotZoneIsCheapest, RefusedTypesAreLeftOut

\* A step that leaves inputs alone keeps the shape, if it keeps the shape of the rest.
LEMMA ShapeStep ==
    ASSUME LaunchShape, UNCHANGED inputs, available' \subseteq Offerable, types' \subseteq InstanceType
    PROVE  LaunchShape' /\ Offerable' = Offerable
<1>1. vSwitchZones' = vSwitchZones /\ spotPrice' = spotPrice
  BY Zenon DEF inputs
<1>2. Offerable' = Offerable
  BY Zenon, <1>1 DEF Offerable, Offered
<1>3. QED
  BY Zenon, <1>1, <1>2 DEF LaunchShape

\* When Create returns nothing is left to be said but the shape and the marks.
LEMMA ReturnStep ==
    ASSUME LaunchInv, NEW r, Return(r), UNCHANGED inputs, available' \subseteq Offerable,
           available' \cap refused' = {}
    PROVE  LaunchInv'
<1>1. pc' = "done" /\ types' = {}
  BY Zenon DEF Return
<1>2. LaunchShape'
  BY <1>1, ShapeStep DEF LaunchInv
<1>3. QED
  BY <1>1, <1>2
  DEF LaunchInv, LaunchIsPossible, SpotZoneIsCheapest, RefusedTypesAreLeftOut

\* What can be launched still can be if no offering changes.
LEMMA LaunchableStep ==
    ASSUME UNCHANGED <<inputs, available>>, NEW t, Launchable(t)
    PROVE  Launchable(t)'
BY Zenon DEF Launchable, Compatible, inputs

\* getProvisioningGroup: the request is for types that are left, each in a zone that
\* getVSwitchID may give it.
LEMMA RequestOf ==
    ASSUME NEW disks \in SUBSET types, GetProvisioningGroup(disks), pc' = "respond",
           NEW c \in request'
    PROVE  c = <<c[1], c[2]>> /\ c[1] \in types /\ c[2] \in GetVSwitchID(c[1])
<1> DEFINE fit == {t \in FilterInstanceTypesBySystemDisk(disks) : GetVSwitchID(t) # {}}
<1>1. fit # {}
  BY Zenon DEF GetProvisioningGroup, Return
<1>2. PICK zone \in [fit -> Zone] :
          /\ \A t \in fit : zone[t] \in GetVSwitchID(t)
          /\ request' = {<<t, zone[t]>> : t \in fit}
  BY Zenon, <1>1 DEF GetProvisioningGroup
<1>3. PICK t \in fit : c = <<t, zone[t]>>
  BY Zenon, <1>2
<1>4. c[1] = t /\ c[2] = zone[t]
  BY <1>3
<1>5. t \in types
  BY Zenon, <1>3 DEF FilterInstanceTypesBySystemDisk
<1>6. QED
  BY Zenon, <1>2, <1>3, <1>4, <1>5

\* Every step preserves the invariant.
LEMMA LaunchStep == LaunchInv /\ [Next]_vars => LaunchInv'
<1> SUFFICES ASSUME LaunchInv, [Next]_vars PROVE LaunchInv'
  OBVIOUS
<1>0. LaunchShape /\ available \subseteq Offerable /\ available \cap refused = {}
  BY Zenon DEF LaunchInv, LaunchShape
<1>1. CASE ResolveInstanceTypes
  <2>1. UNCHANGED <<inputs, available, refused>>
    BY Zenon, <1>1 DEF ResolveInstanceTypes
  <2>2. CASE pc' = "filter"
    <3>1. /\ types' = {t \in InstanceType : \E o \in OfType(t) \cap available : Compatible(o)}
          /\ types' # {}
      BY Zenon, <1>1, <2>2 DEF ResolveInstanceTypes, Return
    <3>2. LaunchShape'
      BY Zenon, <1>0, <2>1, <3>1, ShapeStep
    <3>3. \A t \in types' : Launchable(t)'
      BY Zenon, <2>1, <3>1, LaunchableStep DEF Launchable, OfType
    <3>4. QED
      BY <1>0, <2>1, <2>2, <3>1, <3>2, <3>3
      DEF LaunchInv, LaunchIsPossible, SpotZoneIsCheapest, RefusedTypesAreLeftOut
  <2>3. CASE pc' # "filter"
    <3>1. PICK r : Return(r)
      BY Zenon, <1>1, <2>3 DEF ResolveInstanceTypes
    <3>2. QED
      BY Zenon, <1>0, <2>1, <3>1, ReturnStep
  <2>4. QED
    BY Zenon, <2>2, <2>3
<1>2. ASSUME FilterInstanceTypes \/ \E kept \in SUBSET types : Truncate(kept)
      PROVE  LaunchInv'
  <2>1. types' \subseteq types /\ types' # {}
    BY Zenon, <1>2, FilterLeaves, TruncateLeaves
  <2>2. /\ pc' \in {"truncate", "capacity"}
        /\ UNCHANGED <<inputs, available, refused>>
    BY Zenon, <1>2 DEF FilterInstanceTypes, Truncate
  <2>3. LaunchShape'
    BY <1>0, <2>1, <2>2, ShapeStep DEF LaunchShape
  <2>4. \A t \in types' : Launchable(t)'
    BY Zenon, <2>1, <2>2, LaunchableStep DEF LaunchInv
  <2>5. QED
    BY <1>0, <2>1, <2>2, <2>3, <2>4
    DEF LaunchInv, LaunchIsPossible, SpotZoneIsCheapest, RefusedTypesAreLeftOut
<1>3. CASE GetCapacityType
  <2>1. UNCHANGED <<inputs, available, refused, types, request, result>> /\ pc' = "request"
    BY Zenon, <1>3 DEF GetCapacityType
  <2>2. LaunchShape'
    BY <1>0, <2>1, ShapeStep DEF LaunchShape
  <2>3. PICK o \in available : o[1] \in types /\ Compatible(o)
    BY Zenon, <1>3 DEF LaunchInv, GetCapacityType, Launchable
  <2>4. o[3] \in {"on-demand", "spot"}
    BY <1>0, AvailableOffered DEF Offering, CapacityTypes
  <2>5. \E q \in available : q[1] \in types /\ q[3] = capacityType' /\ Compatible(q)
    <3>1. CASE \E q \in available : q[1] \in types /\ q[3] = "spot" /\ Compatible(q)
      BY Zenon, <1>3, <3>1 DEF GetCapacityType
    <3>2. CASE ~ \E q \in available : q[1] \in types /\ q[3] = "spot" /\ Compatible(q)
      <4>1. capacityType' = "on-demand"
        BY Zenon, <1>3, <3>2 DEF GetCapacityType
      <4>2. QED
        BY Zenon, <2>3, <2>4, <3>2, <4>1
    <3>3. QED
      BY <3>1, <3>2
  <2>6. LaunchIsPossible'
    BY Zenon, <2>1, <2>5 DEF LaunchIsPossible, Compatible, inputs
  <2>7. \A t \in types' : Launchable(t)'
    BY Zenon, <2>1, LaunchableStep DEF LaunchInv
  <2>8. QED
    BY <1>0, <2>1, <2>2, <2>6, <2>7 DEF LaunchInv, SpotZoneIsCheapest, RefusedTypesAreLeftOut
<1>4. ASSUME NEW disks \in SUBSET types, GetProvisioningGroup(disks)
      PROVE  LaunchInv'
  <2>1. UNCHANGED <<inputs, available, refused>>
    BY Zenon, <1>4 DEF GetProvisioningGroup
  <2>2. CASE pc' # "respond"
    <3>1. Return("error")
      BY Zenon, <1>4, <2>2 DEF GetProvisioningGroup
    <3>2. QED
      BY Zenon, <1>0, <2>1, <3>1, ReturnStep
  <2>3. CASE pc' = "respond"
    <3>1. UNCHANGED <<types, capacityType>> /\ pc = "request"
      BY Zenon, <1>4, <2>3 DEF GetProvisioningGroup, Return
    <3>2. LaunchShape'
      BY <1>0, <2>1, <3>1, ShapeStep DEF LaunchShape
    <3>3. \A t \in types' : Launchable(t)'
      BY Zenon, <2>1, <3>1, LaunchableStep DEF LaunchInv
    <3>4. ASSUME capacityType = "spot", policy = "cheapest", NEW c \in request'
          PROVE  /\ c[2] \in claim.zones \cap vSwitchZones
                 /\ c \in DOMAIN spotPrice
                 /\ \A z \in claim.zones \cap vSwitchZones :
                       <<c[1], z>> \in DOMAIN spotPrice =>
                           spotPrice[c] <= spotPrice[<<c[1], z>>]
      <4>1. c = <<c[1], c[2]>> /\ c[1] \in types /\ c[2] \in GetVSwitchID(c[1])
        BY Zenon, <1>4, <2>3, <3>4, RequestOf
      <4>2. c[1] \in InstanceType /\ vSwitchZones \subseteq Zone
        BY Zenon, <1>0, <4>1 DEF LaunchShape
      <4>3. /\ Takes(c[1], c[2])
            /\ \A z \in Zone : Takes(c[1], z) => spotPrice[<<c[1], c[2]>>] <= spotPrice[<<c[1], z>>]
        BY Zenon, <1>0, <3>4, <4>1, <4>2, VSwitchIsCheapest
      <4>4. QED
        BY Zenon, <4>1, <4>2, <4>3 DEF Takes
    <3>5. SpotZoneIsCheapest'
      BY Zenon, <2>1, <3>1, <3>4 DEF SpotZoneIsCheapest, inputs
    <3>6. ASSUME NEW o \in available
          PROVE  o \in Offering /\ Offered(o) /\ o \notin refused
      BY Zenon, <1>0, AvailableOffered
    <3>7. \A c \in request' :
              \E o \in OfType(c[1]) : Offered(o) /\ Compatible(o) /\ o \notin refused
      <4>1. TAKE c \in request'
      <4>2. c[1] \in types
        BY Zenon, <1>4, <2>3, RequestOf
      <4>3. PICK o \in available : o[1] = c[1] /\ Compatible(o)
        BY Zenon, <4>2 DEF LaunchInv, Launchable
      <4>4. QED
        BY Zenon, <3>6, <4>3 DEF OfType
    <3>8. \E o \in Offering : /\ o[1] \in types /\ o[3] = capacityType
                             /\ Offered(o) /\ Compatible(o) /\ o \notin refused
      BY Zenon, <3>1, <3>6 DEF LaunchInv, LaunchIsPossible
    <3>9. RefusedTypesAreLeftOut'
      BY Zenon, <2>1, <3>1, <3>7, <3>8
      DEF RefusedTypesAreLeftOut, Offered, Compatible, inputs
    <3>10. QED
      BY <1>0, <2>1, <2>3, <3>2, <3>3, <3>5, <3>9 DEF LaunchInv, LaunchIsPossible
  <2>4. QED
    BY Zenon, <2>2, <2>3
<1>5. CASE \/ ResolveFails \/ RateLimited \/ TruncateFails
           \/ GetProvisioningGroupFails \/ ProvisioningFails
  <2>1. UNCHANGED <<inputs, available, refused>> /\ Return("error")
    BY Zenon, <1>5
    DEF ResolveFails, RateLimited, TruncateFails, GetProvisioningGroupFails, ProvisioningFails
  <2>2. QED
    BY Zenon, <1>0, <2>1, ReturnStep
<1>6. ASSUME NEW statusOK, NEW first, NEW ok, NEW noStock, NEW named,
             Respond(statusOK, first, ok, noStock, named)
      PROVE  LaunchInv'
  <2>1. /\ UNCHANGED inputs
        /\ available' = Mark(named) /\ refused' = refused \cup Asked(named)
    BY Zenon, <1>6 DEF Respond
  <2>2. PICK r : Return(r)
    BY Zenon, <1>6 DEF Respond
  <2>3. available' \subseteq Offerable /\ available' \cap refused' = {}
    BY <1>0, <2>1 DEF Mark
  <2>4. QED
    BY Zenon, <2>1, <2>2, <2>3, ReturnStep
<1>7. CASE Again
  <2>1. UNCHANGED <<inputs, available, refused, types>> /\ pc' = "resolve"
    BY Zenon, <1>7 DEF Again
  <2>2. LaunchShape'
    BY <1>0, <2>1, ShapeStep DEF LaunchShape
  <2>3. \A t \in types' : Launchable(t)'
    BY Zenon, <2>1, LaunchableStep DEF LaunchInv
  <2>4. QED
    BY <1>0, <2>1, <2>2, <2>3
    DEF LaunchInv, LaunchIsPossible, SpotZoneIsCheapest, RefusedTypesAreLeftOut
<1>8. ASSUME NEW o \in Offering, MarkExpires(o) \/ MarkedElsewhere(o)
      PROVE  LaunchInv'
  <2>1. pc' = "done" /\ UNCHANGED <<inputs, types>>
    BY Zenon, <1>8 DEF MarkExpires, MarkedElsewhere
  <2>2. types = {}
    BY <1>8 DEF LaunchInv, MarkExpires, MarkedElsewhere
  <2>3. available' \subseteq Offerable /\ available' \cap refused' = {}
    BY <1>0, <1>8 DEF MarkExpires, MarkedElsewhere
  <2>4. LaunchShape'
    BY <1>0, <2>1, <2>3, ShapeStep DEF LaunchShape
  <2>5. QED
    BY <2>1, <2>2, <2>3, <2>4
    DEF LaunchInv, LaunchIsPossible, SpotZoneIsCheapest, RefusedTypesAreLeftOut
<1>9. CASE UNCHANGED vars
  BY Zenon, <1>9 DEF vars, inputs, LaunchInv, LaunchShape, Launchable, Compatible, Offered,
     Offerable, LaunchIsPossible, SpotZoneIsCheapest, RefusedTypesAreLeftOut
<1>10. QED
  BY Zenon, <1>1, <1>2, <1>3, <1>4, <1>5, <1>6, <1>7, <1>8, <1>9 DEF Next

\* The filters and the truncation never take a launch away, however often it is tried
\* again and whatever has been marked unavailable before: the request is made for a
\* type with an available offering that the NodeClaim allows.
THEOREM LaunchPossible == Spec => []LaunchIsPossible
<1>1. LaunchInv => LaunchIsPossible
  BY DEF LaunchInv
<1>2. QED
  BY <1>1, LaunchInit, LaunchStep, PTL DEF Spec

\* Unless the policy is balanced a spot instance goes into the cheapest zone that
\* the NodeClaim allows, that has a vSwitch and that the type has a spot price in: the
\* loop of getVSwitchID finds it for any number of zones in any order.
THEOREM SpotZoneCheapest == Spec => []SpotZoneIsCheapest
<1>1. LaunchInv => SpotZoneIsCheapest
  BY DEF LaunchInv
<1>2. QED
  BY <1>1, LaunchInit, LaunchStep, PTL DEF Spec

\* While the marks last, no launch asks for a type whose every offering that the
\* NodeClaim allows ECS has refused, nor for a capacity type refused for every type
\* that is left, however many launches refuse what in which order.
THEOREM RefusedTypesLeftOut == Spec => []RefusedTypesAreLeftOut
<1>1. LaunchInv => RefusedTypesAreLeftOut
  BY DEF LaunchInv
<1>2. QED
  BY <1>1, LaunchInit, LaunchStep, PTL DEF Spec

-----------------------------------------------------------------------------
(* Images. *)

\* At most one image for an architecture.
OnePerArch(S) == \A i, j \in S : i.arch = j.arch => i = j

\* The images of S are what the terms ts resolve to for version v.
OfVersion(S, ts, v) == \A i \in S : \E t \in ts : i \in Range(Resolved[t][v])

ImagesArchInv ==
    /\ OnePerArch(list.images)
    /\ \A k \in Keys : OnePerArch(cache[k].images)
    /\ \A nc \in NodeClass : OnePerArch(images[nc])

\* How long after an upgrade an older version is told and kept, used to resolve
\* terms, cached with its images, and returned: each from the one before.
VersionBound == ListDelay + VersionTTL

LookupBound == VersionBound - 1 + ListDelay

EntryBound == LookupBound + ImageTTL

ReturnBound == EntryBound - 1 + ListDelay

\* What is cached and what a List has found is of the terms, for a version the
\* cluster has had; what is not of the cluster's version has a time left that runs
\* out before since reaches Stale.
VersionSound(e) ==
    /\ e.version <= version
    /\ e.ttl > 0 /\ e.version # version => since + e.ttl <= VersionBound

EntrySound(e, k) ==
    /\ \E v \in 0 .. version : OfVersion(e.images, k, v)
    /\ e.ttl > 0 /\ ~OfVersion(e.images, k, version) =>
          since + e.ttl <= EntryBound

ListSound(l) ==
    /\ l.pc = "discovered" =>
          /\ l.k8sVersion <= version
          /\ l.k8sVersion # version => since + l.left <= ListDelay
    /\ l.pc \in {"lookup", "resolve"} =>
          /\ l.k8sVersion <= version
          /\ l.k8sVersion # version => since + l.left <= LookupBound
    /\ l.pc = "resolve" =>
          /\ OfVersion(l.images, Range(l.terms), l.k8sVersion)
          /\ Range(l.todo) \subseteq Range(l.terms)
    /\ l.pc = "returned" =>
          /\ \E v \in 0 .. version : OfVersion(l.images, Range(l.terms), v)
          /\ ~OfVersion(l.images, Range(l.terms), version) =>
                since + l.left <= ReturnBound

ImagesSound ==
    VersionSound(versionCache) /\ ListSound(list) /\ \A k \in Keys : EntrySound(cache[k], k)

ImagesInv == ImagesTypeOK /\ ImagesArchInv /\ ImagesSound

\* Of the images found for a term the first of an architecture is kept, unless an
\* image of a term before it has that architecture.
LEMMA KeepFirstOne ==
    ASSUME NEW have, NEW found \in Seq(Image), OnePerArch(have)
    PROVE  OnePerArch(KeepFirst(have, found))
<1> DEFINE kept == {n \in DOMAIN found :
                       /\ \A i \in have : i.arch # found[n].arch
                       /\ \A j \in 1 .. n - 1 : found[j].arch # found[n].arch}
<1>1. \A n \in kept : n \in Nat /\ n >= 1
  OBVIOUS
<1>2. ASSUME NEW m \in kept, NEW n \in kept, found[m].arch = found[n].arch
      PROVE  m = n
  <2>1. ~(m < n)
    BY <1>1, <1>2
  <2>2. ~(n < m)
    BY <1>1, <1>2
  <2>3. QED
    BY <1>1, <2>1, <2>2
<1>3. KeepFirst(have, found) = have \cup {found[n] : n \in kept}
  BY Zenon DEF KeepFirst
<1>4. \A i \in have : \A n \in kept : i.arch # found[n].arch
  BY Zenon
<1> HIDE DEF kept
<1>5. ASSUME NEW i \in KeepFirst(have, found), NEW j \in KeepFirst(have, found),
             i.arch = j.arch
      PROVE  i = j
  <2>1. i \in have \/ \E n \in kept : i = found[n]
    BY Zenon, <1>3
  <2>2. j \in have \/ \E n \in kept : j = found[n]
    BY Zenon, <1>3
  <2>3. CASE i \in have /\ j \in have
    BY Zenon, <1>5, <2>3 DEF OnePerArch
  <2>4. CASE i \in have /\ \E n \in kept : j = found[n]
    BY Zenon, <1>4, <1>5, <2>4
  <2>5. CASE j \in have /\ \E n \in kept : i = found[n]
    BY Zenon, <1>4, <1>5, <2>5
  <2>6. CASE (\E n \in kept : i = found[n]) /\ \E n \in kept : j = found[n]
    BY Zenon, <1>2, <1>5, <2>6
  <2>7. QED
    BY Zenon, <2>1, <2>2, <2>3, <2>4, <2>5, <2>6
<1>6. QED
  BY Zenon, <1>5 DEF OnePerArch

LEMMA KeepFirstFrom ==
    ASSUME NEW have, NEW found
    PROVE  have \subseteq KeepFirst(have, found)
           /\ KeepFirst(have, found) \subseteq have \cup Range(found)
BY Zenon DEF KeepFirst, Range

\* The term that is resolved next, and those after it, are terms of the List.
LEMMA NextTerm ==
    ASSUME NEW s \in Terms, s # <<>>
    PROVE  /\ Head(s) \in Term /\ Tail(s) \in Terms
           /\ Head(s) \in Range(s) /\ Range(Tail(s)) \subseteq Range(s)
<1>1. Head(s) \in Term /\ Tail(s) \in Terms
  BY DEF Terms
<1>2. Head(s) = s[1] /\ 1 \in DOMAIN s
  BY DEF Terms
<1>3. \A n \in DOMAIN Tail(s) : n + 1 \in DOMAIN s /\ Tail(s)[n] = s[n + 1]
  BY DEF Terms
<1>4. Head(s) \in Range(s)
  BY <1>2 DEF Range
<1>5. Range(Tail(s)) \subseteq Range(s)
  BY <1>3 DEF Range
<1>6. QED
  BY <1>1, <1>4, <1>5

\* What is found for a term is of the images the model knows.
LEMMA FoundImages ==
    ASSUME NEW t \in Term, NEW v \in 0 .. MaxVersion
    PROVE  Resolved[t][v] \in Seq(Image) /\ Range(Resolved[t][v]) \subseteq Image
<1>1. Resolved[t][v] \in Seq(Image)
  BY ResolvedAssumption
<1>2. Range(Resolved[t][v]) \subseteq Image
  BY DEF Image
<1>3. QED
  BY <1>1, <1>2

LEMMA TimesNatural ==
    /\ VersionTTL \in Nat /\ VersionTTL >= 1 /\ ImageTTL \in Nat /\ ImageTTL >= 1
    /\ ListDelay \in Nat /\ MaxVersion \in Nat /\ Stale \in Nat
    /\ VersionBound = ListDelay + VersionTTL /\ LookupBound = VersionBound - 1 + ListDelay
    /\ EntryBound = LookupBound + ImageTTL /\ ReturnBound = EntryBound - 1 + ListDelay
BY TTLAssumption DEF Stale, VersionBound, LookupBound, EntryBound, ReturnBound

LEMMA KeyOfTerms == ImagesTypeOK => Key(list.terms) \in Keys
BY Zenon DEF ImagesTypeOK, ListState, Keys, Key

LEMMA ElapseType ==
    ASSUME NEW m \in Nat, NEW n \in 0 .. m
    PROVE  Elapse(n) \in 0 .. m /\ (n > 0 => Elapse(n) = n - 1) /\ (n = 0 => Elapse(n) = 0)
BY DEF Elapse

\* The terms that are resolved have images of the List's version.
LEMMA ResolveFinds ==
    ASSUME ImagesTypeOK, list.todo # <<>>
    PROVE  LET found == Resolved[Head(list.todo)][list.k8sVersion] IN
           /\ found \in Seq(Image) /\ Range(found) \subseteq Image
           /\ KeepFirst(list.images, found) \subseteq Image
           /\ Tail(list.todo) \in Terms
<1> DEFINE found == Resolved[Head(list.todo)][list.k8sVersion]
<1>1. list.todo \in Terms /\ list.k8sVersion \in 0 .. MaxVersion /\ list.images \subseteq Image
  BY DEF ImagesTypeOK, ListState
<1>2. Head(list.todo) \in Term /\ Tail(list.todo) \in Terms
  BY <1>1, NextTerm
<1>3. found \in Seq(Image) /\ Range(found) \subseteq Image
  BY <1>1, <1>2, FoundImages
<1> HIDE DEF found
<1>4. KeepFirst(list.images, found) \subseteq Image
  BY <1>1, <1>3, KeepFirstFrom
<1>5. QED
  BY <1>2, <1>3, <1>4 DEF found

LEMMA ImagesTypeInit == ImagesInit => ImagesTypeOK
<1> SUFFICES ASSUME ImagesInit PROVE ImagesTypeOK
  OBVIOUS
<1>1. PICK nc \in NodeClass :
          list = [pc |-> "idle", nodeClass |-> nc, terms |-> terms[nc], k8sVersion |-> 0,
                  todo |-> <<>>, images |-> {}, left |-> 0]
  BY Zenon DEF ImagesInit
<1>2. terms[nc] \in Specs /\ <<>> \in Terms /\ 0 \in 0 .. MaxVersion /\ 0 \in 0 .. ListDelay
  BY TimesNatural DEF ImagesInit, Terms
<1>3. list \in ListState
  BY <1>1, <1>2 DEF ListState
<1>4. versionCache \in VersionEntry /\ version \in 0 .. MaxVersion /\ since \in 0 .. Stale
  BY TimesNatural DEF ImagesInit, VersionEntry
<1>5. [images |-> {}, ttl |-> 0] \in Entry
  BY TimesNatural DEF Entry
<1>6. QED
  BY Zenon, <1>3, <1>4, <1>5 DEF ImagesInit, ImagesTypeOK

\* Every step preserves the types.
LEMMA ImagesTypeStep == ImagesTypeOK /\ [ImagesNext]_imagesVars => ImagesTypeOK'
<1> SUFFICES ASSUME ImagesTypeOK, [ImagesNext]_imagesVars PROVE ImagesTypeOK'
  OBVIOUS
<1>0. /\ list \in ListState /\ list.images \in SUBSET Image /\ list.todo \in Terms
      /\ list.terms \in Specs /\ list.nodeClass \in NodeClass /\ <<>> \in Terms
      /\ list.left \in 0 .. ListDelay /\ ListDelay \in 0 .. ListDelay
  BY TimesNatural DEF ImagesTypeOK, ListState, Terms
<1>1. ASSUME NEW nc \in NodeClass, ListStart(nc) PROVE ImagesTypeOK'
  <2>1. terms[nc] \in Specs
    BY DEF ImagesTypeOK
  <2>2. list' \in ListState
    BY Zenon, <1>0, <1>1, <2>1 DEF ListStart, ListState
  <2>3. QED
    BY Zenon, <1>1, <2>2 DEF ListStart, ImagesTypeOK
<1>2. CASE VersionHit \/ ServerVersion
  <2>1. versionCache.version \in 0 .. MaxVersion /\ version \in 0 .. MaxVersion
    BY Zenon DEF ImagesTypeOK, VersionEntry
  <2>2. list' \in ListState
    BY Zenon, <1>0, <1>2, <2>1 DEF VersionHit, ServerVersion, ListState
  <2>3. QED
    BY Zenon, <1>2, <2>2 DEF VersionHit, ServerVersion, ImagesTypeOK
<1>2a. CASE VersionStore
  <2>1. list.k8sVersion \in 0 .. MaxVersion /\ VersionTTL \in 0 .. VersionTTL
    BY <1>0, TimesNatural DEF ListState
  <2>2. versionCache' \in VersionEntry
    BY Zenon, <1>2a, <2>1 DEF VersionStore, VersionEntry
  <2>3. list' \in ListState
    BY Zenon, <1>0, <1>2a DEF VersionStore, ListState
  <2>4. QED
    BY Zenon, <1>2a, <2>2, <2>3 DEF VersionStore, ImagesTypeOK
<1>3. CASE LookupHit
  <2>1. cache[Key(list.terms)].images \in SUBSET Image
    BY KeyOfTerms DEF ImagesTypeOK, Entry
  <2>2. list' \in ListState
    BY Zenon, <1>0, <1>3, <2>1 DEF LookupHit, ListState
  <2>3. QED
    BY Zenon, <1>3, <2>2 DEF LookupHit, ImagesTypeOK
<1>4. CASE LookupMiss
  <2>1. list.terms \in Terms
    BY <1>0, SpecsAssumption
  <2>2. list' \in ListState
    BY Zenon, <1>0, <1>4, <2>1 DEF LookupMiss, ListState
  <2>3. QED
    BY Zenon, <1>4, <2>2 DEF LookupMiss, ImagesTypeOK
<1>5. CASE ResolveTerm
  <2> DEFINE found == Resolved[Head(list.todo)][list.k8sVersion]
  <2>1. Tail(list.todo) \in Terms /\ KeepFirst(list.images, found) \in SUBSET Image
    BY <1>5, ResolveFinds DEF ResolveTerm
  <2>2. list' = [list EXCEPT !.todo = Tail(list.todo), !.images = KeepFirst(list.images, found)]
    BY <1>0, <1>5 DEF ResolveTerm, ListState
  <2> HIDE DEF found
  <2>3. list' \in ListState
    BY Zenon, <1>0, <2>1, <2>2 DEF ListState
  <2>4. QED
    BY Zenon, <1>5, <2>3 DEF ResolveTerm, ImagesTypeOK
<1>6. CASE Store
  <2>1. list' \in ListState
    BY Zenon, <1>0, <1>6 DEF Store, ListState
  <2>2. [images |-> list.images, ttl |-> ImageTTL] \in Entry
    BY <1>0, TimesNatural DEF Entry
  <2>3. cache' \in [Keys -> Entry]
    BY Zenon, <1>6, <2>2, KeyOfTerms DEF Store, ImagesTypeOK
  <2>4. QED
    BY Zenon, <1>6, <2>1, <2>3 DEF Store, ImagesTypeOK
<1>7. CASE ListFails
  <2>1. list' \in ListState
    BY Zenon, <1>0, <1>7 DEF ListFails, ListState
  <2>2. QED
    BY Zenon, <1>7, <2>1 DEF ListFails, ImagesTypeOK
<1>8. CASE SetStatus
  <2>1. list' \in ListState
    BY Zenon, <1>0, <1>8 DEF SetStatus, ListState
  <2>2. QED
    BY Zenon, <1>0, <1>8, <2>1 DEF SetStatus, ImagesTypeOK
<1>9. CASE Upgrade
  <2>1. version' \in 0 .. MaxVersion /\ since' \in 0 .. Stale
    <3>1. version \in Nat /\ version < MaxVersion /\ version' = version + 1 /\ since' = 0
      BY <1>9 DEF Upgrade, ImagesTypeOK
    <3>2. QED
      BY <3>1, TimesNatural
  <2>2. QED
    BY Zenon, <1>9, <2>1 DEF Upgrade, ImagesTypeOK
<1>10. CASE Tick
  <2>1. since' \in 0 .. Stale
    <3>1. since \in 0 .. Stale /\ since' = IF since = Stale THEN Stale ELSE since + 1
      BY Zenon, <1>10 DEF Tick, ImagesTypeOK
    <3>2. QED
      BY <3>1, TimesNatural
  <2>2. versionCache' \in VersionEntry
    <3>1. versionCache.ttl \in 0 .. VersionTTL
      BY Zenon DEF ImagesTypeOK, VersionEntry
    <3>2. Elapse(versionCache.ttl) \in 0 .. VersionTTL
      BY <3>1, TimesNatural, ElapseType
    <3>3. QED
      BY Zenon, <1>10, <3>2 DEF Tick, ImagesTypeOK, VersionEntry
  <2>3. list' \in ListState
    <3>1. Elapse(list.left) \in 0 .. ListDelay
      BY SMTT(30), <1>0, TimesNatural, ElapseType
    <3>2. list' = [list EXCEPT !.left = Elapse(list.left)]
      BY <1>0, <1>10 DEF Tick, ListState
    <3>3. QED
      BY Zenon, <1>0, <3>1, <3>2 DEF ListState
  <2>4. ASSUME NEW k \in Keys PROVE [cache[k] EXCEPT !.ttl = Elapse(@)] \in Entry
    <3>1. cache[k] \in Entry /\ cache[k].ttl \in 0 .. ImageTTL
      BY Zenon DEF ImagesTypeOK, Entry
    <3>2. Elapse(cache[k].ttl) \in 0 .. ImageTTL
      BY SMTT(30), <3>1, TimesNatural, ElapseType
    <3>3. QED
      BY Zenon, <3>1, <3>2 DEF Entry
  <2>5. cache' \in [Keys -> Entry]
    BY Zenon, <1>10, <2>4 DEF Tick
  <2>6. QED
    BY Zenon, <1>10, <2>1, <2>2, <2>3, <2>5 DEF Tick, ImagesTypeOK
<1>11. ASSUME NEW nc \in NodeClass, NEW spec \in Specs, EditTerms(nc, spec)
       PROVE  ImagesTypeOK'
  BY Zenon, <1>11 DEF EditTerms, ImagesTypeOK
<1>12. CASE UNCHANGED imagesVars
  BY Zenon, <1>12 DEF imagesVars, ImagesTypeOK
<1>13. QED
  BY Zenon, <1>1, <1>2, <1>2a, <1>3, <1>4, <1>5, <1>6, <1>7, <1>8, <1>9, <1>10, <1>11, <1>12
  DEF ImagesNext

LEMMA ImagesInvInit == ImagesInit => ImagesInv
<1> SUFFICES ASSUME ImagesInit PROVE ImagesInv
  OBVIOUS
<1>1. ImagesTypeOK
  BY ImagesTypeInit
<1>2. list.images = {} /\ list.pc = "idle"
  BY DEF ImagesInit
<1>3. \A k \in Keys : cache[k].images = {} /\ cache[k].ttl = 0
  BY DEF ImagesInit
<1>4. ImagesArchInv
  BY Zenon, <1>2, <1>3 DEF ImagesInit, ImagesArchInv, OnePerArch
<1>5. versionCache.version = 0 /\ versionCache.ttl = 0 /\ version = 0
  BY DEF ImagesInit
<1>6. ASSUME NEW k \in Keys PROVE EntrySound(cache[k], k)
  BY <1>3, <1>5 DEF EntrySound, OfVersion
<1>7. VersionSound(versionCache) /\ ListSound(list)
  BY <1>2, <1>5 DEF VersionSound, ListSound
<1>8. QED
  BY Zenon, <1>1, <1>4, <1>6, <1>7 DEF ImagesInv, ImagesSound

\* No List, cached result or status holds two images of an architecture.
LEMMA ImagesArchStep ==
    ImagesTypeOK /\ ImagesArchInv /\ [ImagesNext]_imagesVars => ImagesArchInv'
<1> SUFFICES ASSUME ImagesTypeOK, ImagesArchInv, [ImagesNext]_imagesVars
             PROVE  ImagesArchInv'
  OBVIOUS
<1>0. OnePerArch({}) /\ OnePerArch(list.images)
  BY Zenon DEF OnePerArch, ImagesArchInv
<1>1. ASSUME UNCHANGED <<cache, images>>, OnePerArch(list'.images)
      PROVE  ImagesArchInv'
  BY Zenon, <1>1 DEF ImagesArchInv, OnePerArch
<1>2. ASSUME NEW nc \in NodeClass, ListStart(nc) PROVE ImagesArchInv'
  <2>1. list'.images = list.images
    BY Zenon, <1>2 DEF ListStart, ImagesTypeOK, ListState
  <2>2. QED
    BY Zenon, <1>0, <1>1, <1>2, <2>1 DEF ListStart
<1>3. CASE VersionHit \/ ServerVersion \/ VersionStore
  <2>1. list'.images = list.images
    BY Zenon, <1>3 DEF VersionHit, ServerVersion, VersionStore, ImagesTypeOK, ListState
  <2>2. QED
    BY Zenon, <1>0, <1>1, <1>3, <2>1 DEF VersionHit, ServerVersion, VersionStore
<1>4. CASE LookupHit
  <2>1. list'.images = cache[Key(list.terms)].images
    BY Zenon, <1>4 DEF LookupHit, ImagesTypeOK, ListState
  <2>2. OnePerArch(list'.images)
    BY Zenon, <2>1, KeyOfTerms DEF ImagesArchInv
  <2>3. QED
    BY Zenon, <1>1, <1>4, <2>2 DEF LookupHit
<1>5. CASE LookupMiss
  <2>1. list'.images = {}
    BY Zenon, <1>5 DEF LookupMiss, ImagesTypeOK, ListState
  <2>2. QED
    BY Zenon, <1>0, <1>1, <1>5, <2>1 DEF LookupMiss
<1>6. CASE ResolveTerm
  <2> DEFINE found == Resolved[Head(list.todo)][list.k8sVersion]
  <2>1. list'.images = KeepFirst(list.images, found)
    BY Zenon, <1>6 DEF ResolveTerm, ImagesTypeOK, ListState
  <2>2. found \in Seq(Image)
    BY <1>6, ResolveFinds DEF ResolveTerm
  <2> HIDE DEF found
  <2>3. OnePerArch(list'.images)
    BY <1>0, <2>1, <2>2, KeepFirstOne
  <2>4. QED
    BY Zenon, <1>1, <1>6, <2>3 DEF ResolveTerm
<1>7. CASE Store
  <2>1. list'.images = list.images
    BY Zenon, <1>7 DEF Store, ImagesTypeOK, ListState
  <2>2. ASSUME NEW k \in Keys PROVE OnePerArch(cache'[k].images)
    BY Zenon, <1>0, <1>7 DEF Store, ImagesTypeOK, ImagesArchInv
  <2>3. QED
    BY Zenon, <1>0, <1>7, <2>1, <2>2 DEF Store, ImagesArchInv, OnePerArch
<1>8. CASE ListFails
  <2>1. list'.images = {}
    BY Zenon, <1>8 DEF ListFails, ImagesTypeOK, ListState
  <2>2. QED
    BY Zenon, <1>0, <1>1, <1>8, <2>1 DEF ListFails
<1>9. CASE SetStatus
  <2>1. list'.images = {}
    BY Zenon, <1>9 DEF SetStatus, ImagesTypeOK, ListState
  <2>2. ASSUME NEW nc \in NodeClass PROVE OnePerArch(images'[nc])
    BY Zenon, <1>0, <1>9 DEF SetStatus, ImagesTypeOK, ImagesArchInv
  <2>3. QED
    BY Zenon, <1>0, <1>9, <2>1, <2>2 DEF SetStatus, ImagesArchInv, OnePerArch
<1>10. CASE Upgrade \/ \E nc \in NodeClass, spec \in Specs : EditTerms(nc, spec)
  BY Zenon, <1>0, <1>1, <1>10 DEF Upgrade, EditTerms
<1>11. CASE Tick
  <2>1. list'.images = list.images
    BY Zenon, <1>11 DEF Tick, ImagesTypeOK, ListState
  <2>2. ASSUME NEW k \in Keys PROVE cache'[k].images = cache[k].images
    BY Zenon, <1>11 DEF Tick, ImagesTypeOK, Entry
  <2>3. QED
    BY Zenon, <1>0, <1>11, <2>1, <2>2 DEF Tick, ImagesArchInv, OnePerArch
<1>12. CASE UNCHANGED imagesVars
  BY Zenon, <1>0, <1>1, <1>12 DEF imagesVars
<1>13. QED
  BY Zenon, <1>2, <1>3, <1>4, <1>5, <1>6, <1>7, <1>8, <1>9, <1>10, <1>11, <1>12
  DEF ImagesNext

\* The numbers that the invariant compares.
LEMMA ImagesNumbers ==
    ASSUME ImagesTypeOK
    PROVE  /\ version \in Nat /\ since \in 0 .. Stale
           /\ versionCache.version \in Nat /\ versionCache.ttl \in 0 .. VersionTTL
           /\ list.k8sVersion \in 0 .. MaxVersion /\ list.k8sVersion \in Nat
           /\ list.left \in 0 .. ListDelay
           /\ \A k \in Keys : cache[k].ttl \in 0 .. ImageTTL
<1>1. /\ versionCache.version \in 0 .. MaxVersion /\ versionCache.ttl \in 0 .. VersionTTL
      /\ list.k8sVersion \in 0 .. MaxVersion /\ list.left \in 0 .. ListDelay
      /\ \A k \in Keys : cache[k].ttl \in 0 .. ImageTTL
  BY Zenon DEF ImagesTypeOK, VersionEntry, ListState, Entry
<1>2. version \in 0 .. MaxVersion /\ since \in 0 .. Stale
  BY Zenon DEF ImagesTypeOK
<1>3. QED
  BY <1>1, <1>2, TimesNatural

\* The steps of List, which leave the version and the time alone.
LEMMA ListSoundStep ==
    ASSUME ImagesTypeOK, ImagesSound,
           \/ \E nc \in NodeClass : ListStart(nc)
           \/ VersionHit \/ ServerVersion \/ VersionStore
           \/ LookupHit \/ LookupMiss \/ ResolveTerm \/ Store \/ ListFails \/ SetStatus
    PROVE  ImagesSound'
<1>0. /\ VersionSound(versionCache) /\ ListSound(list)
      /\ \A k \in Keys : EntrySound(cache[k], k)
  BY Zenon DEF ImagesSound
<1>1. UNCHANGED <<version, since>>
  BY Zenon DEF ListStart, VersionHit, ServerVersion, VersionStore, LookupHit, LookupMiss,
     ResolveTerm, Store, ListFails, SetStatus
<1>1a. version \in Nat
  BY ImagesNumbers
<1>2. ASSUME UNCHANGED <<versionCache, cache>>, ListSound(list')
      PROVE  ImagesSound'
  BY Zenon, <1>0, <1>1, <1>2
  DEF ImagesSound, VersionSound, EntrySound, ListSound, OfVersion
<1>3. ASSUME UNCHANGED <<versionCache, cache>>, list'.pc \in {"version", "idle"}
      PROVE  ImagesSound'
  <2>1. ListSound(list')
    BY <1>3 DEF ListSound
  <2>2. QED
    BY Zenon, <1>2, <1>3, <2>1
<1>4. ASSUME NEW nc \in NodeClass, ListStart(nc) PROVE ImagesSound'
  <2>1. list'.pc = "version"
    BY Zenon, <1>4 DEF ListStart, ImagesTypeOK, ListState
  <2>2. QED
    BY Zenon, <1>3, <1>4, <2>1 DEF ListStart
<1>5. CASE ListFails \/ SetStatus
  <2>1. list'.pc = "idle"
    BY Zenon, <1>5 DEF ListFails, SetStatus, ImagesTypeOK, ListState
  <2>2. QED
    BY Zenon, <1>3, <1>5, <2>1 DEF ListFails, SetStatus
<1>6. CASE VersionHit
  <2>1. /\ list'.pc = "lookup" /\ list'.k8sVersion = versionCache.version
        /\ list'.left = list.left /\ versionCache.ttl > 0
    BY Zenon, <1>6 DEF VersionHit, ImagesTypeOK, ListState
  <2>2. versionCache.version # version => since + list.left <= LookupBound
    BY <1>0, <2>1, ImagesNumbers, TimesNatural DEF VersionSound
  <2>3. ListSound(list')
    BY <1>0, <2>1, <2>2 DEF ListSound, VersionSound
  <2>4. QED
    BY Zenon, <1>2, <1>6, <2>3 DEF VersionHit
<1>6a. CASE ServerVersion
  <2>1. list'.pc = "discovered" /\ list'.k8sVersion = version
    BY Zenon, <1>6a DEF ServerVersion, ImagesTypeOK, ListState
  <2>2. version <= version
    BY <1>1a
  <2>3. ListSound(list')
    BY <2>1, <2>2 DEF ListSound
  <2>4. QED
    BY Zenon, <1>2, <1>6a, <2>3 DEF ServerVersion
<1>6b. CASE VersionStore
  <2>1. /\ list.pc = "discovered" /\ list'.pc = "lookup"
        /\ list'.k8sVersion = list.k8sVersion /\ list'.left = list.left
    BY Zenon, <1>6b DEF VersionStore, ImagesTypeOK, ListState
  <2>2. /\ list.k8sVersion <= version
        /\ list.k8sVersion # version => since + list.left <= ListDelay
    BY Zenon, <1>0, <2>1 DEF ListSound
  <2>3. list.k8sVersion # version => since + VersionTTL <= VersionBound
    BY <2>2, ImagesNumbers, TimesNatural
  <2>4. list.k8sVersion # version => since + list.left <= LookupBound
    BY <2>2, ImagesNumbers, TimesNatural
  <2>5. versionCache'.version = list.k8sVersion /\ versionCache'.ttl = VersionTTL
    BY Zenon, <1>6b DEF VersionStore
  <2>6. VersionSound(versionCache)'
    BY Zenon, <1>1, <2>2, <2>3, <2>5 DEF VersionSound
  <2>7. ListSound(list')
    BY <2>1, <2>2, <2>4 DEF ListSound
  <2>8. cache' = cache
    BY Zenon, <1>6b DEF VersionStore
  <2>9. QED
    BY Zenon, <1>0, <1>1, <2>6, <2>7, <2>8
    DEF ImagesSound, EntrySound, OfVersion, ListSound
<1>7. CASE LookupHit
  <2> DEFINE k == Key(list.terms)
  <2>1. /\ list'.pc = "returned" /\ list'.images = cache[k].images
        /\ list'.left = list.left /\ list'.terms = list.terms
    BY Zenon, <1>7 DEF LookupHit, ImagesTypeOK, ListState
  <2>2. k \in Keys /\ k = Range(list.terms) /\ cache[k].ttl > 0
    BY Zenon, <1>7, KeyOfTerms DEF LookupHit, Key
  <2>3. EntrySound(cache[k], k) /\ cache[k].ttl \in 0 .. ImageTTL
    BY Zenon, <1>0, <2>2, ImagesNumbers
  <2> HIDE DEF k
  <2>4. \E v \in 0 .. version : OfVersion(list'.images, Range(list'.terms), v)
    BY Zenon, <2>1, <2>2, <2>3 DEF EntrySound
  <2>5. ASSUME ~OfVersion(list'.images, Range(list'.terms), version)
        PROVE  since + list'.left <= ReturnBound
    <3>1. since + cache[k].ttl <= EntryBound
      BY Zenon, <2>1, <2>2, <2>3, <2>5 DEF EntrySound
    <3>2. QED
      BY <2>1, <2>2, <2>3, <3>1, ImagesNumbers, TimesNatural
  <2>6. ListSound(list')
    BY <2>1, <2>4, <2>5 DEF ListSound
  <2>7. QED
    BY Zenon, <1>2, <1>7, <2>6 DEF LookupHit
<1>8. CASE LookupMiss
  <2>1. /\ list'.pc = "resolve" /\ list'.images = {} /\ list'.todo = list.terms
        /\ list'.left = list.left /\ list'.terms = list.terms
        /\ list'.k8sVersion = list.k8sVersion /\ list.pc = "lookup"
    BY Zenon, <1>8 DEF LookupMiss, ImagesTypeOK, ListState
  <2>2. ListSound(list')
    BY Zenon, <1>0, <2>1 DEF ListSound, OfVersion
  <2>3. QED
    BY Zenon, <1>2, <1>8, <2>2 DEF LookupMiss
<1>9. CASE ResolveTerm
  <2> DEFINE found == Resolved[Head(list.todo)][list.k8sVersion]
  <2>1. /\ list'.pc = "resolve" /\ list.pc = "resolve"
        /\ list'.images = KeepFirst(list.images, found)
        /\ list'.todo = Tail(list.todo)
        /\ list'.left = list.left /\ list'.terms = list.terms
        /\ list'.k8sVersion = list.k8sVersion
    BY Zenon, <1>9 DEF ResolveTerm, ImagesTypeOK, ListState
  <2>2. list.todo \in Terms /\ list.todo # <<>>
    BY Zenon, <1>9 DEF ResolveTerm, ImagesTypeOK, ListState
  <2>3. Head(list.todo) \in Range(list.todo) /\ Range(Tail(list.todo)) \subseteq Range(list.todo)
    BY <2>2, NextTerm
  <2>4. /\ OfVersion(list.images, Range(list.terms), list.k8sVersion)
        /\ Range(list.todo) \subseteq Range(list.terms)
    BY Zenon, <1>0, <2>1 DEF ListSound
  <2>5. KeepFirst(list.images, found) \subseteq list.images \cup Range(found)
    BY Zenon, KeepFirstFrom
  <2>6. OfVersion(list'.images, Range(list.terms), list.k8sVersion)
    BY Zenon, <2>1, <2>3, <2>4, <2>5 DEF OfVersion
  <2>7. ListSound(list')
    BY Zenon, <1>0, <2>1, <2>3, <2>4, <2>6 DEF ListSound
  <2>8. QED
    BY Zenon, <1>2, <1>9, <2>7 DEF ResolveTerm
<1>10. CASE Store
  <2> DEFINE k == Key(list.terms)
             e == [images |-> list.images, ttl |-> ImageTTL]
  <2>1. /\ list'.pc = "returned" /\ list.pc = "resolve" /\ list'.images = list.images
        /\ list'.left = list.left /\ list'.terms = list.terms
    BY Zenon, <1>10 DEF Store, ImagesTypeOK, ListState
  <2>2. /\ OfVersion(list.images, Range(list.terms), list.k8sVersion)
        /\ list.k8sVersion <= version
        /\ list.k8sVersion # version => since + list.left <= LookupBound
    BY Zenon, <1>0, <2>1 DEF ListSound
  <2>3. list.k8sVersion \in 0 .. version
    BY <2>2, ImagesNumbers
  <2>4. ASSUME ~OfVersion(list.images, Range(list.terms), version)
        PROVE  since + list.left <= LookupBound
    BY Zenon, <2>2, <2>4
  <2>5. ListSound(list')
    <3>1. LookupBound <= ReturnBound
      BY TimesNatural
    <3>2. since + list.left \in Nat
      BY ImagesNumbers, TimesNatural
    <3>3. ~OfVersion(list.images, Range(list.terms), version) =>
              since + list.left <= ReturnBound
      BY <2>4, <3>1, <3>2, TimesNatural
    <3>4. QED
      BY <2>1, <2>2, <2>3, <3>3 DEF ListSound
  <2>6. EntrySound(e, Range(list.terms))
    <3>1. ~OfVersion(list.images, Range(list.terms), version) =>
              since + ImageTTL <= EntryBound
      BY <2>4, ImagesNumbers, TimesNatural
    <3>2. QED
      BY Zenon, <2>2, <2>3, <3>1 DEF EntrySound
  <2>7. k \in Keys /\ k = Range(list.terms)
    BY Zenon, KeyOfTerms DEF Key
  <2>8. /\ cache' = [cache EXCEPT ![k] = e]
        /\ cache \in [Keys -> Entry] /\ versionCache' = versionCache
    BY Zenon, <1>10 DEF Store, ImagesTypeOK
  <2> HIDE DEF e, k
  <2>9. ASSUME NEW x \in Keys PROVE EntrySound(cache'[x], x)
    BY Zenon, <1>0, <2>6, <2>7, <2>8
  <2>10. QED
    BY Zenon, <1>0, <1>1, <2>5, <2>8, <2>9
    DEF ImagesSound, VersionSound, EntrySound, ListSound, OfVersion
<1>11. QED
  BY Zenon, <1>4, <1>5, <1>6, <1>6a, <1>6b, <1>7, <1>8, <1>9, <1>10

\* After an upgrade every time to live is within its bound.
LEMMA UpgradeSoundStep ==
    ASSUME ImagesTypeOK, ImagesSound, Upgrade
    PROVE  ImagesSound'
<1>0. /\ VersionSound(versionCache) /\ ListSound(list)
      /\ \A k \in Keys : EntrySound(cache[k], k)
  BY Zenon DEF ImagesSound
<1>1. version' = version + 1 /\ since' = 0 /\ UNCHANGED <<versionCache, list, cache>>
  BY Zenon DEF Upgrade
<1>2. version <= version' /\ 0 .. version \subseteq 0 .. version'
  BY <1>1, ImagesNumbers
<1>3. VersionSound(versionCache)'
  BY <1>0, <1>1, ImagesNumbers, TimesNatural DEF VersionSound
<1>4. ASSUME NEW k \in Keys PROVE EntrySound(cache[k], k)'
  <2>1. since' + cache'[k].ttl <= EntryBound
    BY <1>1, ImagesNumbers, TimesNatural
  <2>2. \E v \in 0 .. version' : OfVersion(cache'[k].images, k, v)
    BY Zenon, <1>0, <1>1, <1>2 DEF EntrySound
  <2>3. QED
    BY Zenon, <2>1, <2>2 DEF EntrySound, OfVersion
<1>5. ListSound(list)'
  <2>1. /\ since' + list'.left <= ListDelay /\ since' + list'.left <= LookupBound
        /\ since' + list'.left <= ReturnBound
    BY <1>1, ImagesNumbers, TimesNatural
  <2>2. list.k8sVersion <= version => list'.k8sVersion <= version'
    BY <1>1, ImagesNumbers
  <2>3. QED
    BY Zenon, <1>0, <1>1, <1>2, <2>1, <2>2 DEF ListSound, OfVersion
<1>6. QED
  BY Zenon, <1>3, <1>4, <1>5 DEF ImagesSound

\* A tick takes from every time to live what it adds to since.
LEMMA TickSoundStep ==
    ASSUME ImagesTypeOK, ImagesSound, Tick
    PROVE  ImagesSound'
<1>0. /\ VersionSound(versionCache) /\ ListSound(list)
      /\ \A k \in Keys : EntrySound(cache[k], k)
  BY Zenon DEF ImagesSound
<1>1. /\ version' = version /\ since' = IF since = Stale THEN Stale ELSE since + 1
      /\ list.pc # "idle" => list.left > 0
  BY Zenon DEF Tick
<1>2. ASSUME NEW b \in Int, b < Stale, NEW n \in Nat, n > 0, since + n <= b
      PROVE  since' + Elapse(n) <= b
  BY <1>1, <1>2, ImagesNumbers, TimesNatural DEF Elapse
<1>3. /\ ListDelay \in Int /\ LookupBound \in Int /\ ReturnBound \in Int
      /\ VersionBound <= Stale /\ EntryBound <= Stale
      /\ ListDelay < Stale /\ LookupBound < Stale /\ ReturnBound < Stale
  BY TimesNatural DEF Stale
<1>4. VersionSound(versionCache)'
  <2>1. versionCache'.version = versionCache.version /\ versionCache'.ttl = Elapse(versionCache.ttl)
    BY Zenon DEF Tick, ImagesTypeOK, VersionEntry
  <2>2. ASSUME versionCache'.ttl > 0, versionCache.version # version
        PROVE  since' + versionCache'.ttl <= VersionBound
    <3>1. versionCache.ttl > 0 /\ versionCache'.ttl = versionCache.ttl - 1
      BY <2>1, <2>2, ImagesNumbers DEF Elapse
    <3>2. since + versionCache.ttl <= VersionBound
      BY Zenon, <1>0, <2>2, <3>1 DEF VersionSound
    <3>3. since # Stale
      BY <1>3, <3>1, <3>2, ImagesNumbers, TimesNatural
    <3>4. QED
      BY <1>1, <3>1, <3>2, <3>3, ImagesNumbers, TimesNatural
  <2>3. QED
    BY Zenon, <1>0, <1>1, <2>1, <2>2 DEF VersionSound
<1>5. ASSUME NEW k \in Keys PROVE EntrySound(cache[k], k)'
  <2>1. cache'[k].images = cache[k].images /\ cache'[k].ttl = Elapse(cache[k].ttl)
    BY Zenon DEF Tick, ImagesTypeOK, Entry
  <2>2. ASSUME cache'[k].ttl > 0, ~OfVersion(cache[k].images, k, version)
        PROVE  since' + cache'[k].ttl <= EntryBound
    <3>1. cache[k].ttl > 0 /\ cache'[k].ttl = cache[k].ttl - 1
      BY <2>1, <2>2, ImagesNumbers DEF Elapse
    <3>2. since + cache[k].ttl <= EntryBound
      BY Zenon, <1>0, <2>2, <3>1 DEF EntrySound
    <3>3. since # Stale
      BY <1>3, <3>1, <3>2, ImagesNumbers, TimesNatural
    <3>4. QED
      BY <1>1, <3>1, <3>2, <3>3, ImagesNumbers, TimesNatural
  <2>3. QED
    BY Zenon, <1>0, <1>1, <2>1, <2>2 DEF EntrySound, OfVersion
<1>6. ListSound(list)'
  <2>1. /\ list'.pc = list.pc /\ list'.images = list.images /\ list'.todo = list.todo
        /\ list'.terms = list.terms /\ list'.k8sVersion = list.k8sVersion
        /\ list'.left = Elapse(list.left)
    BY Zenon DEF Tick, ImagesTypeOK, ListState
  <2>2. ASSUME list.pc # "idle", NEW b \in Int, b < Stale, since + list.left <= b
        PROVE  since' + list'.left <= b
    <3>1. list.left \in Nat
      BY ImagesNumbers
    <3>2. QED
      BY Zenon, <1>1, <1>2, <2>1, <2>2, <3>1
  <2>3. QED
    BY Zenon, <1>0, <1>1, <1>3, <2>1, <2>2 DEF ListSound, OfVersion
<1>7. QED
  BY Zenon, <1>4, <1>5, <1>6 DEF ImagesSound

LEMMA ImagesStep == ImagesInv /\ [ImagesNext]_imagesVars => ImagesInv'
<1> SUFFICES ASSUME ImagesInv, [ImagesNext]_imagesVars PROVE ImagesInv'
  OBVIOUS
<1>1. ImagesTypeOK' /\ ImagesArchInv'
  BY Zenon, ImagesTypeStep, ImagesArchStep DEF ImagesInv
<1>2. ImagesTypeOK /\ ImagesSound
  BY Zenon DEF ImagesInv
<1>3. ASSUME UNCHANGED <<version, since, versionCache, list, cache>>
      PROVE  ImagesSound'
  BY Zenon, <1>2, <1>3 DEF ImagesSound, VersionSound, ListSound, EntrySound, OfVersion
<1>4. ASSUME \E nc \in NodeClass, spec \in Specs : EditTerms(nc, spec)
      PROVE  ImagesSound'
  BY Zenon, <1>3, <1>4 DEF EditTerms
<1>5. ASSUME UNCHANGED imagesVars
      PROVE  ImagesSound'
  BY Zenon, <1>3, <1>5 DEF imagesVars
<1>6. ImagesSound'
  BY Zenon, <1>2, <1>3, <1>4, <1>5, ListSoundStep, UpgradeSoundStep, TickSoundStep
  DEF ImagesNext
<1>7. QED
  BY Zenon, <1>1, <1>6 DEF ImagesInv

LEMMA ImagesHold == ImagesSpec => []ImagesInv
BY ImagesInvInit, ImagesStep, PTL DEF ImagesSpec

\* The variables of the image and version providers keep their types.
THEOREM ImagesTyped == ImagesSpec => []ImagesTypeOK
<1>1. ImagesInv => ImagesTypeOK
  BY DEF ImagesInv
<1>2. QED
  BY <1>1, ImagesHold, PTL

\* The status of a NodeClass never holds two images of an architecture, so the
\* image that mapToInstanceTypes finds does not depend on the order of a map.
THEOREM OneImage == ImagesSpec => []OneImagePerArch
<1>1. ImagesInv => OneImagePerArch
  BY Zenon DEF ImagesInv, ImagesArchInv, OneImagePerArch, OnePerArch
<1>2. QED
  BY <1>1, ImagesHold, PTL

\* List returns only images of the terms it was given, all of one version that the
\* cluster has had, although NodeClasses share the cache.
THEOREM ImagesOfTheTerms == ImagesSpec => []ImagesAreOfTheTerms
<1>1. ImagesInv => ImagesAreOfTheTerms
  BY Zenon DEF ImagesInv, ImagesSound, ListSound, OfVersion, ImagesAreOfTheTerms
<1>2. QED
  BY <1>1, ImagesHold, PTL

\* The images of an old version are returned for less than Stale ticks after an
\* upgrade, whatever the two times to live and the duration of a List are.
THEOREM ImagesCatchUp == ImagesSpec => []ImagesFollowUpgrades
<1>1. ASSUME ImagesInv, list.pc = "returned", since = Stale
      PROVE  list.images \subseteq
                 UNION {Range(Resolved[t][version]) : t \in Range(list.terms)}
  <2>1. ImagesTypeOK /\ ListSound(list)
    BY Zenon, <1>1 DEF ImagesInv, ImagesSound
  <2>2. ~(since + list.left <= ReturnBound)
    BY <1>1, <2>1, ImagesNumbers, TimesNatural DEF Stale
  <2>3. OfVersion(list.images, Range(list.terms), version)
    BY Zenon, <1>1, <2>1, <2>2 DEF ListSound
  <2>4. QED
    BY Zenon, <2>3 DEF OfVersion
<1>2. ImagesInv => ImagesFollowUpgrades
  BY Zenon, <1>1 DEF ImagesFollowUpgrades
<1>3. QED
  BY <1>2, ImagesHold, PTL

=============================================================================
