---------------------------- MODULE CapacityProofs ----------------------------
(***************************************************************************)
(* What instance types and vSwitches have left: the resources an instance  *)
(* type leaves to schedule, for all types, kubelet configurations and      *)
(* widths of integers, the addresses a vSwitch counts for and the choice   *)
(* of one per zone, for all vSwitches, zones, selector terms and numbers   *)
(* of launches; and the choice of a node pool, for all lists of them.      *)
(***************************************************************************)
EXTENDS Questions, VSwitch, WellFoundedInduction, TLAPS

(* Resources. *)

LEMMA Product == ASSUME NEW a \in Nat, NEW b \in Nat PROVE a * b \in Nat
OBVIOUS

\* Nothing wraps within the range.
LEMMA WrapInRange ==
    ASSUME NEW n \in Int, -IntLimit <= n, n < IntLimit
    PROVE  Wrap(n) = n
<1>1. n + IntLimit \in Nat /\ n + IntLimit < 2 * IntLimit /\ 2 * IntLimit \in Nat \ {0}
    BY IntLimitAssumption
<1>2. \A k, m \in Nat : k < m => k % m = k
    OBVIOUS
<1> QED
    BY <1>1, <1>2, IntLimitAssumption DEF Wrap

\* The pod count of a selected type is not negative.
LEMMA PodsNatural ==
    ASSUME NEW info \in Info, NEW maxPods \in Optional, NEW podsPerCore \in Optional, NEW clusterCNI,
           Selected(info, clusterCNI), (info.enis - 1) * info.ips + 3 < IntLimit,
           podsPerCore # Nil => podsPerCore * info.cores < IntLimit
    PROVE  pods(info, maxPods, podsPerCore, clusterCNI) \in Nat
<1>a. info.cores \in Nat /\ info.enis \in Nat /\ info.ips \in 0 .. IntLimit - 1 /\ IntLimit \in Nat \ {0}
    BY Zenon, IntLimitAssumption DEF Info
<1> DEFINE product == (info.enis - 1) * info.ips
<1>1. product \in Int /\ product >= -info.ips
    <2>1. CASE info.enis = 0
        BY <1>a, <2>1
    <2>2. CASE info.enis # 0
        <3>1. info.enis - 1 \in Nat /\ info.ips \in Nat
            BY <1>a, <2>2
        <3>2. product \in Nat
            BY <3>1, Product
        <3> QED
            BY <1>a, <3>2
    <2> QED
        BY Zenon, <2>1, <2>2
<1> HIDE DEF product
<1>2. product + 3 < IntLimit
    BY Zenon DEF product
<1>3. Wrap(product) = product /\ (product >= -3 => Wrap(product + 3) = product + 3)
    BY <1>a, <1>1, <1>2, WrapInRange
<1>4. MaxPods(info, maxPods, clusterCNI) \in Nat
    <2>1. CASE maxPods # Nil
        BY Zenon, <2>1 DEF MaxPods, Optional
    <2>2. CASE maxPods = Nil /\ clusterCNI = "terway-eniip"
        <3>1. MaxPods(info, maxPods, clusterCNI) = Wrap(product + 3)
            BY Zenon, <2>2 DEF MaxPods, product
        <3>2. Wrap(product) >= 11
            BY Zenon, <2>2 DEF Selected, product
        <3> QED
            BY <1>1, <1>3, <3>1, <3>2
    <2>3. CASE maxPods = Nil /\ clusterCNI # "terway-eniip"
        <3>1. MaxPods(info, maxPods, clusterCNI) \in {256, 110}
            BY <2>3 DEF MaxPods
        <3> QED
            BY <3>1
    <2> QED
        BY Zenon, <2>1, <2>2, <2>3
<1>5. ASSUME podsPerCore # Nil PROVE Wrap(podsPerCore * info.cores) \in Nat
    <2>1. podsPerCore \in Nat /\ podsPerCore * info.cores < IntLimit
        BY Zenon, <1>5 DEF Optional
    <2>2. podsPerCore * info.cores \in Nat
        BY <1>a, <2>1, Product
    <2> QED
        BY <1>a, <2>1, <2>2, WrapInRange
<1> QED
    BY Zenon, <1>4, <1>5 DEF pods, Smaller

\* The thresholds hold back less than there is.
LEMMA CpuLeft ==
    ASSUME NEW cores \in Nat, cores >= 1
    PROVE  1000 * cores - calculateCPUOverhead(1000 * cores) > 0
BY DEF calculateCPUOverhead

LEMMA MemoryLeft ==
    ASSUME NEW info \in Info, info.memory >= 512, NEW vmOverhead \in 0 .. 300, NEW count \in Nat
    PROVE  memory(info, vmOverhead) - MemoryOverhead(count, info.memory) > 0
<1> DEFINE m == info.memory
           taken == m * vmOverhead
<1>a. m \in Nat /\ m >= 512
    BY Zenon DEF Info
<1>1. taken \in Nat /\ taken <= 300 * m
    BY <1>a
<1> HIDE DEF taken
<1>2. Ceiling(taken, 1000) \in Int /\ 1000 * Ceiling(taken, 1000) <= taken + 999
    BY <1>1 DEF Ceiling
<1>3. MemoryOverhead(count, m) \in Int /\ 4 * MemoryOverhead(count, m) <= m + 800
    BY <1>a DEF MemoryOverhead, Smaller
<1>4. memory(info, vmOverhead) = m - Ceiling(taken, 1000)
    BY DEF memory, taken
<1> HIDE DEF m
<1> QED
    BY <1>a, <1>1, <1>2, <1>3, <1>4 DEF m

\* What is held back of an instance type that is offered is less than its capacity.
LEMMA SomethingIsLeft ==
    ASSUME NEW info \in Info, NEW maxPods \in Optional, NEW podsPerCore \in Optional, NEW clusterCNI,
           NEW vmOverhead \in Nat
    PROVE  AllocatableIsPositive(info, maxPods, podsPerCore, clusterCNI, vmOverhead)
<1> DEFINE count == pods(info, maxPods, podsPerCore, clusterCNI)
           left == Allocatable(info, maxPods, podsPerCore, clusterCNI, vmOverhead)
<1> SUFFICES ASSUME info.cores >= 1, info.memory >= 512, Selected(info, clusterCNI),
                    (info.enis - 1) * info.ips + 3 < IntLimit,
                    podsPerCore # Nil => podsPerCore * info.cores < IntLimit, vmOverhead <= 300
             PROVE  left.pods >= 0 /\ left.cpu > 0 /\ left.memory > 0
    BY DEF AllocatableIsPositive
<1>1. /\ left.pods = count
      /\ left.cpu = 1000 * info.cores - calculateCPUOverhead(1000 * info.cores)
      /\ left.memory = memory(info, vmOverhead) - MemoryOverhead(count, info.memory)
    BY DEF Allocatable
<1>2. count \in Nat
    BY PodsNatural
<1> HIDE DEF count, left
<1>3. info.cores \in Nat /\ vmOverhead \in 0 .. 300
    BY DEF Info
<1>4. left.cpu > 0
    BY <1>1, <1>3, CpuLeft, SMTT(30)
<1>5. left.memory > 0
    BY <1>1, <1>2, <1>3, MemoryLeft, SMTT(30)
<1> QED
    BY <1>1, <1>2, <1>4, <1>5

-----------------------------------------------------------------------------
(* VSwitches. *)

\* The record of a launch, whose vSwitches may be any.
LaunchShape(launch) ==
    /\ launch = [pc |-> launch.pc, offered |-> launch.offered, zonal |-> launch.zonal]
    /\ launch.offered \in [Zone -> SUBSET InstanceType]

\* A count in the cache is the one last described; nothing was deducted from a vSwitch
\* that is not tracked; and one that is tracked lacks all that was deducted.
DeductInv ==
    /\ free \in [VSwitchID -> Nat] /\ described \in [VSwitchID -> Nat]
    /\ deducted \in [VSwitchID -> Int]
    /\ available \in [VSwitchID -> Nat \cup {None}]
    /\ inflightIPs \in [VSwitchID -> Int \cup {None}]
    /\ launches = [l \in Launch |-> launches[l]] /\ \A l \in Launch : LaunchShape(launches[l])
    /\ \A v \in VSwitchID :
          /\ available[v] \in {None, described[v]}
          /\ inflightIPs[v] = None => deducted[v] = 0
          /\ inflightIPs[v] # None => inflightIPs[v] <= described[v] - deducted[v]

\* A set of naturals has a least element.
LEMMA NaturalMin ==
    ASSUME NEW S \in SUBSET Nat, S # {}
    PROVE  Min(S) \in S /\ \A y \in S : Min(S) <= y
<1>1. PICK x \in S : \A y \in S : <<y, x>> \notin OpToRel(<, Nat)
    BY Zenon, NatLessThanWellFounded, WFMin
<1>2. ASSUME NEW y \in S PROVE x <= y
    <2>1. x \in Nat /\ y \in Nat
        OBVIOUS
    <2>2. ~(y < x)
        BY Zenon, <1>1, <2>1 DEF OpToRel
    <2> QED
        BY <2>1, <2>2
<1> QED
    BY Zenon, <1>2 DEF Min

LEMMA MinPodsNatural ==
    ASSUME NEW types \in SUBSET InstanceType
    PROVE  MinPods(types) \in Nat
<1>1. {Pods[t] : t \in types} \subseteq Nat
    BY Zenon, PodsAssumption
<1> QED
    BY <1>1, NaturalMin DEF MinPods

LEMMA CountBound == DeductInv => EveryDeductionCounts
BY NoneAssumption DEF DeductInv, EveryDeductionCounts, Count, AvailableCount

LEMMA DeductInit == Init => DeductInv
<1> SUFFICES ASSUME Init PROVE DeductInv
    OBVIOUS
<1>1. free \in [VSwitchID -> Nat] /\ described \in [VSwitchID -> Nat]
    BY MaxIPsAssumption DEF Init
<1>2. ASSUME NEW l \in Launch PROVE LaunchShape(launches[l])
    BY Zenon DEF Init, LaunchShape
<1>3. launches = [l \in Launch |-> launches[l]]
    BY Zenon DEF Init
<1> QED
    <2>1. /\ deducted \in [VSwitchID -> Int] /\ \A v \in VSwitchID : deducted[v] = 0
        BY DEF Init
    <2>2. /\ available \in [VSwitchID -> Nat \cup {None}]
          /\ inflightIPs \in [VSwitchID -> Int \cup {None}]
          /\ \A v \in VSwitchID : available[v] = None /\ inflightIPs[v] = None
        BY Zenon DEF Init
    <2> QED
        BY Zenon, <1>1, <1>2, <1>3, <2>1, <2>2 DEF DeductInv

\* A choice deducts from the vSwitches it chose, and leaves the others.
LEMMA DeductStep ==
    ASSUME DeductInv, NEW l \in Launch, NEW offered \in [Zone -> SUBSET InstanceType],
           ZonalVSwitchesForLaunch(l, offered)
    PROVE  DeductInv'
<1> DEFINE ips(v) == MinPods(offered[Zones[v]])
           chosen == {ZonalVSwitches[z] : z \in Zone} \ {None}
           request == [pc |-> "requested", offered |-> offered, zonal |-> ZonalVSwitches]
<1>1. /\ UNCHANGED <<free, available, described>>
      /\ launches' = [launches EXCEPT ![l] = request]
      /\ inflightIPs' = [v \in VSwitchID |->
            IF v \in chosen THEN Deduct(v, ips(v)) ELSE inflightIPs[v]]
      /\ deducted' = [v \in VSwitchID |->
            IF v \in chosen THEN deducted[v] + ips(v) ELSE deducted[v]]
    BY Zenon DEF ZonalVSwitchesForLaunch
<1>2. ASSUME NEW v \in VSwitchID PROVE ips(v) \in Nat
    BY ZonesAssumption, MinPodsNatural DEF VSwitchID
<1>3. LaunchShape(request)
    BY Zenon DEF LaunchShape
<1>4. /\ launches' = [k \in Launch |-> launches'[k]]
      /\ \A k \in Launch : LaunchShape(launches'[k])
    <2> HIDE DEF request
    <2> QED
        BY Zenon, <1>1, <1>3 DEF DeductInv
<1>5. ASSUME NEW v \in VSwitchID
      PROVE  /\ deducted'[v] \in Int /\ inflightIPs'[v] \in Int \cup {None}
             /\ inflightIPs'[v] = None => deducted'[v] = 0
             /\ inflightIPs'[v] # None => inflightIPs'[v] <= described[v] - deducted'[v]
    <2>1. /\ Count(v) \in Int /\ Count(v) <= described[v] - deducted[v]
          /\ described[v] \in Nat /\ deducted[v] \in Int
        BY CountBound, NoneAssumption DEF DeductInv, EveryDeductionCounts, Count, AvailableCount
    <2> HIDE DEF chosen, ips
    <2>2. CASE v \in chosen
        <3>1. inflightIPs'[v] = Count(v) - ips(v) /\ deducted'[v] = deducted[v] + ips(v)
            BY Zenon, <1>1, <2>2 DEF Deduct
        <3> QED
            BY <1>2, <2>1, <3>1, NoneAssumption
    <2>3. CASE v \notin chosen
        BY Zenon, <1>1, <2>3 DEF DeductInv
    <2> QED
        BY <2>2, <2>3
<1>6. deducted' \in [VSwitchID -> Int] /\ inflightIPs' \in [VSwitchID -> Int \cup {None}]
    BY Zenon, <1>1, <1>5
<1> HIDE DEF chosen, ips, request
<1> QED
    BY Zenon, <1>1, <1>4, <1>5, <1>6 DEF DeductInv

\* An instance takes addresses only if they are free.
LEMMA RespondStep ==
    ASSUME DeductInv, NEW l \in Launch, Respond(l)
    PROVE  DeductInv'
<1>1. /\ UNCHANGED <<available, inflightIPs, described, deducted>>
      /\ launches' = [launches EXCEPT ![l].pc = "done"]
    BY Zenon DEF Respond
<1>2. \A k \in Launch : LaunchShape(launches[k])
    BY Zenon DEF DeductInv
<1>3. ASSUME NEW k \in Launch PROVE LaunchShape(launches'[k])
    <2>1. CASE k # l
        BY Zenon, <1>1, <1>2, <2>1 DEF DeductInv
    <2>2. CASE k = l
        <3>1. launches'[l] = [launches[l] EXCEPT !.pc = "done"]
            BY Zenon, <1>1 DEF DeductInv
        <3>2. launches'[l] = [pc |-> "done", offered |-> launches[l].offered, zonal |-> launches[l].zonal]
            BY Zenon, <1>2, <3>1 DEF LaunchShape
        <3>3. /\ launches'[l].pc = "done" /\ launches'[l].offered = launches[l].offered
              /\ launches'[l].zonal = launches[l].zonal
            BY <3>2
        <3>4. launches[l].offered \in [Zone -> SUBSET InstanceType]
            BY Zenon, <1>2 DEF LaunchShape
        <3> QED
            BY Zenon, <2>2, <3>2, <3>3, <3>4 DEF LaunchShape
    <2> QED
        BY <2>1, <2>2
<1>4. launches' = [k \in Launch |-> launches'[k]]
    BY Zenon, <1>1 DEF DeductInv
<1>5. free' \in [VSwitchID -> Nat]
    <2>1. CASE UNCHANGED free
        BY <2>1 DEF DeductInv
    <2>2. ASSUME NEW z \in Zone, NEW t \in launches[l].offered[z], NEW v,
                 free[v] >= Pods[t], free' = [free EXCEPT ![v] = @ - Pods[t]]
          PROVE  free' \in [VSwitchID -> Nat]
        <3>1. t \in InstanceType
            BY Zenon, <1>2 DEF LaunchShape
        <3>2. Pods[t] \in Nat /\ free \in [VSwitchID -> Nat]
            BY <3>1, PodsAssumption DEF DeductInv
        <3>3. v \in VSwitchID => free[v] - Pods[t] \in Nat
            BY <2>2, <3>2
        <3> QED
            BY Zenon, <2>2, <3>2, <3>3
    <2> QED
        BY Zenon, <2>1, <2>2 DEF Respond
<1> QED
    BY Zenon, <1>1, <1>3, <1>4, <1>5 DEF DeductInv

\* A description replaces the count, and what was tracked and deducted.
LEMMA DescribeStep ==
    ASSUME DeductInv, ListDescribe
    PROVE  DeductInv'
<1> DEFINE matched == Terms[listing]
<1>1. /\ UNCHANGED <<free, launches>>
      /\ available' = [v \in VSwitchID |-> IF v \in matched THEN free[v] ELSE available[v]]
      /\ inflightIPs' = [v \in VSwitchID |-> IF v \in matched THEN None ELSE inflightIPs[v]]
      /\ described' = [v \in VSwitchID |-> IF v \in matched THEN free[v] ELSE described[v]]
      /\ deducted' = [v \in VSwitchID |-> IF v \in matched THEN 0 ELSE deducted[v]]
    BY Zenon DEF ListDescribe
<1> HIDE DEF matched
<1> QED
    BY <1>1 DEF DeductInv

LEMMA DeductInvStep == DeductInv /\ [Next]_vars => DeductInv'
<1> SUFFICES ASSUME DeductInv, [Next]_vars PROVE DeductInv'
    OBVIOUS
<1>1. CASE /\ UNCHANGED <<free, available, inflightIPs, launches, described, deducted>>
    BY Zenon, <1>1 DEF DeductInv
<1>2. CASE ListStart \/ ListFails \/ ListDone \/ ExpireList \/ UNCHANGED vars
    BY Zenon, <1>1, <1>2 DEF ListStart, ListFails, ListDone, ExpireList, vars
<1>3. ASSUME NEW v \in VSwitchID, ExpireAvailable(v) PROVE DeductInv'
    BY Zenon, <1>3 DEF ExpireAvailable, DeductInv
<1>4. ASSUME NEW v \in VSwitchID, Release(v) PROVE DeductInv'
    BY <1>4 DEF Release, DeductInv
<1> QED
    BY Zenon, <1>2, <1>3, <1>4, DescribeStep, RespondStep, DeductStep DEF Next, ListNext

\* No deduction is lost, for any vSwitches, zones, selector terms and launches: what
\* ZonalVSwitchesForLaunch deducts counts until List describes the vSwitch again,
\* through expired counts and failed Lists.
THEOREM DeductionsCount == Spec => []EveryDeductionCounts
<1> QED
    BY DeductInit, DeductInvStep, CountBound, PTL DEF Spec

-----------------------------------------------------------------------------
(* The loop of ZonalVSwitchesForLaunch. *)

Status == StatusVSwitches

LEMMA StatusLength ==
    /\ Len(Status) \in Nat
    /\ \A n \in 1 .. Len(Status) : Status[n] \in VSwitchID /\ Zones[Status[n]] \in Zone
    /\ DOMAIN Status = 1 .. Len(Status)
BY StatusAssumption, ZonesAssumption DEF Status, VSwitchID

Nowhere == [z \in Zone |-> None]

\* g is what the loop computes, step by step.
IsLoop(g, length) ==
    g = [n \in 0 .. length |-> IF n = 0 THEN Nowhere ELSE KeepBest(g[n - 1], Status[n])]

\* The loop computes something: there is no shortest status for which it does not.
LEMMA LoopExists ==
    ASSUME NEW length \in Nat
    PROVE  \E g : IsLoop(g, length)
<1> DEFINE stuck == {n \in Nat : ~ \E g : IsLoop(g, n)}
<1> SUFFICES ASSUME stuck # {} PROVE FALSE
    BY Zenon
<1> DEFINE m == Min(stuck)
<1>1. stuck \in SUBSET Nat
    BY Zenon
<1>2. m \in stuck /\ \A n \in stuck : m <= n
    BY Zenon, <1>1, NaturalMin
<1> HIDE DEF m
<1>3. m \in Nat /\ ~ \E g : IsLoop(g, m)
    BY Zenon, <1>2
<1>4. CASE m = 0
    <2> DEFINE g == [n \in 0 .. 0 |-> Nowhere]
    <2>1. IsLoop(g, 0)
        BY DEF IsLoop
    <2> QED
        BY Zenon, <1>3, <1>4, <2>1
<1>5. CASE m # 0
    <2>1. m - 1 \in Nat /\ ~(m <= m - 1)
        BY <1>3, <1>5
    <2>2. m - 1 \notin stuck
        BY Zenon, <1>2, <2>1
    <2>3. PICK g : IsLoop(g, m - 1)
        BY Zenon, <2>1, <2>2
    <2> HIDE DEF stuck
    <2> DEFINE last == KeepBest(g[m - 1], Status[m])
               h == [n \in 0 .. m |-> IF n = m THEN last ELSE g[n]]
    <2>4. ASSUME NEW n \in 0 .. m
          PROVE  h[n] = IF n = 0 THEN Nowhere ELSE KeepBest(h[n - 1], Status[n])
        <3> HIDE DEF last
        <3>1. CASE n = 0
            BY <1>3, <1>5, <2>3, <3>1 DEF IsLoop
        <3>2. CASE n = m
            <4>1. h[n] = last /\ h[n - 1] = g[m - 1]
                BY <1>3, <1>5, <3>2
            <4> QED
                BY Zenon, <1>5, <3>2, <4>1 DEF last
        <3>3. CASE n # 0 /\ n # m
            <4>1. n \in 0 .. m - 1 /\ n - 1 \in 0 .. m /\ n - 1 # m
                BY <1>3, <3>3
            <4>2. h[n] = g[n] /\ h[n - 1] = g[n - 1]
                BY Zenon, <3>3, <4>1
            <4>3. g[n] = KeepBest(g[n - 1], Status[n])
                BY Zenon, <2>3, <3>3, <4>1 DEF IsLoop
            <4> QED
                BY Zenon, <3>3, <4>2, <4>3
        <3> QED
            BY Zenon, <3>1, <3>2, <3>3
    <2>5. h = [n \in 0 .. m |-> h[n]]
        BY Zenon
    <2> HIDE DEF h
    <2>6. IsLoop(h, m)
        BY Zenon, <2>4, <2>5 DEF IsLoop
    <2> QED
        BY Zenon, <1>3, <2>6
<1> QED
    BY Zenon, <1>4, <1>5

LEMMA LoopSteps ==
    /\ ZonalAfter[0] = Nowhere
    /\ \A n \in 1 .. Len(Status) : ZonalAfter[n] = KeepBest(ZonalAfter[n - 1], Status[n])
<1>1. Len(Status) \in Nat
    BY Zenon, StatusLength
<1>2. IsLoop(ZonalAfter, Len(Status))
    BY Zenon, <1>1, LoopExists DEF IsLoop, ZonalAfter, Nowhere, Status
<1> QED
    BY <1>1, <1>2 DEF IsLoop

\* What zonalVSwitches has after n vSwitches: in each of their zones a vSwitch of that
\* zone that counts no less than any of them.
ZonalOk(zonal, n) ==
    /\ zonal \in [Zone -> VSwitchID \cup {None}]
    /\ \A z \in Zone : zonal[z] # None => Zones[zonal[z]] = z
    /\ \A i \in 1 .. n :
          LET best == zonal[Zones[Status[i]]] IN
          best # None /\ Count(best) >= Count(Status[i])

Counted == \A v \in VSwitchID : Count(v) \in Int

LEMMA KeepBestOk ==
    ASSUME Counted, NEW n \in 1 .. Len(Status), NEW zonal, ZonalOk(zonal, n - 1)
    PROVE  ZonalOk(KeepBest(zonal, Status[n]), n)
<1> DEFINE v == Status[n]
           z == Zones[v]
           current == zonal[z]
           new == KeepBest(zonal, v)
<1>a. v \in VSwitchID /\ z \in Zone /\ Len(Status) \in Nat /\ v # None /\ Count(v) \in Int
    BY Zenon, StatusLength, NoneAssumption DEF Counted, VSwitchID
<1>b. zonal \in [Zone -> VSwitchID \cup {None}] /\ (current # None => Zones[current] = z /\ Count(current) \in Int)
    BY Zenon, <1>a DEF ZonalOk, Counted
<1>c. n - 1 \in Nat /\ \A i \in 1 .. n : i = n \/ i \in 1 .. n - 1
    BY <1>a
<1>d. ASSUME NEW i \in 1 .. n
      PROVE  Status[i] \in VSwitchID /\ Zones[Status[i]] \in Zone /\ Count(Status[i]) \in Int
    <2>1. i \in 1 .. Len(Status)
        BY <1>a
    <2> QED
        BY Zenon, <2>1, StatusLength DEF Counted
<1>e. ASSUME NEW i \in 1 .. n - 1
      PROVE  zonal[Zones[Status[i]]] # None /\ Count(zonal[Zones[Status[i]]]) >= Count(Status[i])
    BY Zenon DEF ZonalOk
<1>1. CASE current # None /\ Count(current) >= Count(v)
    <2>1. new = zonal
        BY Zenon, <1>1 DEF KeepBest
    <2>2. ASSUME NEW i \in 1 .. n
          PROVE  zonal[Zones[Status[i]]] # None /\ Count(zonal[Zones[Status[i]]]) >= Count(Status[i])
        BY Zenon, <1>1, <1>c, <1>e
    <2> QED
        BY Zenon, <2>1, <2>2 DEF ZonalOk
<1>2. CASE ~(current # None /\ Count(current) >= Count(v))
    <2>1. new = [zonal EXCEPT ![z] = v]
        BY Zenon, <1>2 DEF KeepBest
    <2>2. /\ new \in [Zone -> VSwitchID \cup {None}] /\ new[z] = v
          /\ \A y \in Zone \ {z} : new[y] = zonal[y]
        BY Zenon, <1>a, <1>b, <2>1
    <2> HIDE DEF new
    <2>3. ASSUME NEW y \in Zone, new[y] # None PROVE Zones[new[y]] = y
        BY Zenon, <2>2, <2>3 DEF ZonalOk
    <2>4. ASSUME NEW i \in 1 .. n
          PROVE  new[Zones[Status[i]]] # None /\ Count(new[Zones[Status[i]]]) >= Count(Status[i])
        <3>1. CASE i = n
            <4>1. Count(v) >= Count(v)
                BY <1>a
            <4> QED
                BY Zenon, <1>a, <2>2, <3>1, <4>1
        <3>2. CASE i # n /\ Zones[Status[i]] # z
            BY Zenon, <1>c, <1>d, <1>e, <2>2, <3>2
        <3>3. CASE i # n /\ Zones[Status[i]] = z
            <4>1. current # None /\ Count(current) >= Count(Status[i])
                BY Zenon, <1>c, <1>e, <3>3
            <4>2. Count(current) \in Int /\ Count(Status[i]) \in Int /\ ~(Count(current) >= Count(v))
                BY Zenon, <1>2, <1>b, <1>d, <4>1
            <4>3. Count(v) >= Count(Status[i])
                <5> HIDE DEF v, current
                <5> QED
                    BY <1>a, <4>1, <4>2
            <4> QED
                BY Zenon, <1>a, <2>2, <3>3, <4>3
        <3> QED
            BY Zenon, <3>1, <3>2, <3>3
    <2>5. ZonalOk(new, n)
        BY Zenon, <2>2, <2>3, <2>4 DEF ZonalOk
    <2> QED
        BY Zenon, <2>5 DEF new
<1> QED
    BY Zenon, <1>1, <1>2

\* The loop keeps the best, whatever the status: there is no first step that loses it.
LEMMA LoopOk == Counted => ZonalOk(ZonalVSwitches, Len(Status))
<1> SUFFICES ASSUME Counted PROVE ZonalOk(ZonalVSwitches, Len(Status))
    OBVIOUS
<1> DEFINE wrong == {n \in 0 .. Len(Status) : ~ZonalOk(ZonalAfter[n], n)}
<1>a. Len(Status) \in Nat
    BY Zenon, StatusLength
<1>1. wrong = {}
    <2> SUFFICES ASSUME wrong # {} PROVE FALSE
        BY Zenon
    <2> DEFINE m == Min(wrong)
    <2>1. wrong \in SUBSET Nat
        BY <1>a
    <2>2. m \in wrong /\ \A n \in wrong : m <= n
        BY Zenon, <2>1, NaturalMin
    <2> HIDE DEF m
    <2>3. m \in 0 .. Len(Status) /\ ~ZonalOk(ZonalAfter[m], m)
        BY Zenon, <2>2
    <2>4. CASE m = 0
        <3>1. ZonalAfter[0] = Nowhere
            BY Zenon, LoopSteps
        <3>2. Nowhere \in [Zone -> VSwitchID \cup {None}] /\ \A z \in Zone : Nowhere[z] = None
            BY Zenon DEF Nowhere
        <3>3. 1 .. 0 = {}
            OBVIOUS
        <3>4. ZonalOk(Nowhere, 0)
            BY Zenon, <3>2, <3>3 DEF ZonalOk
        <3> QED
            BY Zenon, <2>3, <2>4, <3>1, <3>4
    <2>5. CASE m # 0
        <3>1. m \in 1 .. Len(Status) /\ m - 1 \in 0 .. Len(Status) /\ ~(m <= m - 1)
            BY <1>a, <2>3, <2>5
        <3>2. ZonalOk(ZonalAfter[m - 1], m - 1)
            BY Zenon, <2>2, <3>1
        <3>3. ZonalAfter[m] = KeepBest(ZonalAfter[m - 1], Status[m])
            BY Zenon, <3>1, LoopSteps
        <3> QED
            BY Zenon, <2>3, <3>1, <3>2, <3>3, KeepBestOk
    <2> QED
        BY Zenon, <2>4, <2>5
<1>2. Len(Status) \in 0 .. Len(Status)
    BY <1>a
<1> QED
    BY Zenon, <1>1, <1>2 DEF ZonalVSwitches, Status

LEMMA AllCounted == DeductInv => Counted
BY NoneAssumption DEF DeductInv, Counted, Count, AvailableCount

-----------------------------------------------------------------------------
(* The types, whose counts stay within the bound. *)

LEMMA VSwitchTypeInit == Init => TypeOK
<1> SUFFICES ASSUME Init PROVE TypeOK
    OBVIOUS
<1>1. Len(Terms) \in Nat
    BY TermsAssumption
<1>2. listing \in 0 .. Len(Terms) + 1
    BY <1>1 DEF Init
<1>3. launches \in [Launch -> LaunchState]
    BY DEF Init, LaunchState
<1> QED
    BY Zenon, <1>2, <1>3 DEF Init, TypeOK

\* A request holds the vSwitches that the loop has chosen.
LEMMA RequestType ==
    ASSUME TypeOK, DeductInv, NEW l \in Launch, NEW offered \in [Zone -> SUBSET InstanceType],
           ZonalVSwitchesForLaunch(l, offered)
    PROVE  launches' \in [Launch -> LaunchState]
<1> DEFINE request == [pc |-> "requested", offered |-> offered, zonal |-> ZonalVSwitches]
<1>1. launches' = [launches EXCEPT ![l] = request]
    BY Zenon DEF ZonalVSwitchesForLaunch
<1>2. ZonalVSwitches \in [Zone -> VSwitchID \cup {None}]
    BY Zenon, AllCounted, LoopOk DEF ZonalOk
<1>3. request \in LaunchState
    BY Zenon, <1>2 DEF LaunchState
<1> HIDE DEF request
<1> QED
    BY Zenon, <1>1, <1>3 DEF TypeOK

LEMMA RespondType ==
    ASSUME TypeOK, NEW l \in Launch, Respond(l)
    PROVE  launches' \in [Launch -> LaunchState] /\ free' \in [VSwitchID -> 0 .. MaxIPs]
<1>1. launches \in [Launch -> LaunchState] /\ launches[l] \in LaunchState
    BY Zenon DEF TypeOK
<1>2. launches' \in [Launch -> LaunchState]
    <2>1. launches' = [launches EXCEPT ![l] = [launches[l] EXCEPT !.pc = "done"]]
        BY Zenon DEF Respond
    <2>2. [launches[l] EXCEPT !.pc = "done"] \in LaunchState
        BY <1>1 DEF LaunchState
    <2> QED
        BY Zenon, <1>1, <2>1, <2>2
<1>3. CASE UNCHANGED free
    BY Zenon, <1>2, <1>3 DEF TypeOK
<1>4. ASSUME NEW z \in Zone, NEW t \in launches[l].offered[z], NEW v,
             free[v] >= Pods[t], free' = [free EXCEPT ![v] = @ - Pods[t]]
      PROVE  free' \in [VSwitchID -> 0 .. MaxIPs]
    <2>1. t \in InstanceType
        BY Zenon, <1>1 DEF LaunchState
    <2>2. Pods[t] \in Nat /\ free \in [VSwitchID -> 0 .. MaxIPs] /\ MaxIPs \in Nat
        BY Zenon, <2>1, PodsAssumption, MaxIPsAssumption DEF TypeOK
    <2>3. v \in VSwitchID => free[v] - Pods[t] \in 0 .. MaxIPs
        BY <1>4, <2>2
    <2> QED
        BY Zenon, <1>4, <2>2, <2>3
<1> QED
    BY Zenon, <1>2, <1>3, <1>4 DEF Respond

LEMMA VSwitchTypeStep == TypeOK /\ DeductInv /\ DeductInv' /\ [Next]_vars => TypeOK'
<1> SUFFICES ASSUME TypeOK, DeductInv, DeductInv', [Next]_vars PROVE TypeOK'
    OBVIOUS
<1>a. Len(Terms) \in Nat /\ DOMAIN Terms = 1 .. Len(Terms) /\ MaxIPs \in Nat
    BY TermsAssumption, MaxIPsAssumption
<1>b. \A v \in VSwitchID : inflightIPs'[v] \in Int \/ inflightIPs'[v] = None
    BY Zenon DEF DeductInv
<1>1. CASE ListStart
    <2>1. listing' \in 0 .. Len(Terms) + 1
        BY <1>a, <1>1 DEF ListStart
    <2> QED
        BY Zenon, <1>1, <2>1 DEF ListStart, TypeOK
<1>2. CASE ListDescribe
    <2>1. listing' \in 0 .. Len(Terms) + 1
        BY <1>a, <1>2 DEF ListDescribe
    <2>2. ASSUME NEW v \in VSwitchID PROVE available'[v] \in 0 .. MaxIPs \/ available'[v] = None
        <3>1. available'[v] = free[v] \/ available'[v] = available[v]
            BY Zenon, <1>2 DEF ListDescribe
        <3> QED
            BY Zenon, <3>1 DEF TypeOK
    <2> QED
        BY Zenon, <1>2, <1>b, <2>1, <2>2 DEF ListDescribe, TypeOK
<1>3. CASE ListFails \/ ListDone
    <2>1. listing' \in 0 .. Len(Terms) + 1
        BY <1>a, <1>3 DEF ListFails, ListDone
    <2> QED
        BY Zenon, <1>3, <2>1 DEF ListFails, ListDone, TypeOK
<1>4. CASE ExpireList \/ UNCHANGED vars
    BY Zenon, <1>4 DEF ExpireList, vars, TypeOK
<1>5. ASSUME NEW v \in VSwitchID, ExpireAvailable(v) PROVE TypeOK'
    <2>1. ASSUME NEW u \in VSwitchID PROVE available'[u] \in 0 .. MaxIPs \/ available'[u] = None
        <3>1. available'[u] = None \/ available'[u] = available[u]
            BY Zenon, <1>5 DEF ExpireAvailable, DeductInv
        <3> QED
            BY Zenon, <3>1 DEF TypeOK
    <2> QED
        BY Zenon, <1>5, <2>1 DEF ExpireAvailable, TypeOK
<1>6. ASSUME NEW v \in VSwitchID, Release(v) PROVE TypeOK'
    <2>1. free' \in [VSwitchID -> 0 .. MaxIPs]
        BY <1>6, <1>a DEF Release, TypeOK
    <2> QED
        BY Zenon, <1>6, <2>1 DEF Release, TypeOK
<1>7. ASSUME NEW l \in Launch, Respond(l) PROVE TypeOK'
    <2>1. launches' \in [Launch -> LaunchState] /\ free' \in [VSwitchID -> 0 .. MaxIPs]
        BY Zenon, <1>7, RespondType
    <2> QED
        BY Zenon, <1>7, <2>1 DEF Respond, TypeOK
<1>8. ASSUME NEW l \in Launch, NEW offered \in [Zone -> SUBSET InstanceType],
             ZonalVSwitchesForLaunch(l, offered)
      PROVE  TypeOK'
    <2>1. launches' \in [Launch -> LaunchState] /\ UNCHANGED <<free, available, cached, listing>>
        BY Zenon, <1>8, RequestType DEF ZonalVSwitchesForLaunch
    <2> QED
        BY Zenon, <1>b, <2>1 DEF TypeOK
<1> QED
    BY Zenon, <1>1, <1>2, <1>3, <1>4, <1>5, <1>6, <1>7, <1>8 DEF Next, ListNext

LEMMA VSwitchHolds == Spec => [](TypeOK /\ DeductInv)
<1>1. Init => TypeOK /\ DeductInv
    BY Zenon, VSwitchTypeInit, DeductInit
<1>2. TypeOK /\ DeductInv /\ [Next]_vars => (TypeOK /\ DeductInv)'
    BY Zenon, VSwitchTypeStep, DeductInvStep
<1> QED
    BY <1>1, <1>2, PTL DEF Spec

\* The counts, the terms of List and the launches keep their types, for any number of
\* vSwitches, selector terms, instance types and concurrent launches.
THEOREM VSwitchTyped == Spec => []TypeOK
<1> QED
    BY VSwitchHolds, PTL

\* ZonalVSwitchesForLaunch chooses, in every zone that the status has a vSwitch in, one
\* of that zone that counts no less than any other, whatever the status, its order, its
\* repetitions and the mix of tracked, described and expired counts.
THEOREM ZonalChoiceBest == Spec => ZonalChoiceIsBest
<1> DEFINE Best == \A l \in Launch : launches[l].pc = "idle" /\ launches'[l].pc = "requested" =>
                     \A i \in DOMAIN StatusVSwitches :
                         LET v == StatusVSwitches[i]
                             best == launches'[l].zonal[Zones[v]]
                         IN  best # None /\ Zones[best] = Zones[v] /\ Count(best) >= Count(v)
<1>1. TypeOK /\ DeductInv /\ [Next]_vars => [Best]_vars
    <2> SUFFICES ASSUME TypeOK, DeductInv, Next,
                        NEW l \in Launch, launches[l].pc = "idle", launches'[l].pc = "requested",
                        NEW i \in DOMAIN StatusVSwitches
                 PROVE  LET v == StatusVSwitches[i]
                            best == launches'[l].zonal[Zones[v]]
                        IN  best # None /\ Zones[best] = Zones[v] /\ Count(best) >= Count(v)
        BY Zenon
    <2>a. launches \in [Launch -> LaunchState] /\ i \in 1 .. Len(Status) /\ Status[i] = StatusVSwitches[i]
        BY Zenon, StatusLength DEF TypeOK, Status
    <2>1. ASSUME UNCHANGED launches PROVE FALSE
        <3>1. launches[l].pc = "requested"
            BY Zenon, <2>1
        <3> QED
            BY Zenon, <3>1
    <2>2. ASSUME NEW k \in Launch, Respond(k) PROVE FALSE
        <3>1. launches' = [launches EXCEPT ![k] = [launches[k] EXCEPT !.pc = "done"]]
            BY Zenon, <2>2 DEF Respond
        <3>2. launches[k] \in LaunchState
            BY Zenon, <2>a
        <3>3. [launches[k] EXCEPT !.pc = "done"].pc = "done"
            BY <3>2 DEF LaunchState
        <3>4. launches'[l] = launches[l] \/ launches'[l].pc = "done"
            BY Zenon, <2>a, <3>1, <3>3
        <3> QED
            BY Zenon, <3>4
    <2>3. PICK k \in Launch, offered \in [Zone -> SUBSET InstanceType] : ZonalVSwitchesForLaunch(k, offered)
        BY Zenon, <2>1, <2>2 DEF Next, ListNext, ListStart, ListDescribe, ListFails, ListDone, ExpireList,
                                 ExpireAvailable, Release
    <2>4. launches' = [launches EXCEPT ![k] =
              [pc |-> "requested", offered |-> offered, zonal |-> ZonalVSwitches]]
        BY Zenon, <2>3 DEF ZonalVSwitchesForLaunch
    <2>5. l = k
        BY Zenon, <2>a, <2>4
    <2>6. launches'[l].zonal = ZonalVSwitches
        BY <2>a, <2>4, <2>5
    <2>7. ZonalOk(ZonalVSwitches, Len(Status)) /\ Zones[Status[i]] \in Zone
        BY Zenon, <2>a, AllCounted, LoopOk, StatusLength
    <2> QED
        BY Zenon, <2>a, <2>6, <2>7 DEF ZonalOk
<1> HIDE DEF Best
<1>2. Spec => [][Best]_vars
    BY <1>1, VSwitchHolds, PTL DEF Spec
<1> QED
    BY Zenon, <1>2 DEF Best, ZonalChoiceIsBest

-----------------------------------------------------------------------------
(* The node pools of getClusterAttachRuntimeConfiguration. *)

NodePools == Seq(NodePool)

\* A set of naturals that is bounded has a greatest element.
LEMMA NaturalMax ==
    ASSUME NEW n \in Nat, NEW S \in SUBSET (0 .. n), S # {}
    PROVE  \E j \in S : \A k \in S : k <= j
<1> DEFINE T == {n - j : j \in S}
<1>1. T \in SUBSET Nat /\ T # {}
    <2>1. ASSUME NEW j \in S PROVE n - j \in Nat
        OBVIOUS
    <2> QED
        BY Zenon, <2>1
<1>2. Min(T) \in T /\ \A y \in T : Min(T) <= y
    BY Zenon, <1>1, NaturalMin
<1>3. PICK j \in S : Min(T) = n - j
    BY Zenon, <1>2
<1>4. ASSUME NEW k \in S PROVE k <= j
    <2>1. Min(T) <= n - k
        BY Zenon, <1>2
    <2>2. n - j <= n - k /\ j \in Nat /\ k \in Nat
        BY <1>3, <2>1
    <2> QED
        BY <2>2
<1> QED
    BY Zenon, <1>4

\* g is the insertion sort, step by step.
IsSort(g, nodepools, length) ==
    g = [n \in 0 .. length |-> IF n = 0 THEN <<>> ELSE Insert(g[n - 1], nodepools[n])]

LEMMA SortExists ==
    ASSUME NEW nodepools, NEW length \in Nat
    PROVE  \E g : IsSort(g, nodepools, length)
<1> DEFINE stuck == {n \in Nat : ~ \E g : IsSort(g, nodepools, n)}
<1> SUFFICES ASSUME stuck # {} PROVE FALSE
    BY Zenon
<1> DEFINE m == Min(stuck)
<1>1. stuck \in SUBSET Nat
    BY Zenon
<1>2. m \in stuck /\ \A n \in stuck : m <= n
    BY Zenon, <1>1, NaturalMin
<1> HIDE DEF m
<1>3. m \in Nat /\ ~ \E g : IsSort(g, nodepools, m)
    BY Zenon, <1>2
<1>4. CASE m = 0
    <2> DEFINE g == [n \in 0 .. 0 |-> <<>>]
    <2>1. IsSort(g, nodepools, 0)
        BY DEF IsSort
    <2> QED
        BY Zenon, <1>3, <1>4, <2>1
<1>5. CASE m # 0
    <2>1. m - 1 \in Nat /\ ~(m <= m - 1)
        BY <1>3, <1>5
    <2>2. m - 1 \notin stuck
        BY Zenon, <1>2, <2>1
    <2>3. PICK g : IsSort(g, nodepools, m - 1)
        BY Zenon, <2>1, <2>2
    <2> HIDE DEF stuck
    <2> DEFINE last == Insert(g[m - 1], nodepools[m])
               h == [n \in 0 .. m |-> IF n = m THEN last ELSE g[n]]
    <2>4. ASSUME NEW n \in 0 .. m
          PROVE  h[n] = IF n = 0 THEN <<>> ELSE Insert(h[n - 1], nodepools[n])
        <3> HIDE DEF last
        <3>1. CASE n = 0
            BY <1>3, <1>5, <2>3, <3>1 DEF IsSort
        <3>2. CASE n = m
            <4>1. h[n] = last /\ h[n - 1] = g[m - 1]
                BY <1>3, <1>5, <3>2
            <4> QED
                BY Zenon, <1>5, <3>2, <4>1 DEF last
        <3>3. CASE n # 0 /\ n # m
            <4>1. n \in 0 .. m - 1 /\ n - 1 \in 0 .. m /\ n - 1 # m
                BY <1>3, <3>3
            <4>2. h[n] = g[n] /\ h[n - 1] = g[n - 1]
                BY Zenon, <3>3, <4>1
            <4>3. g[n] = Insert(g[n - 1], nodepools[n])
                BY Zenon, <2>3, <3>3, <4>1 DEF IsSort
            <4> QED
                BY Zenon, <3>3, <4>2, <4>3
        <3> QED
            BY Zenon, <3>1, <3>2, <3>3
    <2>5. h = [n \in 0 .. m |-> h[n]]
        BY Zenon
    <2> HIDE DEF h
    <2>6. IsSort(h, nodepools, m)
        BY Zenon, <2>4, <2>5 DEF IsSort
    <2> QED
        BY Zenon, <1>3, <2>6
<1> QED
    BY Zenon, <1>4, <1>5

LEMMA SortSteps ==
    ASSUME NEW nodepools, Len(nodepools) \in Nat
    PROVE  /\ Sorted(nodepools)[0] = <<>>
           /\ \A n \in 1 .. Len(nodepools) :
                 Sorted(nodepools)[n] = Insert(Sorted(nodepools)[n - 1], nodepools[n])
<1> DEFINE g == Sorted(nodepools)
<1>1. IsSort(g, nodepools, Len(nodepools))
    BY Zenon, SortExists DEF IsSort, Sorted
<1> HIDE DEF g
<1>2. g[0] = <<>> /\ \A n \in 1 .. Len(nodepools) : g[n] = Insert(g[n - 1], nodepools[n])
    BY <1>1 DEF IsSort
<1> QED
    BY Zenon, <1>2 DEF g

\* A pool that says whether it is the default one, and that it is.
Known(p) == p.info = TRUE /\ p.isDefault \in {TRUE, FALSE} /\ p.isDefault # Nil

Default(p) == p.isDefault = TRUE

\* Less ranks the default pools first, and pools of a kind by their healthy nodes.
LEMMA LessRanks ==
    ASSUME NEW a, NEW b, Known(a), Known(b)
    PROVE  /\ Default(a) /\ ~Default(b) => Less(a, b)
           /\ ~Default(a) /\ Default(b) => ~Less(a, b)
           /\ (Default(a) <=> Default(b)) =>
                 (Less(a, b) <=> a.healthy # Nil /\ b.healthy # Nil /\ a.healthy > b.healthy)
BY Zenon DEF Known, Default, Less

\* A pool may stay before another: a default one does not come later, and among the
\* pools that count, which all report their healthy nodes if reported, it has no fewer.
MayPrecede(a, b, candidates, reported) ==
    /\ Default(b) => Default(a)
    /\ reported /\ a \in candidates /\ b \in candidates => a.healthy >= b.healthy

\* all: the node pools; candidates: the default ones among them if there are any.
Ranking(all, candidates, reported) ==
    /\ \A p \in all : p \in NodePool /\ Known(p)
    /\ candidates = IF \A p \in all : ~Default(p) THEN all ELSE {p \in all : Default(p)}
    /\ reported => \A p \in candidates : p.healthy # Nil

LEMMA LessMayPrecede ==
    ASSUME NEW all, NEW candidates, NEW reported, Ranking(all, candidates, reported),
           NEW a \in all, NEW b \in all
    PROVE  /\ Less(a, b) => MayPrecede(a, b, candidates, reported)
           /\ ~Less(a, b) => MayPrecede(b, a, candidates, reported)
<1>1. Known(a) /\ Known(b)
    BY Zenon DEF Ranking
<1>2. (Less(a, b) => (Default(b) => Default(a))) /\ (~Less(a, b) => (Default(a) => Default(b)))
    BY Zenon, <1>1, LessRanks
<1>3. ASSUME reported, a \in candidates, b \in candidates
      PROVE  (Less(a, b) => a.healthy >= b.healthy) /\ (~Less(a, b) => b.healthy >= a.healthy)
    <2>1. Default(a) <=> Default(b)
        BY Zenon, <1>3 DEF Ranking
    <2>2. a.healthy \in Int \cup {Nil} /\ b.healthy \in Int \cup {Nil} /\ a.healthy # Nil /\ b.healthy # Nil
        BY Zenon, <1>3 DEF Ranking, NodePool
    <2>3. Less(a, b) <=> a.healthy > b.healthy
        BY Zenon, <1>1, <2>1, <2>2, LessRanks
    <2>4. a.healthy \in Int /\ b.healthy \in Int
        BY Zenon, <2>2
    <2>5. (a.healthy > b.healthy => a.healthy >= b.healthy) /\ (~(a.healthy > b.healthy) => b.healthy >= a.healthy)
        BY <2>4
    <2> QED
        BY Zenon, <2>3, <2>5
<1> QED
    BY Zenon, <1>2, <1>3 DEF MayPrecede

LEMMA MayPrecedeTransitive ==
    ASSUME NEW all, NEW candidates, NEW reported, Ranking(all, candidates, reported),
           NEW a \in all, NEW b \in all, NEW c \in all,
           MayPrecede(a, b, candidates, reported), MayPrecede(b, c, candidates, reported)
    PROVE  MayPrecede(a, c, candidates, reported)
<1>1. Default(c) => Default(a)
    BY Zenon DEF MayPrecede
<1>2. ASSUME reported, a \in candidates, c \in candidates PROVE a.healthy >= c.healthy
    <2>1. b \in candidates
        BY Zenon, <1>2 DEF Ranking, MayPrecede
    <2>2. a.healthy >= b.healthy /\ b.healthy >= c.healthy
        BY Zenon, <1>2, <2>1 DEF MayPrecede
    <2>3. a.healthy \in Int /\ b.healthy \in Int /\ c.healthy \in Int
        BY Zenon, <1>2, <2>1 DEF Ranking, NodePool
    <2> QED
        BY <2>2, <2>3
<1> QED
    BY Zenon, <1>1, <1>2 DEF MayPrecede

\* sorted holds the first n node pools, each of which may precede the later ones.
RankedUpTo(sorted, nodepools, n, candidates, reported) ==
    /\ sorted \in NodePools /\ Len(sorted) = n
    /\ {sorted[j] : j \in 1 .. n} = {nodepools[k] : k \in 1 .. n}
    /\ \A i, j \in 1 .. n : i < j => MayPrecede(sorted[i], sorted[j], candidates, reported)

\* new is sorted with the pool in it: everything up to at stays, the pool comes next.
Inserted(new, sorted, pool, n, at) ==
    /\ at # 0 => ~Less(pool, sorted[at])
    /\ \A j \in at + 1 .. n : Less(pool, sorted[j])
    /\ new = [j \in 1 .. n + 1 |->
          IF j <= at THEN sorted[j] ELSE IF j = at + 1 THEN pool ELSE sorted[j - 1]]

LEMMA InsertShape ==
    ASSUME NEW n \in Nat, NEW sorted \in NodePools, Len(sorted) = n, NEW pool \in NodePool
    PROVE  \E at \in 0 .. n : Inserted(Insert(sorted, pool), sorted, pool, n, at)
<1> DEFINE stops == {0} \cup {j \in 1 .. n : ~Less(pool, sorted[j])}
           at == CHOOSE j \in stops : \A k \in stops : k <= j
<1>1. stops \in SUBSET (0 .. n) /\ stops # {}
    OBVIOUS
<1>2. \E j \in stops : \A k \in stops : k <= j
    BY Zenon, <1>1, NaturalMax
<1>3. at \in stops /\ \A k \in stops : k <= at
    BY Zenon, <1>2
<1>4. Insert(sorted, pool) = [j \in 1 .. n + 1 |->
                    IF j <= at THEN sorted[j] ELSE IF j = at + 1 THEN pool ELSE sorted[j - 1]]
    BY Zenon DEF Insert
<1> HIDE DEF at
<1>5. at \in 0 .. n /\ (at # 0 => ~Less(pool, sorted[at]))
    BY Zenon, <1>1, <1>3
<1>6. ASSUME NEW j \in at + 1 .. n PROVE Less(pool, sorted[j])
    <2>1. j \in 1 .. n /\ ~(j <= at)
        BY <1>5
    <2> QED
        BY Zenon, <1>3, <2>1
<1> QED
    BY Zenon, <1>4, <1>5, <1>6 DEF Inserted

\* An insertion keeps the ranking.
LEMMA InsertRanks ==
    ASSUME NEW nodepools \in NodePools, NEW candidates, NEW reported,
           Ranking({nodepools[k] : k \in 1 .. Len(nodepools)}, candidates, reported),
           NEW n \in 0 .. Len(nodepools) - 1, NEW sorted,
           RankedUpTo(sorted, nodepools, n, candidates, reported)
    PROVE  RankedUpTo(Insert(sorted, nodepools[n + 1]), nodepools, n + 1, candidates, reported)
<1> DEFINE pool == nodepools[n + 1]
           all == {nodepools[k] : k \in 1 .. Len(nodepools)}
           new == Insert(sorted, pool)
           May(a, b) == MayPrecede(a, b, candidates, reported)
<1>a. /\ Len(nodepools) \in Nat /\ n \in Nat /\ n + 1 \in 1 .. Len(nodepools)
      /\ \A k \in 1 .. n : k \in 1 .. Len(nodepools)
      /\ \A k \in 1 .. n + 1 : k = n + 1 \/ k \in 1 .. n
      /\ \A k \in 1 .. n : k \in 1 .. n + 1
      /\ n + 1 \in 1 .. n + 1
    BY DEF NodePools
<1>b. pool \in NodePool /\ pool \in all
    BY <1>a DEF NodePools
<1>c. sorted \in NodePools /\ Len(sorted) = n
    BY DEF RankedUpTo
<1>d. /\ {sorted[j] : j \in 1 .. n} = {nodepools[k] : k \in 1 .. n}
      /\ \A i, j \in 1 .. n : i < j => May(sorted[i], sorted[j])
    BY Zenon DEF RankedUpTo
<1>e. ASSUME NEW j \in 1 .. n PROVE sorted[j] \in all /\ sorted[j] \in NodePool
    <2>1. sorted[j] \in {nodepools[k] : k \in 1 .. n}
        BY Zenon, <1>d
    <2>2. sorted[j] \in all
        BY Zenon, <1>a, <2>1
    <2> QED
        BY Zenon, <2>2 DEF Ranking
<1>1. PICK at \in 0 .. n : Inserted(new, sorted, pool, n, at)
    BY Zenon, <1>a, <1>b, <1>c, InsertShape
<1> HIDE DEF pool, all, new, May
<1>2. ASSUME NEW j \in 1 .. n + 1
      PROVE  /\ j <= at => j \in 1 .. n /\ new[j] = sorted[j]
             /\ j = at + 1 => new[j] = pool
             /\ j > at + 1 => j - 1 \in at + 1 .. n /\ j - 1 \in 1 .. n /\ new[j] = sorted[j - 1]
             /\ j <= at \/ j = at + 1 \/ j > at + 1
    BY <1>1, <1>a DEF Inserted
<1>3. ASSUME NEW j \in 1 .. n + 1 PROVE new[j] \in NodePool
    BY Zenon, <1>2, <1>b, <1>e
<1>4. new \in NodePools /\ Len(new) = n + 1
    <2>1. \E at2 \in 0 .. n : new = [j \in 1 .. n + 1 |->
              IF j <= at2 THEN sorted[j] ELSE IF j = at2 + 1 THEN pool ELSE sorted[j - 1]]
        BY Zenon, <1>1 DEF Inserted
    <2>2. DOMAIN new = 1 .. n + 1 /\ new = [j \in 1 .. n + 1 |-> new[j]]
        BY <2>1
    <2>3. new \in [1 .. n + 1 -> NodePool] /\ n + 1 \in Nat
        BY <2>2, <1>3, <1>a
    <2>4. new \in Seq(NodePool)
        BY <2>3
    <2> QED
        BY <2>2, <2>3, <2>4 DEF NodePools
<1>5. ASSUME NEW j \in 1 .. n PROVE sorted[j] \in {new[k] : k \in 1 .. n + 1}
    <2>1. CASE j <= at
        <3>1. j \in 1 .. n + 1
            BY <1>a
        <3> QED
            BY Zenon, <1>2, <2>1, <3>1
    <2>2. CASE ~(j <= at)
        <3>1. j + 1 \in 1 .. n + 1 /\ j + 1 > at + 1 /\ (j + 1) - 1 = j
            BY <1>a, <1>1, <2>2
        <3>2. new[j + 1] = sorted[(j + 1) - 1]
            BY Zenon, <1>2, <3>1
        <3> QED
            BY <3>1, <3>2
    <2> QED
        BY Zenon, <2>1, <2>2
<1>6. pool \in {new[k] : k \in 1 .. n + 1}
    <2>1. at + 1 \in 1 .. n + 1
        BY <1>a, <1>1
    <2> QED
        BY Zenon, <1>2, <2>1
<1>7. {new[j] : j \in 1 .. n + 1} = {nodepools[k] : k \in 1 .. n + 1}
    <2>1. ASSUME NEW j \in 1 .. n + 1 PROVE new[j] \in {nodepools[k] : k \in 1 .. n + 1}
        <3>1. pool \in {nodepools[k] : k \in 1 .. n + 1}
            BY Zenon, <1>a DEF pool
        <3>2. ASSUME NEW i \in 1 .. n PROVE sorted[i] \in {nodepools[k] : k \in 1 .. n + 1}
            <4>1. sorted[i] \in {nodepools[k] : k \in 1 .. n}
                BY Zenon, <1>d
            <4> QED
                BY Zenon, <1>a, <4>1
        <3> QED
            BY Zenon, <1>2, <3>1, <3>2
    <2>2. ASSUME NEW k \in 1 .. n + 1 PROVE nodepools[k] \in {new[j] : j \in 1 .. n + 1}
        <3>1. CASE k = n + 1
            BY Zenon, <1>6, <3>1 DEF pool
        <3>2. CASE k \in 1 .. n
            <4>1. nodepools[k] \in {sorted[j] : j \in 1 .. n}
                BY Zenon, <1>d, <3>2
            <4> QED
                BY Zenon, <1>5, <4>1
        <3> QED
            BY Zenon, <1>a, <3>1, <3>2
    <2> QED
        BY Zenon, <2>1, <2>2
<1>8. ASSUME NEW j \in at + 1 .. n PROVE May(pool, sorted[j])
    <2>1. j \in 1 .. n /\ Less(pool, sorted[j])
        BY <1>1 DEF Inserted
    <2> QED
        BY Zenon, <1>b, <1>e, <2>1, LessMayPrecede DEF May, all
<1>9. ASSUME NEW j \in 1 .. n, j <= at PROVE May(sorted[j], pool)
    <2>1. at # 0 /\ at \in 1 .. n /\ (j < at \/ j = at)
        BY <1>1, <1>9
    <2>2. sorted[at] \in all /\ sorted[j] \in all /\ ~Less(pool, sorted[at])
        BY Zenon, <1>1, <1>e, <2>1 DEF Inserted
    <2>3. May(sorted[at], pool)
        BY Zenon, <1>b, <2>2, LessMayPrecede DEF May, all
    <2>4. CASE j = at
        BY Zenon, <2>3, <2>4
    <2>5. CASE j < at
        <3>1. May(sorted[j], sorted[at])
            BY Zenon, <1>d, <2>1, <2>5
        <3> QED
            BY Zenon, <1>b, <2>2, <2>3, <3>1, MayPrecedeTransitive DEF May, all
    <2> QED
        BY Zenon, <2>1, <2>4, <2>5
<1>10. ASSUME NEW i \in 1 .. n + 1, NEW j \in 1 .. n + 1, i < j PROVE May(new[i], new[j])
    <2>1. CASE i <= at /\ j <= at
        BY Zenon, <1>2, <1>d, <1>10, <2>1
    <2>2. CASE i <= at /\ j = at + 1
        BY Zenon, <1>2, <1>9, <2>2
    <2>3. CASE i <= at /\ j > at + 1
        <3>1. i < j - 1
            BY <1>1, <2>3
        <3> QED
            BY Zenon, <1>2, <1>d, <2>3, <3>1
    <2>4. CASE i = at + 1 /\ j > at + 1
        BY Zenon, <1>2, <1>8, <2>4
    <2>5. CASE i > at + 1 /\ j > at + 1
        <3>1. i - 1 < j - 1
            BY <1>10
        <3> QED
            BY Zenon, <1>2, <1>d, <2>5, <3>1
    <2>6. \/ i <= at /\ j <= at
          \/ i <= at /\ j = at + 1
          \/ i <= at /\ j > at + 1
          \/ i = at + 1 /\ j > at + 1
          \/ i > at + 1 /\ j > at + 1
        BY <1>1, <1>10
    <2> QED
        BY Zenon, <2>1, <2>2, <2>3, <2>4, <2>5, <2>6
<1>11. RankedUpTo(new, nodepools, n + 1, candidates, reported)
    BY <1>4, <1>7, <1>10 DEF RankedUpTo, May
<1> QED
    BY Zenon, <1>11 DEF new, pool

\* The sort ranks: there is no first insertion that breaks the ranking.
LEMMA SortRanks ==
    ASSUME NEW nodepools \in NodePools, NEW candidates, NEW reported,
           Ranking({nodepools[k] : k \in 1 .. Len(nodepools)}, candidates, reported)
    PROVE  RankedUpTo(Sorted(nodepools)[Len(nodepools)], nodepools, Len(nodepools), candidates, reported)
<1> DEFINE Good(n) == RankedUpTo(Sorted(nodepools)[n], nodepools, n, candidates, reported)
           wrong == {n \in 0 .. Len(nodepools) : ~Good(n)}
<1>a. Len(nodepools) \in Nat
    BY DEF NodePools
<1>1. wrong = {}
    <2> SUFFICES ASSUME wrong # {} PROVE FALSE
        BY Zenon
    <2> DEFINE m == Min(wrong)
    <2>1. wrong \in SUBSET Nat
        BY <1>a
    <2>2. m \in wrong /\ \A n \in wrong : m <= n
        BY Zenon, <2>1, NaturalMin
    <2> HIDE DEF m
    <2>3. m \in 0 .. Len(nodepools) /\ ~Good(m)
        BY Zenon, <2>2
    <2>4. CASE m = 0
        <3>1. Sorted(nodepools)[0] = <<>>
            BY Zenon, <1>a, SortSteps
        <3>2. <<>> \in NodePools /\ Len(<<>>) = 0 /\ 1 .. 0 = {}
            BY DEF NodePools
        <3>3. RankedUpTo(<<>>, nodepools, 0, candidates, reported)
            <4> DEFINE empty == <<>>
            <4>1. empty \in NodePools /\ Len(empty) = 0 /\ 1 .. 0 = {}
                BY Zenon, <3>2
            <4> HIDE DEF empty
            <4>2. RankedUpTo(empty, nodepools, 0, candidates, reported)
                BY Zenon, <4>1 DEF RankedUpTo
            <4> QED
                BY Zenon, <4>2 DEF empty
        <3> QED
            BY Zenon, <2>3, <2>4, <3>1, <3>3
    <2>5. CASE m # 0
        <3>1. /\ m \in 1 .. Len(nodepools) /\ m - 1 \in 0 .. Len(nodepools) - 1 /\ ~(m <= m - 1)
              /\ m - 1 \in 0 .. Len(nodepools) /\ (m - 1) + 1 = m
            BY <1>a, <2>3, <2>5
        <3>2. Good(m - 1)
            BY Zenon, <2>2, <3>1
        <3>3. Sorted(nodepools)[m] = Insert(Sorted(nodepools)[m - 1], nodepools[m])
            BY Zenon, <1>a, <3>1, SortSteps
        <3>4. RankedUpTo(Insert(Sorted(nodepools)[m - 1], nodepools[(m - 1) + 1]), nodepools, (m - 1) + 1,
                         candidates, reported)
            BY Zenon, <3>1, <3>2, InsertRanks
        <3> QED
            BY Zenon, <2>3, <3>1, <3>3, <3>4
    <2> QED
        BY Zenon, <2>4, <2>5
<1>2. Len(nodepools) \in 0 .. Len(nodepools)
    BY <1>a
<1> QED
    BY Zenon, <1>1, <1>2

\* The runtime of a new Node is that of a default pool if there is one, and of one with
\* the most healthy nodes among these if all of them report them, for any number of node
\* pools in any order (getClusterAttachRuntimeConfiguration's sort).
LEMMA DefaultPoolIsFirst ==
    ASSUME NEW nodepools \in Seq(NodePool), nodepools # <<>>
    PROVE  DefaultPoolFirst(nodepools)
<1> DEFINE length == Len(nodepools)
           all == {nodepools[k] : k \in DOMAIN nodepools}
           default == {p \in all : p.isDefault = TRUE}
           candidates == IF default = {} THEN all ELSE default
           reported == \A p \in candidates : p.healthy # Nil
           sorted == Sorted(nodepools)[length]
           target == TargetNodepool(nodepools)
<1> SUFFICES ASSUME \A p \in all : p.info /\ p.isDefault # Nil
             PROVE  /\ target \in candidates
                    /\ reported => \A p \in candidates : target.healthy >= p.healthy
    BY Zenon DEF DefaultPoolFirst
<1>a. /\ nodepools \in NodePools /\ length \in Nat /\ 1 \in 1 .. length
      /\ \A k \in 1 .. length : nodepools[k] \in NodePool
      /\ DOMAIN nodepools = 1 .. length
    BY DEF NodePools
<1>b. target = sorted[1]
    BY Zenon DEF TargetNodepool
<1> HIDE DEF target, length
<1>1. all = {nodepools[k] : k \in 1 .. length}
    BY Zenon, <1>a
<1>2. \A p \in all : p \in NodePool
    BY Zenon, <1>a, <1>1
<1> HIDE DEF all
<1>3. \A p \in all : Known(p)
    BY Zenon, <1>2 DEF Known, NodePool
<1>4. candidates = IF \A p \in all : ~Default(p) THEN all ELSE {p \in all : Default(p)}
    BY Zenon DEF Default
<1>5. candidates \subseteq all
    BY Zenon
<1>6. (\E p \in all : Default(p)) => \A p \in all : Default(p) => p \in candidates
    BY Zenon DEF Default
<1> HIDE DEF candidates, sorted
<1>7. Ranking(all, candidates, reported)
    BY Zenon, <1>2, <1>3, <1>4 DEF Ranking
<1> HIDE DEF reported
<1>8. RankedUpTo(sorted, nodepools, length, candidates, reported)
    BY Zenon, <1>1, <1>7, <1>a, SortRanks DEF length, sorted
<1>9. /\ {sorted[j] : j \in 1 .. length} = all
      /\ \A i, j \in 1 .. length : i < j => MayPrecede(sorted[i], sorted[j], candidates, reported)
    BY Zenon, <1>1, <1>8 DEF RankedUpTo
<1>10. target \in all
    BY Zenon, <1>9, <1>a, <1>b
<1>11. ASSUME NEW p \in all PROVE p = target \/ MayPrecede(target, p, candidates, reported)
    <2>1. PICK j \in 1 .. length : p = sorted[j]
        BY Zenon, <1>9
    <2>2. j = 1 \/ 1 < j
        BY <1>a
    <2> QED
        BY Zenon, <1>9, <1>a, <1>b, <2>1, <2>2
<1>12. target \in candidates
    <2>1. CASE \E p \in all : Default(p)
        <3>1. Default(target)
            BY Zenon, <1>11, <2>1 DEF MayPrecede
        <3> QED
            BY Zenon, <1>6, <1>10, <2>1, <3>1
    <2>2. CASE \A p \in all : ~Default(p)
        BY Zenon, <1>4, <1>10, <2>2
    <2> QED
        BY Zenon, <2>1, <2>2
<1>13. ASSUME reported, NEW p \in candidates PROVE target.healthy >= p.healthy
    <2>1. CASE p = target
        <3>1. target.healthy \in Int
            BY Zenon, <1>2, <1>10, <1>12, <1>13 DEF reported, NodePool
        <3> QED
            BY <2>1, <3>1
    <2>2. CASE p # target
        BY Zenon, <1>5, <1>11, <1>12, <1>13, <2>2 DEF MayPrecede
    <2> QED
        BY Zenon, <2>1, <2>2
<1> QED
    BY Zenon, <1>12, <1>13

-----------------------------------------------------------------------------
(* The questions of Resources. *)

Asked ==
    /\ about = "types" => question \in TypeQuestion
    /\ about = "pools" => question \in Seq(NodePool) \ {<<>>}

LEMMA AskedHolds == AskSpec => []Asked
<1>1. AskInit => Asked
    BY Zenon DEF AskInit, Asked
<1>2. Asked /\ [AskNext]_askVars => Asked'
    <2> SUFFICES ASSUME Asked, [AskNext]_askVars PROVE Asked'
        OBVIOUS
    <2>1. CASE Ask("types", TypeQuestions)
        BY Zenon, <2>1, QuestionsAssumption DEF Ask, Asked
    <2>2. CASE Ask("pools", PoolQuestions)
        BY Zenon, <2>2, QuestionsAssumption DEF Ask, Asked
    <2>3. CASE Answered
        BY Zenon, <2>3 DEF Answered, Asked
    <2>4. CASE UNCHANGED askVars
        BY Zenon, <2>4 DEF askVars, Asked
    <2> QED
        BY Zenon, <2>1, <2>2, <2>3, <2>4 DEF AskNext
<1> QED
    BY <1>1, <1>2, PTL DEF AskSpec

\* NewInstanceType holds back less than a type has, whichever types ECS describes and
\* whatever the kubelet configuration, the network plugin and the overhead are.
THEOREM RoomIsLeft == AskSpec => []TypesLeaveRoom
<1>1. Asked => TypesLeaveRoom
    <2> SUFFICES ASSUME question \in TypeQuestion
                 PROVE  AllocatableIsPositive(question.info, question.maxPods, question.podsPerCore,
                                              question.clusterCNI, question.vmOverhead)
        BY Zenon DEF Asked, TypesLeaveRoom
    <2>1. /\ question.info \in Info /\ question.maxPods \in Optional
          /\ question.podsPerCore \in Optional /\ question.vmOverhead \in Nat
        BY Zenon DEF TypeQuestion
    <2> QED
        BY Zenon, <2>1, SomethingIsLeft
<1> QED
    BY <1>1, AskedHolds, PTL

\* Of the node pools of a cluster, however many there are and in whichever order they
\* are listed, the sort of getClusterAttachRuntimeConfiguration puts a default one with
\* the most healthy nodes first.
THEOREM PoolsRanked == AskSpec => []PoolsAreRanked
<1>1. Asked => PoolsAreRanked
    BY Zenon, DefaultPoolIsFirst DEF Asked, PoolsAreRanked
<1> QED
    BY <1>1, AskedHolds, PTL

=============================================================================
