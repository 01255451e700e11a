------------------------------ MODULE Resources ------------------------------
(***************************************************************************)
(* What an instance type offers and what of it is held back                *)
(* (pkg/providers/instancetype/types.go), and the node pool whose runtime  *)
(* a new Node gets (getClusterAttachRuntimeConfiguration in                *)
(* pkg/providers/ack/ack.go).  Pure functions: CPU in millicores, memory   *)
(* in MiB, an optional value that is not set is Nil.                       *)
(***************************************************************************)
EXTENDS Integers, Sequences

CONSTANTS
    Nil,
    IntLimit    \* the code's int32 runs from -IntLimit to IntLimit - 1

ASSUME IntLimitAssumption == IntLimit \in Nat \ {0} /\ Nil \notin Int

Smaller(a, b) == IF a < b THEN a ELSE b

\* a / b rounded up
Ceiling(a, b) == -((-a) \div b)

-----------------------------------------------------------------------------
Wrap(n) == ((n + IntLimit) % (2 * IntLimit)) - IntLimit

\* maxPods wins; otherwise the network plugin decides.
MaxPods(info, maxPods, clusterCNI) ==
    IF maxPods # Nil THEN maxPods
    ELSE CASE clusterCNI = "terway-eniip" -> Wrap((info.enis - 1) * info.ips + 3)
           [] clusterCNI = "Flannel"      -> 256
           [] OTHER                       -> 110

\* podsPerCore lowers the limit, in 32 bit arithmetic.
pods(info, maxPods, podsPerCore, clusterCNI) ==
    LET count == MaxPods(info, maxPods, clusterCNI) IN
    IF podsPerCore # Nil /\ podsPerCore > 0
    THEN Smaller(Wrap(podsPerCore * info.cores), count)
    ELSE count

\* UpdateInstanceTypes drops the types with too few addresses for Terway.
Selected(info, clusterCNI) ==
    clusterCNI = "terway-eniip" => Wrap((info.enis - 1) * info.ips) >= 11

\* The memory of a type less what the virtualisation takes of it, vmOverhead in
\* thousandths (VMMemoryOverheadPercent).
memory(info, vmOverhead) == info.memory - Ceiling(info.memory * vmOverhead, 1000)

\* The thresholds, and a quarter of a percent of what exceeds four cores.
calculateCPUOverhead(cpuM) ==
    LET above(cores, overhead) == IF cpuM >= cores THEN overhead ELSE 0 IN
    above(1000, 60) + above(2000, 10) + above(3000, 5) + above(4000, 5)
        + (IF cpuM > 4000 THEN (cpuM - 4000) \div 400 ELSE 0)

MemoryOverheadUncapped(count, memoryMi) == 11 * count + 255 + 200

MemoryOverhead(count, memoryMi) == Smaller(11 * count + 255, memoryMi \div 4) + 200

\* NewInstanceType: the capacity less the overhead, as the core schedules with it.
Allocatable(info, maxPods, podsPerCore, clusterCNI, vmOverhead) ==
    LET count == pods(info, maxPods, podsPerCore, clusterCNI) IN
    [pods   |-> count,
     cpu    |-> 1000 * info.cores - calculateCPUOverhead(1000 * info.cores),
     memory |-> memory(info, vmOverhead) - MemoryOverhead(count, info.memory)]

-----------------------------------------------------------------------------
\* A pool without NodepoolInfo has info FALSE; isDefault and healthy may be Nil.
LessByHealth(a, b) ==
    /\ a.info /\ b.info
    /\ a.healthy # Nil /\ b.healthy # Nil /\ a.healthy > b.healthy

Less(a, b) ==
    /\ a.info /\ b.info
    /\ IF a.isDefault # Nil /\ b.isDefault # Nil /\ a.isDefault # b.isDefault
       THEN a.isDefault
       ELSE a.healthy # Nil /\ b.healthy # Nil /\ a.healthy > b.healthy

\* One step of the insertion sort that sort.Slice is for up to 12 elements: a pool
\* goes past those it is less than, up to the first it is not less than.
Insert(sorted, pool) ==
    LET stops == {0} \cup {j \in 1 .. Len(sorted) : ~Less(pool, sorted[j])}
        at == CHOOSE j \in stops : \A k \in stops : k <= j
    IN  [j \in 1 .. Len(sorted) + 1 |->
            IF j <= at THEN sorted[j] ELSE IF j = at + 1 THEN pool ELSE sorted[j - 1]]

\* The sort: for each n, the first n node pools sorted.
Sorted(nodepools) ==
    LET sorted[n \in 0 .. Len(nodepools)] ==
            IF n = 0 THEN <<>> ELSE Insert(sorted[n - 1], nodepools[n])
    IN  sorted

\* getClusterAttachRuntimeConfiguration takes the first pool after the sort.
TargetNodepool(nodepools) == Sorted(nodepools)[Len(nodepools)][1]

-----------------------------------------------------------------------------
\* An instance type the provider offers leaves something to schedule: with at
\* least half a GiB of memory, any kubelet configuration whose podsPerCore does
\* not overflow, any network plugin and up to 30 % virtualisation overhead, what
\* is held back is less than the capacity and the pod count is not negative
\* (NewInstanceType, calculateResourceOverhead, the filter of UpdateInstanceTypes).
AllocatableIsPositive(info, maxPods, podsPerCore, clusterCNI, vmOverhead) ==
    LET left == Allocatable(info, maxPods, podsPerCore, clusterCNI, vmOverhead) IN
    /\ info.cores >= 1 /\ info.memory >= 512
    /\ Selected(info, clusterCNI)
    /\ (info.enis - 1) * info.ips + 3 < IntLimit
    /\ podsPerCore # Nil => podsPerCore * info.cores < IntLimit
    /\ vmOverhead <= 300
    => left.pods >= 0 /\ left.cpu > 0 /\ left.memory > 0

\* Where every pool says whether it is the default one, the runtime is that of a
\* default pool if there is one, and of one with the most healthy nodes among
\* these (or all) if all of them report them, whatever order the API lists them in
\* (getClusterAttachRuntimeConfiguration's comment and sort).
DefaultPoolFirst(nodepools) ==
    LET target == TargetNodepool(nodepools)
        all == {nodepools[k] : k \in DOMAIN nodepools}
        default == {p \in all : p.isDefault = TRUE}
        candidates == IF default = {} THEN all ELSE default
    IN  (\A p \in all : p.info /\ p.isDefault # Nil) =>
            /\ target \in candidates
            /\ (\A p \in candidates : p.healthy # Nil) =>
                \A p \in candidates : target.healthy >= p.healthy

=============================================================================
