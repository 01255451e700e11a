# A TLA+ development of the Alibaba Cloud provider for Karpenter

Karpenter's core (vendored) decides which nodes a cluster needs and writes
*NodeClaims*. This repository supplies the other half: a `CloudProvider` that
turns a NodeClaim into an ECS instance, and controllers that keep ECS, the
NodeClaims and the `ECSNodeClass` objects consistent with each other. This
directory holds TLA+ modules of that half, TLC models of them, and TLAPS proofs.

Paths below are relative to `src/pkg/`. Section 1 is the inventory, 2 describes
the modules, 3 the runs, 4 the proofs, 5 what is left out, and 6 what could come next.

## 1. The system

### 1.1 Parts and how they interact

| Part | Code | State | Operations |
|---|---|---|---|
| Unavailable offerings | `cache/unavailableofferings.go` | go-cache of (type, zone, capacity type), `SeqNum` | mark, flush, expiry and eviction |
| Instance type provider | `providers/instancetype/` | types, on-demand and spot stock, two sequence numbers, a cache of built results | `List`, `UpdateInstanceTypes`, `UpdateInstanceTypeOfferings` |
| Pricing provider | `providers/pricing/` | on-demand and spot prices | two updates, two lookups |
| Instance provider | `providers/instance/` | cache of instances, `lastUpdateTime` | `Create`, `List`, `Get`, `Delete`, `CreateTags` |
| Cloud provider | `cloudprovider/` | none of its own | the core's interface; `IsDrifted` |
| Garbage collection | `controllers/nodeclaim/garbagecollection/` | none | delete instances without NodeClaim |
| NodeClass status | `controllers/nodeclass/status/` | `ECSNodeClass` status, finalizer | resolve vSwitches, security groups, images |
| NodeClass termination | `controllers/nodeclass/termination/` | finalizer | remove it once no NodeClaim is left |
| NodeClass hash | `controllers/nodeclass/hash/` | hash annotations of NodeClass and NodeClaims | annotate, migrate after an upgrade |
| Interruption | `controllers/interruption/` | none | mark the offering, delete the NodeClaim |
| vSwitch provider | `providers/vswitch/` | described and in-flight address counts, list cache | `List`, `ZonalVSwitchesForLaunch` |
| Image and version providers | `providers/imagefamily/`, `providers/version/` | image cache, version cache | `List`, `Get` |
| System disk resolver | `providers/imagefamily/resolver.go` | cache of supported disks | filter instance types |
| Security group provider | `providers/securitygroup/` | list cache | `List` |
| Tagging | `controllers/nodeclaim/tagging/` | tags, annotations of NodeClaims | tag the instance, then annotate |
| Unregistered taint | `controllers/nodeclaim/unregisteredtaint/` | taints of Nodes | remove the taint from registered Nodes |
| ACK provider | `providers/ack/` | cached register script, network plugin | user data of new Nodes |
| Telemetry, operator | `controllers/telemetry/`, `operator/` | configuration | I/O and wiring |

Every controller and every call of the core is a goroutine of one process. They
meet in the providers' caches, some behind mutexes, some go-caches used in
several unsynchronised steps. They meet again in the API server, which they
read through lagging informers and write with or without an optimistic lock,
and in ECS, whose requests fail and whose instances change state on their own.

### 1.2 Hard behaviours and the property that goes with each

* **Caches keyed by change counters.** A `List` of instance types takes several
  steps while offerings are marked, evicted and refreshed. A result stored under
  a key must not contradict what that key promises
  (`MarkedOfferingsStayHidden`, `EvictedOfferingsComeBack`, `TypesAreCurrent`,
  `OnDemandStockIsCurrent`, `ListsAreRegular`, and `SystemDiskIsTheCallers`, which does not hold).
* **A cache with a clock.** `Get` and `Delete` decide on an instance status up to
  15 seconds old (`DeleteNeverSeesPending`), the tagging controller on tags of that age
  (`AnnotatedIsTagged`).
* **Lists and a grace period.** Garbage collection compares instances, NodeClaims
  and Nodes listed at different times, across restarts
  (`KnownInstancesAreSpared`, `GraceCoversLaunches`, `OrphansAreCollected`).
* **Optimistic locks over informers.** The NodeClass: `FinalizerKeepsPromise`,
  `StatusIsOfTheSpec`, `StatusCatchesUp`, `DeletionCompletes`. Nodes: `OthersTaintsStay`,
  `UnregisteredKeepsTaint`, `TaintGoes`, `TaintsAreAtomic`.
* **A migration of many objects that may fail half-way.** `NoClaimLeftBehind`,
  `UpgradeCausesNoDrift`, `DriftIsExact`, `ChangesAreKept`, `HashSettles`.
* **A pipeline of filters with different notions of "cheapest".**
  `LaunchIsPossible`, `SpotZoneIsCheapest`, `RefusedTypesAreLeftOut`,
  and `ZoneRequirementHolds`, which does not hold.
* **In-flight accounting under concurrency.** `EveryDeductionCounts`,
  `ZonalChoiceIsBest`.
* **Stacked caches.** `ImagesFollowUpgrades`, `OneImagePerArch`,
  `ImagesAreOfTheTerms`.
* **Listings that fail halfway, and results that others share.** `NoDriftWithoutChange`
  (security groups), `FilterIsExact` (system disks).
* **Events that are not repeated.** `InterruptionsAreKept`, `InterruptedAreDeleted`, `MarkedBeforeDeleted`.
* **Arithmetic at its edges, comparisons that are no order.** `TypesLeaveRoom`,
  `PoolsAreRanked`.

`PROJECT.json` lists these as hazards, each at the line where it bites,
including the few no property covers, each with the reason.

## 2. The modules

Conventions used throughout:

* **Time** passes in ticks. What expires has a number of ticks left, so states do
  not grow with an absolute clock.
* **An informer** is a copy of an object (`cache`, `view`) and an action by which
  it catches up. A patch with an optimistic lock succeeds only if the copy it
  started from is still the object (`fresh`).
* **A reconcile** is a small process with a program counter `pc`, one action per
  API call or cache operation.
* **Bounds** are constants named `Max...` and appear in guards only.
* Operators right before a definition, with a related name, are plausible wrong
  versions of it; `PROJECT.json` lists them as mutants, and each makes the
  property it is listed with fail.

### UnavailableOfferings
`cache/unavailableofferings.go`. `unavailable` is the go-cache: an entry is absent, live,
or expired and not yet removed by the janitor. `evicting` holds the removed ones whose `OnEvicted` is still to be called.
`seqNum` is `SeqNum`. `MarkUnavailable` is two actions, `MarkSet` and `MarkBump`,
because nothing makes the `Set` and the `atomic.AddUint64` one step. `settled` is a
history variable: what all completed calls say of an offering, and since which
counter value.

### InstanceTypes (extends UnavailableOfferings)
`providers/instancetype/` with the prices `List` consults. `List` is
`ListStart` (reads the sequence numbers, forms the key), a lookup, the reading
of one offering per step, and the store. The refreshes replace the types, then the
on-demand stock, then the spot stock, and may fail after each request. A result
keeps its types, the system disk it was built for, and which offerings it has and hides.

### RegularOfferings
The abstract specification of InstanceTypes and UnavailableOfferings together, with no go-cache, counter, key or cached
result: each offering is a *regular register*. Operations unsettle it and settle it. A `List` during which
nothing happens to a settled offering answers as it is settled; any other may answer either way. The refinement mapping is
`InstanceTypes!Regular`: `settled` gives the registers, and `before`, what `settled` was when a `List` began,
tells whether something has happened since. That `InstanceTypes` implements it is `ListsAreRegular`.

### InstanceProvider
`List`, `Get`, `Delete`, `CreateTags` of `providers/instance/instance.go`, one cache
operation, ECS call or write of `lastUpdateTime` per step, and any number of
callers. ECS is `ecs`, a status per instance that also changes by itself: an instance boots, is stopped, started again or
rebooted any number of times (`Restart`), and released. "Pending" is one that has not run yet, "Starting" one that is
started again; `Described` is what `DescribeInstances` says of each. The check of `lastUpdateTime` and the reading of the cached items are two steps. The module has no
next-state relation of its own: GarbageCollection and Tagging supply the callers.

### Tagging (extends InstanceProvider)
The tagging controller as one caller of InstanceProvider beside others. The
module adds the tags: those in ECS, those of each cache entry (`cachedTags`) and those a
call has been given (`callTags`). `CarryTags` says what each step of the provider does with
them, so the two caches move together. `AddTags` may take effect although it reports an error.

### GarbageCollection (extends InstanceProvider)
The controller with one worker per instance it deletes (`workqueue.ParallelizeUntil`),
beside the core's launch and termination of NodeClaims and restarts of the process.
The collector, the workers and the core are the callers of InstanceProvider, so
their calls run through the very cache actions of that module. `Granularity` is
how far a creation time may lie before the launch: ECS prints it in whole minutes; the history
variable `early` records how far it did. Instances, NodeClaims and Nodes are listed in three steps. `GcListFails` is a listing of instances that ends in an error, from ECS or
from the lookup of an instance type, `GcKubeListFails` one of the other two. The deletion of the Node that a worker ends with may fail.

### NodeClass
The status controller, the termination controller and `CloudProvider.Create`'s
checks of readiness and deletion. One `ECSNodeClass`, its copy in the informer,
NodeClaims, and a cloud in which selectors match or not. Lists, resolutions and patches may fail, each after its own steps.

### Lifetime
The abstract specification of what a finalizer is for: something with users is removed only
when it has none. `NodeClass!Promise` instantiates it with the NodeClaims that are past `Create`'s
checks as users; that `NodeClass` implements it is the property `FinalizerKeepsPromise`.

### NodeClassHash
The hash controller, `Create`'s annotations and `areStaticFieldsDrifted`. A hash is
the pair of the version and the hashed content. `v2` annotations are those of an
older release. Initially the objects are of either release. The field `by` of a NodeClaim is history:
whether `Create` or the migration wrote its annotations.

### VSwitch
`List` and `ZonalVSwitchesForLaunch`; `availableIPAddressCache` and `inflightIPs` are
functions from vSwitches to counts or `None`. The provider's mutex is modelled. The loop over the status is
`ZonalAfter`: `KeepBest` is its body, and `ZonalAfter[n]` what it has kept after `n` vSwitches.

### Launch
`Create` from `CloudProvider.Create`'s resolution of the types through the three
filters, the truncation to the cheapest types (`Truncate`), `getCapacityType`, `getVSwitchID`, the request and the reading of the
response, each with its error returns. What a launch is about is chosen in `Init`; a type or zone may have no price, and then has no
offering. `GetVSwitchID` is the code's loop: `KeepCheaper` is its body, `CheapestAfter` what it has kept after some zones, which come in any order
(`ZoneOrders`). A result without stock marks its offering only if it names type and zone (`Mark`), while the error
does not depend on that (`Respond`). A failed launch is tried again. Between attempts marks expire and other launches make marks.
`refused` is history: the offerings whose mark has not expired.

### Images
`imagefamily.List`, `GetImages` and `version.Get` with their caches, and the
reconciler that writes the status. `version.Get` is a hit (`VersionHit`), or a request (`ServerVersion`) and the store
of its answer (`VersionStore`) with time and upgrades in between. What ACK and ECS answer for a selector term is a
constant.

### Interruption (extends UnavailableOfferings)
The event filter, `Reconcile`, the workqueue, and the informer by which a Node's
NodeClaim is found. It runs on the unavailable offerings' own actions, with the janitor
running beside it.

### SecurityGroup
One selector, from its terms to drift: `List` term by term with its cache under the mutex, the reconciler
that writes the status, the launch that copies it to an instance, and
`areSecurityGroupsDrifted`. `steady` is history: nothing the selector
matches has changed since the listing that some groups come from began.

### Registration
A Node from its user data to a registered Node without taint: the cached register script and the taint it
joins with (ACK provider), the core's registration, and the unregistered taint controller, which
reads Nodes from an informer and patches their list of taints with an optimistic lock. A copy of a Node has
`current`, whether its resource version is still the Node's. A deleted Node may join again under its name.

### AtomicTaints
The abstract specification of Registration: the core and the controller look at a Node and take the taint off in one step, with no
informer, list, patch or conflict. `Registration!Atomic` instantiates it with what is on the Node itself
(`Now`), forgetting all copies; that `Registration` implements it is `TaintsAreAtomic`.

### SystemDisk
`FilterInstanceTypesBySystemDisk`: the workers, in any order, over the cache of the disks ECS
offers for a type. The histories `steady` and `exact` tell which entries and decisions still agree with ECS.

### Resources
Pure functions: the pods, CPU and memory of an instance type and what is held back of them, with
32 bit products wrapped at `IntLimit`; and the sort by which the ACK provider picks a node pool, as the insertion sort that Go uses
for short slices (`Insert`, `Sorted`).

### Questions (extends Resources)
The functions of Resources asked one question after another, each about an instance type (`TypeQuestions`) or the node pools
of a cluster (`PoolQuestions`), so that what is true of them is an invariant.

### MC modules
`MCX` extends `X` with the values its configuration needs (sets of records, functions over the
model values, symmetry). `NodeClass` and `NodeClassHash` need none and are run themselves.
`MCNodes` runs SecurityGroup, Registration, SystemDisk and Questions: they share no state, so each behaviour is about
one of them (`focus`).

## 3. The runs

Bounds are chosen so that two of whatever may conflict exist: two callers, two
NodeClaims, two specs, two NodeClasses. One instance or zone is
enough where the code treats them independently.

### Runs that pass

| Run | Properties | Bounds | What it shows |
|---|---|---|---|
| `types` | `MarkedOfferingsStayHidden`, `EvictedOfferingsComeBack`, `TypesAreCurrent`, `OnDemandStockIsCurrent`, `ListsAreRegular` | 2 types, 2 markers, 1 lister, `SeqNum` to 3, 2 effective refreshes | a `List` that starts after a mark (or announced eviction) is complete returns nothing that contradicts it, from the cache or built, and nothing that the last refresh did not find; it implements `RegularOfferings` |
| `tagging` | `DeleteNeverSeesPending`, `AnnotatedIsTagged` | 1 instance, 2 tags, the controller and another caller, expiry 1 tick | ECS is never asked to delete an instance that has not run yet, although instances are stopped, started again and rebooted; no NodeClaim is annotated whose instance lacks a tag |
| `gc` | `KnownInstancesAreSpared`, `GraceCoversLaunches`, `OrphansAreCollected` | 1 instance, exact creation times, a collection within a tick, all other times 1 tick, 1 restart | an instance that had a NodeClaim when instances were listed is not collected while the NodeClaim exists, nor is a new one; every orphan is deleted in the end, unless it stops or is released by itself or is started again for ever |
| `hash` | `NoClaimLeftBehind`, `UpgradeCausesNoDrift`, `DriftIsExact`, `ChangesAreKept`, `HashSettles` | 2 NodeClaims, 2 specs, 2 edits | the migration leaves no NodeClaim behind and replaces no node; drift is reported for another spec only; no edit is forgotten, and annotations catch up |
| `nodeclass` | `TypeOK`, `FinalizerKeepsPromise`, `StatusIsOfTheSpec`, `StatusCatchesUp`, `DeletionCompletes` | 1 kind of status, 2 specs, 1 NodeClaim | no NodeClass is removed under an instance, no status is written for a replaced spec, neither status nor deletion is stuck |
| `vswitch` | `EveryDeductionCounts`, `ZonalChoiceIsBest` | 2 vSwitches in a zone, 2 launches, 2 types | no deduction since a refresh is lost; the choice is the best by the tracked counts |
| `launch` | `LaunchIsPossible`, `SpotZoneIsCheapest`, `RefusedTypesAreLeftOut` | 3 types, 2 zones, 6 pricings with and without missing prices, truncation to 2 types | the filters leave something to launch; spot goes to the cheapest zone; a retry leaves out the types, and a capacity type, whose every offering that the NodeClaim allows was refused |
| `images` | `OneImagePerArch`, `ImagesAreOfTheTerms`, `ImagesFollowUpgrades` | 2 NodeClasses, 3 specs, 1 upgrade, times to live 2 and 1 | images are right, and out of date for at most both times to live and three `List`s |
| `interruption` | `MarkedBeforeDeleted`, `InterruptionsAreKept`, `InterruptedAreDeleted` | 2 Nodes, one whose offering is not known, 1 failing deletion | the NodeClaim of an interrupted Node is deleted, in whichever order events come, never forgotten on the way, and only after its offering has been marked |
| `nodes` | `NoDriftWithoutChange`, `UnregisteredKeepsTaint`, `OthersTaintsStay`, `TaintGoes`, `TaintsAreAtomic`, `FilterIsExact`, `TypesLeaveRoom`, `PoolsAreRanked` | 2 groups, 2 terms; 1 Node, 3 edits; 2 types, 2 categories; 40,320 questions about types, up to 3 node pools | no drift from failing or stale listings; the taint stays until registration, goes after it, takes no other along, and is removed as if at once (`AtomicTaints`); the disk filter depends on no other NodeClass; types leave something to schedule; the default pool decides the runtime |

The run `nodeclass` also checks its module's type invariant; it and those of InstanceTypes, GarbageCollection, NodeClassHash, VSwitch and Images
are proved. Deadlock is checked
except where the modelled system may come to rest: an answered launch, annotations
that have settled, Nodes whose NodeClaims are gone.

`types` starts from `RefreshedInit`, the state after the first refresh of types and offerings, and looks
through a `Window`: only one offering is marked, there are at most two refreshes, of the same kind or of two, and marks and
refreshes do not come in the same behaviour.
The proofs of section 4 have neither restriction. They start from `Init`, and cover several zones and NodeClasses.

`launch` starts with everything available that has a price (`MCInit`); other stocks are reached by marks. `RefusedTypesAreLeftOut` says nothing of
the zone: a cheaper zone without stock is asked for again as long as another offering of the type is available, since
`getVSwitchID` does not look at the marks. Nor does a retry heed a result that names no type or zone, which marks nothing.

`DeleteNeverSeesPending` is about an instance that has not run yet. One that is started again or rebooted may be cached as running for
15 seconds; `Delete` then asks ECS, which refuses, and returns that error.

In `gc`, `GraceCoversLaunches` is about instances for which
`early + LaunchDelay + CollectDelay <= Grace`, where `early` is what the reported creation time lies before
the launch. The run has `early = 0`, to keep liveness checkable; the theorem `GraceSuffices` has no such bound.
With ECS's whole minutes and 30 seconds of grace the premise can fail, and then nothing but
`KnownInstancesAreSpared` holds (see below).

### Runs that show a disagreement

Each checks one property, taken from a comment of the code, and fails.

| Run | The code says | What happens |
|---|---|---|
| `types_disk` (`SystemDiskIsTheCallers`) | changes to what `NewInstanceType` is passed "will require making updates to the cache key" (`providers/instancetype/instancetype.go:197`) | the system disk is passed and not in the key: a NodeClass gets another one's ephemeral storage |
| `launch_zone` (`ZoneRequirementHolds`) | "Create a NodeClaim given the constraints" (`cloudprovider/cloudprovider.go:74`) | on-demand and balanced launches take a random zone of the vSwitches, whatever zones the NodeClaim requires |

### Other places where code and comment part

These follow from the actions named in the last column. No property is stated against them, and the properties
above are formulated so as to hold in spite of them.

| The code says | What it does | Model |
|---|---|---|
| results are cached on "all instance types, zones, unavailableOfferings cache, ..." (`providers/instancetype/instancetype.go:62`) | a refresh that changes only the spot stock moves no sequence number | `InstanceTypes!UpdateInstanceTypeOfferings` |
| "List all instances to update the cache" (`providers/instance/instance.go:133`) | `List` answers from the same cache, so `Get` may say NotFound for a new instance | `InstanceProvider`, a `Get` that misses |
| in Starting and Pending "the API will return an error, let's return NotSupportedError" (`providers/instance/instance.go:218`) | an instance that is started again may be cached as running: ECS is asked, and its own error returned | `InstanceProvider!Restart` |
| instances are deleted "based on whether the Machine exists or not" (`garbagecollection/controller.go:61`) | the 30 seconds are counted from a time in whole minutes and may be over at once | `GarbageCollection!LaunchInstance` |
| "we fall back to not getting instance type info" (`cloudprovider/cloudprovider.go:245`) | an error other than NotFound fails the listing of all instances | `GarbageCollection!GcListFails` |
| a drifted NodeClaim "will remain drifted" (`nodeclass/hash/controller.go:100`) | drift that is found between list and patch is lost | `NodeClassHash!HashPatchClaim` |
| unused IPs are added back "after a CreateAutoProvisioningGroup response" (`providers/vswitch/vswitch.go:193`) | nothing calls `UpdateInflightIPs` | `VSwitch!Respond` |
| marked offerings are "available for launch again" after a TTL (`cache/cache.go:30`) | `getVSwitchID` does not ask whether an offering is available: a marked one may be asked for | `Launch!GetVSwitchID` |
| spot types "more expensive than the cheapest on-demand type" go (`providers/instance/instance.go:346`) | a type may stay for its on-demand price and be launched as dearer spot | `Launch!FilterUnwantedSpot` |
| "Remove tags which have been already populated" (`nodeclaim/tagging/controller.go:104`) | a wrong NotFound of `Get` ends the reconcile without a retry: the instance stays untagged until its NodeClaim changes | `Tagging!Returns` |
| "PodsPerCore is an override for the number of pods that can run on a worker node" (`apis/v1alpha1/ecsnodeclass.go:153`) | the scheduler's capacity takes it into account, the kubelet is told `maxPods` only (`providers/ack/ack.go:229`) | `Resources!pods` |
| "with the default node pool prioritized" (`providers/ack/ack.go:107`) | a pool without `NodepoolInfo` equals every other, and can keep the default pool from the front | `Resources!Less` |
| "the further ahead, the higher the priority" (`imagefamily/image.go:118`) | the cache key ignores the order of the terms | `Images!Key` |

### Fairness

* **NodeClass**: informers catch up and a reconcile that has begun ends (weak). Adding and removing
  the finalizer, listing the NodeClaims, and resolving and patching each kind of status, are strongly fair: controller-runtime
  requeues after errors and conflicts, the controllers requeue periodically, and a
  request tried again and again does not fail every time.
* **NodeClassHash**: the same for the reconcile (weak) and for its list and patches (strong).
* **GarbageCollection**: the collector is a singleton that requeues after 10 seconds or a minute (weak for its steps,
  strong for the success of its three lists). ECS calls it makes succeed in the end (strong), instances
  boot (weak: not for one that is started again before it has booted), time passes (strong). A restart is one step: state in memory is lost and the process goes on. The core is assumed only to record or abandon a launch;
  its termination of NodeClaims need not proceed.
* **Interruption**: the workqueue hands out its items (strong: one Node at a time), a reconcile proceeds,
  the informer catches up, and a Node that joins is registered and labelled by the core (weak).

* **Registration**: the informer catches up, the singleton controller is requeued every minute and
  gets through its list (weak), and the API server does not refuse every patch (strong). Nothing is assumed of the core,
  the kubelet or those who edit Nodes: `TaintGoes` is about Nodes that stay registered and ready.

Failures that fairness must not rule out at will are bounded instead: `MaxCrashes`, `MaxFailures`, `MaxEdits`.
In `gc`, `MayPause` is FALSE: no goroutine is held up for a tick
between two steps that wait for nothing. With such pauses an entry may expire every time before it is used, and
`OrphansAreCollected` fails; the invariants do not, and are proved with them.

## 4. The proofs

The proof modules extend their component, so a proof is about the very actions the runs check.

### InstanceTypesProofs
Types first, then marks and refreshed data, both on top of the types.
For all sets of types, zones, callers, listers and NodeClasses, and every bound.
Assumptions: `MaxSeqNum` and `MaxUpdates` are natural numbers; the zones of a NodeClass and
the types of the static price list are among the zones and types.

* `TypeCorrect`: `Spec => []TypeOK`.
* `MarkedOfferingsHidden`, `EvictedOfferingsReturn`: the first two properties of run `types`.
  They speak of a finished `List`, so they are not inductive: a `List` may
  take a result that another one stored long ago. `HiddenInv` strengthens them to
  1. `SettledSound`: what `settled` says of an offering agrees with its entry, and is no
     newer than the counter;
  2. `CacheReflects`: a stored result agrees, for every offering settled no later than the counter in its key, with `settled`;
  3. `ListReflects`: a `List` in progress does so for the offerings it has read.

  The key lemma is `ReflectsStable`. A step of the unavailable offerings unsettles an offering or settles
  it at a *new* counter value (`SettledMoves`, `SettledStep`), so agreement with a key of
  an older counter value is never disturbed. That is why it matters that the code sets the entry
  before it moves the counter.
* `TypesCurrent`, `OnDemandStockCurrent`: its other two, from `DataInv`
  (a stored result whose key has the present sequence numbers has present types and
  stock; the same for what a `List` has read, whose read lock keeps the data in place).
* `ListsRegular`: `InstanceTypes` implements `RegularOfferings`. The registers move as they should because every step of the
  unavailable offerings unsettles an offering, or settles it at a counter value not seen before (`Turns`). So
  the history of an offering that has moved never again equals what a `List` recorded at its start (`OperateStep`): what is asked is open from
  then on, even if the offering is settled the same way again. That an answer agrees with what is still asked follows from `HiddenInv` after the step
  (`AnswerStep`), for a built result and for one from the cache alike. All other steps change nothing that the
  abstract specification sees (`RegularFrame`).
* `DiskIfKeyTells`: if NodeClasses with the same zones and kubelet configuration have the same system disk (`KeyTellsDisk`), then
  `SystemDiskIsTheCallers` holds. It is the other side of the run `types_disk`: what the key leaves out is the only way a
  `List` gets another NodeClass's disk. `DiskInv` says that a stored result has the disk of *some* NodeClass its key fits.

### NodeClassProofs
For all sets of kinds, specs and NodeClaims, with at least one kind of status and
the two status markers not specs.

* `TypeCorrect`.
* `NodeClassOutlives`: a NodeClass exists as long as an instance launched from it does.
  The property alone says nothing of the copies the three parties act on. `LifeInv` adds:
  the copy with the object's resource version is the object (`SyncedInv`); a copy shows deletion no
  earlier than it happens, and a finalizer it shows is still there unless deletion has begun (`PhaseInv`);
  a NodeClass whose status was ever written has the finalizer, as the
  object, as its copy and in a fresh reconcile (`GuardInv`); `finalize` runs only when the
  copy shows the deletion, which stops `Create`, and at its patch no NodeClaim is past `Create`
  (`TerminationInv`); a launch in progress implies the finalizer (`BusyInv`).
* `FinalizerPromise`: `NodeClass` implements `Lifetime`. Initial states map to initial states, and under
  `LifeInv` every action is a step of `Lifetime` or leaves its variables alone (`PromiseStep`).
* `StatusOfTheSpec`: a reconcile whose copy is still fresh carries only what was resolved for the present spec
  (`StatusInv`), and no other one gets past the optimistic lock.

### NodeClassHashProofs
For any NodeClaims, contents and number of edits: `HashTyped`, and `NoneLeftBehind`, `UpgradeWithoutDrift` and
`ExactDrift` of run `hash`. `HashInv` relates the NodeClaims to the
reconcile: what it has not migrated is still to be patched, or it knows of a failure (`TodoInv`); `Create` wrote the hash of
what it read (`ClaimInv`); without edits, a NodeClaim of the present spec that never drifted carries its hash, in
whichever version (`UpgradeInv`, `SpecInv`).

`NoChangeForgotten` (`ChangesAreKept`) is the safety half of `HashSettles`: while anything is left to annotate, the NodeClass is queued or in
`Reconcile`. A `Reconcile` in progress keeps the promise only if what it will write is right, so `KeptInv` adds that its copy of the
annotations is the present one, since nobody else writes them, and that its copy of the spec is, unless the edit
has queued the NodeClass again. That no NodeClaim has an old version once the NodeClass has the new one is `NoneLeftBehind`.

### InstanceProofs
The instance provider with its two sets of callers. First the collector and the core (GarbageCollection), for any instances, times to live, grace period, delays, granularity and number of restarts, with pauses:
`CollectorTypes`, `PendingIsNotDeleted`, `KnownSpared`, `GraceSuffices`. The invariant `IInv` has one part for each party:

1. `ProviderInv`: no status in the cache, or in the hands of a call, says that an instance has run which has not (`Behind`). Instances stop, start
   again and reboot, but none goes back to before its first run (`Forward`), so an old copy stays behind whatever stores it again.
2. `ClaimInv`: while a launch is unrecorded, the age of its instance is within what launch delay and granularity allow.
3. `CoreInv`: the core deletes only for NodeClaims that are going.
4. `GcInv`: an instance whose NodeClaim was known when instances were listed is resolved by the second list, unless its NodeClaim is
   gone; one that is not resolved was launching then, so the bound on its age extends by the collection.
5. `WorkerInv`: a worker's instance is none of those to be spared.

`ProviderStepOne` treats a step of a provider call once, for whoever makes it; the lemmas after it have one step per
action of the core, the collector, the restart and the clock.

Then the tagging controller and any number of other callers (Tagging), for any instances, tags and times to live:
`AnnotatedTagged` (`AnnotatedIsTagged`) and `PendingIsNotDeletedByOthers` (`DeleteNeverSeesPending` again, since these callers
mix calls that the collector does not make). `AnnotatedIsTagged` says nothing of the copies it depends on. `TagInv` adds to
`ProviderInv`:

1. `TagsSound`: tags in the cache or in the hands of a call are tags the instance has. No call removes a tag, so a copy
   stays sound however old it gets; it may only lack tags, and then the controller adds them again.
2. `TaggerInv`: what `Reconcile` found missing and what the instance has make up all tags; `CreateTags` is for that very instance, and once
   `AddTags` has succeeded the instance has every tag, whether the listing after it fails or not. At the patch it has every tag.

Both halves rest on assumptions about who calls: the collector's workers, the collector and the core are callers, and no
instance is named like one of them (`CallerAssumption`); the tagging controller is a caller (`TaggingAssumption`). Neither excludes other callers.

### LaunchProofs
Launch, for any finite types and zones, NodeClaims, policies, vSwitch layouts, natural prices, limit of types and number of attempts: `LaunchPossible`,
`SpotZoneCheapest`, `RefusedTypesLeftOut`, the three properties of run `launch`. `LaunchInv` adds what holds between the
filters: every type left can be launched, the filters and the truncation leave at least one, and no refused offering is available. The lemmas are about the filters
(`UnwantedSpotLeaves`: the type of the cheapest on-demand offering always stays; `FilterLeaves`) and about the loop of `getVSwitchID`: `ChoiceSteps` that it is
its body applied zone by zone, `ChoiceIsOk`, by induction on the number of zones done, that what it has kept is no dearer than any of those, and `VSwitchIsCheapest`. They need that prices have
a minimum and are below `MaxFloat64`, which is why they are assumed natural (`PriceAssumption`).

Images, for any NodeClasses, terms, answers of ACK and ECS, times to live and durations of a `List`: `ImagesTyped`, `OneImage`,
`ImagesOfTheTerms`, `ImagesCatchUp`, from `ImagesInv`:

1. `ImagesArchInv`: a `List`, a cache entry and a status each have one image per architecture. This rests on `KeepFirstOne`, about
   the code's map from architecture to image.
2. `ImagesSound`: the cached version, a `List` and each image cache entry are of one version the cluster has had, the latter two of
   their terms; and if that version is not the present one, the time left and the time since the upgrade
   add up to no more than the bound of that place (`VersionBound`, `LookupBound`, `EntryBound`, `ReturnBound`). The bounds stack: a `List` may be told a version just before the upgrade and
   store it as late as it may; the version may be read just before it expires,
   used by a `List` that takes as long as it may, and stored for another time to live, at the end of which a third `List` reads it.

Hence `Stale`, `ListDelay + VersionTTL + ListDelay + ImageTTL + ListDelay - 1`: all three `List`s count. The proof, being for all times, is what shows
that the bound has this form; the run has only one value of each.

### InterruptionProofs
`MarkedFirst` (`MarkedBeforeDeleted`), for any Nodes, offerings, sequence numbers and failures. `MarkInv` says that between `Set` and the
deletion the entry is live and the controller is in the very call that set it, and that the history agrees with the entries.
`CacheStep` goes through the janitor's actions: while the controller is between the two, none of them takes away a live entry or unsettles
a mark, also when the eviction of an earlier entry for the same offering is announced late. As in the run, an entry does not
expire in that time: it lives for minutes, and the next step of the reconcile is the deletion.

`NoneForgotten` (`InterruptionsAreKept`) is the safety half of `InterruptedAreDeleted`: a Node with the condition, whose NodeClaim is not being
deleted, has no label yet, is queued, or is in `Reconcile`'s hands. There are three ways `Reconcile` drops a Node: it
does not exist, its NodeClaim is found to be going, or the deletion succeeds. `KeptInv` says why none of these
loses one that matters: a Node is there as long as its NodeClaim is, and what the informer shows, or
`Reconcile` has found, is never ahead of the NodeClaim (`NotBefore`).

### RegistrationProofs
Three components, for any Nodes, edits, groups, selectors, types and categories.

* `UnregisteredTaintStays`, `OthersTaintsKept`: from `RegInv`, by which a current copy of a joined Node agrees with
  it, and every Node the controller has still to patch was registered in its copy. The second is an action property.
* `TaintsAtomic`: `Registration` implements `AtomicTaints`. By `RegInv`, the list of taints a patch carries is, when the lock lets it through,
  that of the Node less the unregistered taint, and the Node is registered, so the patch is `RemoveTaint` at that instant (`AtomicStep`). A patch the lock refuses, the list, the retries and the informer
  are stuttering steps.
* `DriftNeedsChange`: from `GroupInv`. A steady listing has exactly what the terms before the next one match; steady groups
  are exactly what the selector matches, so two steady sets of groups are equal. It needs that a selector keeps its number
  of terms and has at least one (`MatchesAssumption`, the CRD's validation).
* `FilterExact`: from `DiskInv`. A steady entry is what ECS offers; a type still to be decided is in neither the result nor `exact`.

### CapacityProofs
`RoomIsLeft`: `TypesLeaveRoom`, which run `nodes` asks of 40,320 inputs, for any set of questions: any natural
core, memory, address and pod numbers within the premises of `AllocatableIsPositive`, and any width of integers. Lemmas: nothing wraps within the range; the pod count is
natural; CPU and memory overheads stay below the capacity.

`DeductionsCount`: `EveryDeductionCounts` for any vSwitches, zones, selector terms, types and numbers of launches, from the
assumptions of VSwitch (every vSwitch has a zone, pod numbers and the bound are natural, `None` is no number). `EveryDeductionCounts`
alone is not inductive: when a cached count expires, what the vSwitch counts for drops to zero, which is below the bound only
because nothing was deducted from a vSwitch that is not tracked. `DeductInv` adds that, and that a cached count is the one
last described. Which vSwitch the loop picks does not matter to the argument.

`VSwitchTyped`, `ZonalChoiceBest` (`ZonalChoiceIsBest`) and `PoolsRanked` (`PoolsAreRanked`, which run `nodes` asks of up to three
pools) are about loops over a list of any length: the one over the status's vSwitches, and the insertion of each node pool into the sorted ones,
which is what `sort.Slice` does with up to twelve elements. Each loop is a recursive function of the number of
elements done so far (`ZonalAfter`, `Sorted`). That such a function exists, and that its value at `n` is the loop body
applied to its value at `n - 1`, is derived from the well-foundedness of `<` on the naturals: a least `n` without it leads to a contradiction.
The loop invariant follows in the same way: the vSwitch kept in a zone counts no less than those
done before it; the first of the sorted pools is one of those done so far and ranks as high as any of them. The code's comparison is an order only among
pools that all report what it compares: that is the premise of `DefaultPoolFirst`, and the proof uses it at each insertion.

### Only model-checked
Liveness (`OrphansAreCollected`, `HashSettles`, `StatusCatchesUp`, `DeletionCompletes`,
`InterruptedAreDeleted`, `TaintGoes`) is out of the prover's reach; for `HashSettles` and `InterruptedAreDeleted` the safety half is proved (`NoChangeForgotten`, `NoneForgotten`).
Every safety property of a passing run is proved, the three refinements included. `RoomIsLeft`, `PoolsRanked` and the theorems of RegistrationProofs
are about the specification of their component, which `MCNodes` runs as one of four that share no state.

## 5. What is left out

* **Data**: requirements, GPUs and ephemeral storage of instance types, the text of user data, the values of tags, event and log
  texts. Prices are numbers in Launch and only "has a price" in InstanceTypes.
* **Partly**: `podsPerCore` products that overflow 32 bits are computed as the code does, but excluded by
  `AllocatableIsPositive`. Drift of the vSwitch is an input of the drift check. The filters of Launch take the types
  with a fitting system disk as an input, whichever SystemDisk would leave.
* **Not modelled**: telemetry, operator wiring, options, generated deep copies. They have no
  state that the rest reads, or are pure I/O.
* **No callers**: `UpdateInflightIPs` and the instance type provider's `Reset` are never called
  by the program. They have no action. `Flush` of the unavailable offerings has one, since it is that cache's interface.
* **External**: ECS, ACK, the API server, informers, go-cache, workqueues and the Karpenter core are modelled from how
  the code uses them, and marked external in the map.

## 6. What could come next

1. **Composition** of Launch with UnavailableOfferings and InstanceTypes, so that a retry reads the
   marks through the cached instance types rather than at once.
2. **An abstract specification of the instance cache**: an instance store that InstanceProvider implements, exposing exactly
   the staleness it permits, as RegularOfferings does for the offerings.
3. **The two disagreements**, once the code is changed: `SystemDiskIsTheCallers` and `ZoneRequirementHolds` as properties that
   hold, the first from `DiskIfKeyTells` with the disk in the key, the second from `VSwitchIsCheapest` without its premise.
