------------------------- MODULE GarbageCollection -------------------------
(***************************************************************************)
(* The garbage collection controller                                       *)
(* (pkg/controllers/nodeclaim/garbagecollection/controller.go) on top of   *)
(* the instance provider, beside the Karpenter core that launches and      *)
(* terminates NodeClaims, with restarts of the process that runs both.     *)
(* The collector's own caller is "gc"; the worker that deletes instance i  *)
(* is caller i; the core's termination is "core".                          *)
(***************************************************************************)
EXTENDS InstanceProvider

CONSTANTS
    Grace,        \* the 30 seconds an instance is left alone, in ticks
    Granularity,  \* ticks a creation time may lie before the real one
    LaunchDelay,  \* ticks from launch until the provider id is visible
    CollectDelay, \* ticks from the LIST of NodeClaims to the last age check
    MayPause,     \* whether a goroutine may be held up for a tick between two
                  \* steps that wait for nothing
    MaxCrashes    \* bound: restarts of the process

ASSUME CallerAssumption ==
    {"gc", "core"} \cup Instance \subseteq Caller /\ {"gc", "core"} \cap Instance = {}

ASSUME DelayAssumption ==
    {Grace, Granularity, LaunchDelay, CollectDelay, MaxCrashes} \subseteq Nat

ASSUME MayPauseAssumption == MayPause \in BOOLEAN

VARIABLES
    claim,      \* the NodeClaim an instance was launched for
    launchLeft, \* ticks left for a launch to become visible
    age,        \* ticks since CreationTime as reported, up to Grace + 1
    early,      \* history: ticks from CreationTime as reported to the launch
    nodes,      \* instances with a Node object
    gc,         \* the step of Reconcile
    crashes

claimVars == <<claim, launchLeft, age, early, nodes>>

vars == <<providerVars, claimVars, gc, crashes>>

\* "launching" until its provider id is visible; "gone" when it is finalized,
\* or its launch was never recorded.
ClaimState == {"none", "launching", "claimed", "deleting", "terminating", "gone"}

\* Its provider id is in the NodeClaims that the collector lists.
Resolved == {i \in Instance : claim[i] \in {"claimed", "deleting", "terminating"}}

NotCollecting == [pc |-> "idle", managed |-> {}, resolved |-> {}, nodes |-> {},
                  known |-> {}, left |-> 0]

\* Reconcile has returned, with RequeueAfter or an error.
Requeued == [NotCollecting EXCEPT !.pc = "requeued"]

GcState == [pc : {"idle", "list", "claims", "nodes", "collect", "requeued"},
            managed : SUBSET Instance,   \* listed and not stopping; then: to do
            resolved : SUBSET Instance,  \* resolvedProviderIDs
            nodes : SUBSET Instance,     \* nodeList
            known : SUBSET Instance,     \* history: resolved when the instances were listed
            left : Nat]

TypeOK ==
    /\ ProviderTypeOK
    /\ claim \in [Instance -> ClaimState]
    /\ launchLeft \in [Instance -> 0 .. LaunchDelay]
    /\ age \in [Instance -> 0 .. Grace + 1]
    /\ early \in [Instance -> 0 .. Granularity]
    /\ nodes \in SUBSET Instance
    /\ gc \in GcState
    /\ crashes \in 0 .. MaxCrashes

Init ==
    /\ ProviderInit
    /\ claim = [i \in Instance |-> "none"]
    /\ launchLeft = [i \in Instance |-> 0]
    /\ age = [i \in Instance |-> 0]
    /\ early = [i \in Instance |-> 0]
    /\ nodes = {}
    /\ gc = NotCollecting
    /\ crashes = 0

Cap(n) == IF n > Grace THEN Grace + 1 ELSE n

-----------------------------------------------------------------------------
\* The core: Create launches an instance; ECS reports creation times in whole
\* minutes, so its age seems to be up to Granularity more than it is.
LaunchInstance(i) ==
    /\ Launch(i)
    /\ claim' = [claim EXCEPT ![i] = "launching"]
    /\ launchLeft' = [launchLeft EXCEPT ![i] = LaunchDelay]
    /\ \E n \in 0 .. Granularity : /\ age' = [age EXCEPT ![i] = Cap(n)]
                                   /\ early' = [early EXCEPT ![i] = n]
    /\ UNCHANGED <<nodes, gc, crashes>>

\* The provider id is stored in the NodeClaim's status, and can be listed.
RecordProviderID(i) ==
    /\ claim[i] = "launching"
    /\ claim' = [claim EXCEPT ![i] = "claimed"]
    /\ UNCHANGED <<providerVars, launchLeft, age, early, nodes, gc, crashes>>

\* The NodeClaim is deleted before its provider id could be stored.
AbandonLaunch(i) ==
    /\ claim[i] = "launching"
    /\ claim' = [claim EXCEPT ![i] = "gone"]
    /\ UNCHANGED <<providerVars, launchLeft, age, early, nodes, gc, crashes>>

\* The kubelet of a running instance registers a Node.
RegisterNode(i) ==
    /\ ecs[i] = "Running"
    /\ claim[i] \in {"launching", "claimed", "gone"}
    /\ i \notin nodes
    /\ nodes' = nodes \cup {i}
    /\ UNCHANGED <<providerVars, claim, launchLeft, age, early, gc, crashes>>

\* The NodeClaim is deleted (by a user, or the interruption controller): its
\* Node is drained and goes first.
DeleteClaim(i) ==
    /\ claim[i] = "claimed"
    /\ claim' = [claim EXCEPT ![i] = "deleting"]
    /\ nodes' = nodes \ {i}
    /\ UNCHANGED <<providerVars, launchLeft, age, early, gc, crashes>>

\* EnsureTerminated: Delete until it succeeds, then Get until it finds nothing.
Terminate(i) ==
    /\ \/ claim[i] = "deleting" /\ StartDelete("core", i)
       \/ claim[i] = "terminating" /\ StartGet("core", i)
    /\ UNCHANGED <<claimVars, gc, crashes>>

Terminated(i) ==
    /\ calls["core"].id = i
    /\ Return("core")
    /\ claim' = [claim EXCEPT ![i] =
          IF calls["core"].pc = "notFound" THEN "gone"
          ELSE IF calls["core"].pc = "ok" THEN "terminating" ELSE @]
    /\ UNCHANGED <<launchLeft, age, early, nodes, gc, crashes>>

-----------------------------------------------------------------------------
\* Reconcile begins: CloudProvider.List asks the instance provider.
GcStart ==
    /\ gc.pc = "idle"
    /\ StartList("gc")
    /\ gc' = [NotCollecting EXCEPT !.pc = "list"]
    /\ UNCHANGED <<claimVars, crashes>>

\* instanceToNodeClaim gives a stopping instance a deletion time.
Deleting(i) == calls["gc"].instances[i] = "Stopping"

ListedInstances == {i \in Instance : calls["gc"].instances[i] # "None"}

\* The instances that List returns and that are not being deleted are managed.
GcListed ==
    /\ gc.pc = "list"
    /\ calls["gc"].pc = "ok"
    /\ Return("gc")
    /\ gc' = [gc EXCEPT !.pc = "claims", !.known = Resolved,
                        !.managed = {i \in ListedInstances : ~Deleting(i)}]
    /\ UNCHANGED <<claimVars, crashes>>

\* The instances cannot be listed, or resolveInstanceTypeFromInstance fails for
\* one of them, and with it CloudProvider.List for all: a NodePool or NodeClass that
\* does not exist is no error, but instance types that cannot be listed are.
GcListFails ==
    /\ gc.pc = "list"
    /\ calls["gc"].pc = "ok" => ListedInstances # {}
    /\ Return("gc")
    /\ gc' = Requeued
    /\ UNCHANGED <<claimVars, crashes>>

GcListClaimsLive ==
    /\ gc.pc = "claims"
    /\ gc' = [gc EXCEPT !.pc = "nodes", !.left = CollectDelay,
                        !.resolved = {i \in Resolved : claim[i] = "claimed"}]
    /\ UNCHANGED <<providerVars, claimVars, crashes>>

\* The NodeClaims are listed after the instances, and then the Nodes.
GcListClaims ==
    /\ gc.pc = "claims"
    /\ gc' = [gc EXCEPT !.pc = "nodes", !.resolved = Resolved, !.left = CollectDelay]
    /\ UNCHANGED <<providerVars, claimVars, crashes>>

GcListNodes ==
    /\ gc.pc = "nodes"
    /\ gc' = [gc EXCEPT !.pc = "collect", !.nodes = nodes]
    /\ UNCHANGED <<providerVars, claimVars, crashes>>

\* Either list may fail.
GcKubeListFails ==
    /\ gc.pc \in {"claims", "nodes"}
    /\ gc' = Requeued
    /\ UNCHANGED <<providerVars, claimVars, crashes>>

\* A worker takes up instance i: it leaves a resolved or a young one alone.
GcSkip(i) ==
    /\ gc.pc = "collect"
    /\ i \in gc.managed
    /\ i \in gc.resolved \/ age[i] <= Grace
    /\ gc' = [gc EXCEPT !.managed = @ \ {i}]
    /\ UNCHANGED <<providerVars, claimVars, crashes>>

GcCollectYoung(i) ==
    /\ gc.pc = "collect"
    /\ i \in gc.managed
    /\ i \notin gc.resolved
    /\ StartDelete(i, i)
    /\ gc' = [gc EXCEPT !.managed = @ \ {i}]
    /\ UNCHANGED <<claimVars, crashes>>

GcCollect(i) ==
    /\ gc.pc = "collect"
    /\ i \in gc.managed
    /\ i \notin gc.resolved
    /\ age[i] > Grace
    /\ StartDelete(i, i)
    /\ gc' = [gc EXCEPT !.managed = @ \ {i}]
    /\ UNCHANGED <<claimVars, crashes>>

\* Delete has returned; on success the Node, if it was listed, is deleted as well,
\* which may fail.
GcCollected(i) ==
    /\ Return(i)
    /\ \/ UNCHANGED nodes
       \/ calls[i].pc = "ok" /\ i \in gc.nodes /\ nodes' = nodes \ {i}
    /\ UNCHANGED <<claim, launchLeft, age, early, gc, crashes>>

GcDoneForGood ==
    /\ gc.pc = "collect"
    /\ gc.managed = {}
    /\ \A i \in Instance : Idle(i)
    /\ gc' = [NotCollecting EXCEPT !.pc = "returned"]
    /\ UNCHANGED <<providerVars, claimVars, crashes>>

\* All workers are done: Reconcile returns, and is queued again.
GcDone ==
    /\ gc.pc = "collect"
    /\ gc.managed = {}
    /\ \A i \in Instance : Idle(i)
    /\ gc' = Requeued
    /\ UNCHANGED <<providerVars, claimVars, crashes>>

-----------------------------------------------------------------------------
\* The process restarts: the cache, the calls and launches under way are lost.
Crash ==
    /\ crashes < MaxCrashes
    /\ crashes' = crashes + 1
    /\ instanceCache' = [i \in Instance |-> NoEntry]
    /\ lastUpdate' = 0
    /\ calls' = [p \in Caller |-> NoCall(calls[p].id)]
    /\ gc' = NotCollecting
    /\ claim' = [i \in Instance |-> IF claim[i] = "launching" THEN "gone" ELSE claim[i]]
    /\ UNCHANGED <<ecs, launchLeft, age, early, nodes>>

\* A call waits for the answer to an API request, or has none to make.
Waiting(p) == calls[p].pc \in {"idle", "describe", "delete", "tag"} \cup Returned

\* Time passes, but not beyond what a launch or a collection may take; the
\* collector's next Reconcile waits for it.
Tick ==
    /\ MayPause \/ \A p \in Caller : Waiting(p)
    /\ \A i \in Instance : claim[i] = "launching" => launchLeft[i] > 0
    /\ gc.pc = "nodes" \/ (gc.pc = "collect" /\ gc.managed # {}) => gc.left > 0
    /\ TickCaches
    /\ launchLeft' = [i \in Instance |-> Elapse(launchLeft[i])]
    /\ age' = [i \in Instance |-> IF ecs[i] = "None" THEN 0 ELSE Cap(age[i] + 1)]
    /\ gc' = IF gc.pc = "requeued" THEN NotCollecting ELSE [gc EXCEPT !.left = Elapse(@)]
    /\ UNCHANGED <<claim, early, nodes, crashes>>

CoreNext ==
    \E i \in Instance :
        \/ LaunchInstance(i) \/ RecordProviderID(i) \/ AbandonLaunch(i)
        \/ RegisterNode(i) \/ DeleteClaim(i) \/ Terminate(i) \/ Terminated(i)

GcNext ==
    \/ GcStart \/ GcListed \/ GcListFails \/ GcListClaims \/ GcListNodes \/ GcKubeListFails
    \/ GcDone
    \/ \E i \in Instance : GcSkip(i) \/ GcCollect(i) \/ GcCollected(i)

EnvironmentNext ==
    \E i \in Instance : /\ Boot(i) \/ Stop(i) \/ Restart(i) \/ Release(i)
                        /\ UNCHANGED <<claimVars, gc, crashes>>

CallNext ==
    \E p \in Caller : ProviderStep(p) /\ UNCHANGED <<claimVars, gc, crashes>>

Next == CoreNext \/ GcNext \/ EnvironmentNext \/ CallNext \/ Crash \/ Tick

Spec == Init /\ [][Next]_vars

\* The collector is a singleton that is always queued again, its calls and its
\* workers go on, launches end, instances boot, time passes; a request that is
\* made again and again does not fail every time.
Fairness ==
    /\ \A i \in Instance : WF_vars(RecordProviderID(i) \/ AbandonLaunch(i))
    /\ WF_vars(GcNext)
    /\ SF_vars(GcListed) /\ SF_vars(GcListClaims) /\ SF_vars(GcListNodes)
    /\ SF_vars(Tick)
    /\ \A i \in Instance : WF_vars(Boot(i) /\ UNCHANGED <<claimVars, gc, crashes>>)
    /\ \A p \in Caller \ {"core"} :
          /\ WF_vars(ProviderStep(p) /\ UNCHANGED <<claimVars, gc, crashes>>)
          /\ SF_vars(DescribeInstances(p) /\ UNCHANGED <<claimVars, gc, crashes>>)
    /\ \A i \in Instance : SF_vars(DeleteInstance(i) /\ UNCHANGED <<claimVars, gc, crashes>>)

FairSpec == Spec /\ Fairness

-----------------------------------------------------------------------------
\* The collector never deletes an instance whose provider id a NodeClaim had
\* when the instances were listed, while that NodeClaim exists, terminating or
\* not: the NodeClaims are listed after the instances.
KnownInstancesAreSpared ==
    \A i \in Instance : calls[i].pc = "delete" => i \notin gc.known \/ claim[i] = "gone"

\* The grace period keeps the collector away from an instance whose provider id
\* is recorded after the NodeClaims were listed, provided that it covers the launch,
\* the collection and what the reported creation time is early by (Reconcile,
\* garbageCollect's check of CreationTimestamp).
GraceCoversLaunches ==
    \A i \in Instance :
        calls[i].pc = "delete" /\ early[i] + LaunchDelay + CollectDelay <= Grace
            => i \notin Resolved

Orphan(i) == claim[i] = "gone" /\ ecs[i] \in {"Pending", "Running"}

\* An instance without a NodeClaim (its launch was lost in a restart of the process,
\* or its NodeClaim finalized on a wrong NotFound) does not stay: it is deleted in the
\* end, unless it stops or is released by itself, or is started again for ever.
OrphansAreCollected == \A i \in Instance : []<>~Orphan(i)

=============================================================================
