------------------------------ MODULE NodeClass ------------------------------
(***************************************************************************)
(* The life of an ECSNodeClass: the status controller, which adds the      *)
(* finalizer and resolves the selectors (pkg/controllers/nodeclass/status),*)
(* the termination controller, which takes the finalizer away once no      *)
(* NodeClaim is left (pkg/controllers/nodeclass/termination), and          *)
(* CloudProvider.Create, which launches only from a NodeClass that is      *)
(* ready and not being deleted.  All of them read the informer caches of   *)
(* one process and write to the API server; the patches of the two         *)
(* controllers carry the resource version they read.                       *)
(***************************************************************************)
CONSTANTS
    Kind,       \* what the status resolves: vSwitches, security groups, images
    Content,    \* contents of the spec
    Claim       \* NodeClaims of the NodeClass

ASSUME KindAssumption == Kind # {}
ASSUME ContentAssumption == "none" \notin Content /\ "unknown" \notin Content

VARIABLES
    nodeClass,  \* the object in the API server
    cache,      \* the informer's copy of it
    synced,     \* the copy has the object's resource version
    status,     \* Reconcile of the status controller
    termination,\* Reconcile of the termination controller
    claims,     \* where each NodeClaim is in its life
    cloud       \* what the selectors of a content match at present

vars == <<nodeClass, cache, synced, status, termination, claims, cloud>>

\* A resolved kind holds the content whose selector matched; its condition is
\* True.  With "none" it is False, with "unknown" Unknown.
Resolution == Content \cup {"none", "unknown"}

Object ==
    [phase : {"present", "deleting", "gone"}, finalizer : BOOLEAN,
     spec : Content, status : [Kind -> Resolution]]

\* spec and status: the copy a Reconcile works on.  fresh: the copy still has the
\* resource version of the object, so that a patch with an optimistic lock is
\* accepted.
StatusState ==
    [pc : {"idle", "finalizer", "resolve", "patch"}, todo : SUBSET Kind,
     spec : Content, status : [Kind -> Resolution], fresh : BOOLEAN]

TerminationState == [pc : {"idle", "list", "patch"}, fresh : BOOLEAN]

\* created: in the API server; visible: in the informer's cache as well;
\* creating: Create has read the NodeClass; launched: it has an instance.
ClaimPhase == {"absent", "created", "visible", "creating", "launched", "gone"}

TypeOK ==
    /\ nodeClass \in Object
    /\ cache \in Object
    /\ synced \in BOOLEAN
    /\ status \in StatusState
    /\ termination \in TerminationState
    /\ claims \in [Claim -> ClaimPhase]
    /\ cloud \in [Kind -> SUBSET Content]

\* A NodeClass just created, without a finalizer and with nothing resolved.
Init ==
    /\ \E s \in Content :
          nodeClass = [phase |-> "present", finalizer |-> FALSE, spec |-> s,
                       status |-> [k \in Kind |-> "unknown"]]
    /\ cache = nodeClass
    /\ synced = TRUE
    /\ status = [pc |-> "idle", todo |-> {}, spec |-> nodeClass.spec,
                 status |-> nodeClass.status, fresh |-> FALSE]
    /\ termination = [pc |-> "idle", fresh |-> FALSE]
    /\ claims = [c \in Claim |-> "absent"]
    /\ cloud \in [Kind -> SUBSET Content]

\* The Ready condition: every dependent condition is True.
Ready(object) == \A k \in Kind : object.status[k] \in Content

\* The NodeClass changes in the API server: its resource version is new, and
\* every copy of it is outdated.
Write(object) ==
    /\ nodeClass' = object
    /\ synced' = FALSE

Outdate(reconcile) == [reconcile EXCEPT !.fresh = FALSE]

CacheSync ==
    /\ ~synced
    /\ cache' = nodeClass
    /\ synced' = TRUE
    /\ UNCHANGED <<nodeClass, status, termination, claims, cloud>>

-----------------------------------------------------------------------------
(* The user, and the cloud. *)

EditSpec(s) ==
    /\ nodeClass.phase # "gone"
    /\ s # nodeClass.spec
    /\ Write([nodeClass EXCEPT !.spec = s])
    /\ status' = Outdate(status) /\ termination' = Outdate(termination)
    /\ UNCHANGED <<cache, claims, cloud>>

\* Without a finalizer the API server removes the object at once.
DeleteNodeClass ==
    /\ nodeClass.phase = "present"
    /\ Write([nodeClass EXCEPT
                 !.phase = IF nodeClass.finalizer THEN "deleting" ELSE "gone"])
    /\ status' = Outdate(status) /\ termination' = Outdate(termination)
    /\ UNCHANGED <<cache, claims, cloud>>

Retag(k, s) ==
    /\ cloud' = [cloud EXCEPT ![k] = IF s \in @ THEN @ \ {s} ELSE @ \cup {s}]
    /\ UNCHANGED <<nodeClass, cache, synced, status, termination, claims>>

-----------------------------------------------------------------------------
(* Reconcile of the status controller. *)

StatusStartOnce ==
    /\ status.pc = "idle"
    /\ cache.phase # "gone"
    /\ \A k \in Kind : cache.status[k] # "none"
    /\ status' = [pc |-> IF cache.finalizer THEN "resolve" ELSE "finalizer",
                  todo |-> Kind, spec |-> cache.spec, status |-> cache.status,
                  fresh |-> synced]
    /\ UNCHANGED <<nodeClass, cache, synced, termination, claims, cloud>>

StatusStart ==
    /\ status.pc = "idle"
    /\ cache.phase # "gone"
    /\ status' = [pc |-> IF cache.finalizer THEN "resolve" ELSE "finalizer",
                  todo |-> Kind, spec |-> cache.spec, status |-> cache.status,
                  fresh |-> synced]
    /\ UNCHANGED <<nodeClass, cache, synced, termination, claims, cloud>>

\* The finalizer is patched first, with an optimistic lock; Reconcile goes on
\* with the object the API server returns.
AddFinalizer ==
    /\ status.pc = "finalizer"
    /\ status.fresh
    /\ Write([nodeClass EXCEPT !.finalizer = TRUE])
    /\ status' = [status EXCEPT !.pc = "resolve"]
    /\ termination' = Outdate(termination)
    /\ UNCHANGED <<cache, claims, cloud>>

\* A conflict, or any other error, ends Reconcile, which is queued again.
AddFinalizerFails ==
    /\ status.pc = "finalizer"
    /\ status' = [status EXCEPT !.pc = "idle"]
    /\ UNCHANGED <<nodeClass, cache, synced, termination, claims, cloud>>

ResolveNil(k) ==
    /\ status.pc = "resolve"
    /\ k \in status.todo
    /\ status' = [status EXCEPT
          !.todo = @ \ {k},
          !.status[k] = IF status.spec \in cloud[k] THEN status.spec ELSE "nil"]
    /\ UNCHANGED <<nodeClass, cache, synced, termination, claims, cloud>>

\* One of the three reconcilers: nothing found leaves the condition False.
Resolve(k) ==
    /\ status.pc = "resolve"
    /\ k \in status.todo
    /\ status' = [status EXCEPT
          !.todo = @ \ {k},
          !.status[k] = IF status.spec \in cloud[k] THEN status.spec ELSE "none"]
    /\ UNCHANGED <<nodeClass, cache, synced, termination, claims, cloud>>

\* A provider's error leaves the kind as it was; the others go on.
ResolveFails(k) ==
    /\ status.pc = "resolve"
    /\ k \in status.todo
    /\ status' = [status EXCEPT !.todo = @ \ {k}]
    /\ UNCHANGED <<nodeClass, cache, synced, termination, claims, cloud>>

Resolved ==
    /\ status.pc = "resolve"
    /\ status.todo = {}
    /\ status' = [status EXCEPT !.pc = "patch"]
    /\ UNCHANGED <<nodeClass, cache, synced, termination, claims, cloud>>

PatchStatusUnlocked ==
    /\ status.pc = "patch"
    /\ nodeClass.phase # "gone"
    /\ Write([nodeClass EXCEPT !.status = status.status])
    /\ status' = [status EXCEPT !.pc = "idle"]
    /\ termination' = Outdate(termination)
    /\ UNCHANGED <<cache, claims, cloud>>

\* The status is patched with an optimistic lock, errors or not, if it changed.
PatchStatus ==
    /\ status.pc = "patch"
    /\ status.fresh
    /\ status' = [status EXCEPT !.pc = "idle"]
    /\ IF status.status = nodeClass.status
       THEN UNCHANGED <<nodeClass, synced, termination>>
       ELSE /\ Write([nodeClass EXCEPT !.status = status.status])
            /\ termination' = Outdate(termination)
    /\ UNCHANGED <<cache, claims, cloud>>

PatchStatusFails ==
    /\ status.pc = "patch"
    /\ status' = [status EXCEPT !.pc = "idle"]
    /\ UNCHANGED <<nodeClass, cache, synced, termination, claims, cloud>>

-----------------------------------------------------------------------------
(* Reconcile of the termination controller. *)

Visible(c) == claims[c] \in {"visible", "creating", "launched"}

TerminationStart ==
    /\ termination.pc = "idle"
    /\ cache.phase = "deleting" /\ cache.finalizer
    /\ termination' = [pc |-> "list", fresh |-> synced]
    /\ UNCHANGED <<nodeClass, cache, synced, status, claims, cloud>>

\* finalize waits as long as the cache holds a NodeClaim of the NodeClass.
ListClaims ==
    /\ termination.pc = "list"
    /\ termination' = [termination EXCEPT
          !.pc = IF \E c \in Claim : Visible(c) THEN "idle" ELSE "patch"]
    /\ UNCHANGED <<nodeClass, cache, synced, status, claims, cloud>>

ListClaimsFails ==
    /\ termination.pc = "list"
    /\ termination' = [termination EXCEPT !.pc = "idle"]
    /\ UNCHANGED <<nodeClass, cache, synced, status, claims, cloud>>

\* Without its last finalizer the object is removed.
RemoveFinalizer ==
    /\ termination.pc = "patch"
    /\ termination.fresh
    /\ Write([nodeClass EXCEPT !.phase = "gone", !.finalizer = FALSE])
    /\ termination' = [termination EXCEPT !.pc = "idle"]
    /\ status' = Outdate(status)
    /\ UNCHANGED <<cache, claims, cloud>>

RemoveFinalizerRetries ==
    /\ termination.pc = "patch"
    /\ UNCHANGED vars

RemoveFinalizerFails ==
    /\ termination.pc = "patch"
    /\ termination' = [termination EXCEPT !.pc = "idle"]
    /\ UNCHANGED <<nodeClass, cache, synced, status, claims, cloud>>

-----------------------------------------------------------------------------
(* NodeClaims: the core creates and deletes them, and calls Create for those *)
(* its cache shows.                                                          *)

Become(c, from, to) ==
    /\ claims[c] \in from
    /\ claims' = [claims EXCEPT ![c] = to]
    /\ UNCHANGED <<nodeClass, cache, synced, status, termination, cloud>>

CreateClaim(c) == Become(c, {"absent"}, "created")

ClaimSync(c) == Become(c, {"created"}, "visible")

\* A NodeClaim keeps its finalizer until its instance is gone.
DeleteClaim(c) == Become(c, {"created", "visible", "launched"}, "gone")

CreateUnchecked(c) ==
    /\ cache.phase # "gone" /\ Ready(cache)
    /\ Become(c, {"visible"}, "creating")

\* Create reads the NodeClass, and goes on if it is not being deleted and ready.
Create(c) ==
    /\ cache.phase = "present" /\ Ready(cache)
    /\ Become(c, {"visible"}, "creating")

\* A NodeClass that is deleting, gone or not ready costs the NodeClaim its life;
\* one with an Unknown condition only is an error, and Create is tried again.
CreateRefused(c) ==
    /\ \/ cache.phase # "present"
       \/ \E k \in Kind : cache.status[k] = "none"
    /\ Become(c, {"visible"}, "gone")

CreateDone(c) == Become(c, {"creating"}, "launched")

CreateFails(c) == \E to \in {"visible", "gone"} : Become(c, {"creating"}, to)

-----------------------------------------------------------------------------
StatusNext ==
    \/ StatusStart \/ AddFinalizer \/ AddFinalizerFails
    \/ \E k \in Kind : Resolve(k) \/ ResolveFails(k)
    \/ Resolved \/ PatchStatus \/ PatchStatusFails

TerminationNext ==
    \/ TerminationStart \/ ListClaims \/ ListClaimsFails
    \/ RemoveFinalizer \/ RemoveFinalizerFails

ClaimNext(c) ==
    \/ CreateClaim(c) \/ ClaimSync(c) \/ DeleteClaim(c)
    \/ Create(c) \/ CreateRefused(c) \/ CreateDone(c) \/ CreateFails(c)

UserNext ==
    \/ \E s \in Content : EditSpec(s)
    \/ DeleteNodeClass
    \/ \E k \in Kind, s \in Content : Retag(k, s)

Next ==
    \/ CacheSync \/ StatusNext \/ TerminationNext \/ UserNext
    \/ \E c \in Claim : ClaimNext(c)

Spec == Init /\ [][Next]_vars

Resolves(k) == nodeClass'.status[k] # nodeClass.status[k]

\* Informers catch up; Reconciles and Creates, once started, end; a NodeClass
\* that exists is always reconciled again (RequeueAfter, an error, a conflict
\* or an event), and what is tried again and again does not fail every time.
Fairness ==
    /\ WF_vars(CacheSync) /\ WF_vars(StatusNext) /\ WF_vars(TerminationNext)
    /\ SF_vars(AddFinalizer) /\ SF_vars(ListClaims) /\ SF_vars(RemoveFinalizer)
    /\ \A k \in Kind : SF_vars(Resolve(k)) /\ SF_vars(PatchStatus /\ Resolves(k))

FairSpec == Spec /\ Fairness

-----------------------------------------------------------------------------
\* A NodeClass is there as long as an instance is launched, or may still be,
\* from it: finalize removes the finalizer only when no NodeClaim can have got
\* past Create, although Create, finalize and the status controller, which sets
\* the finalizer and makes the NodeClass ready, all work on lagging copies.
NodeClassOutlivesInstances ==
    nodeClass.phase = "gone" =>
        \A c \in Claim : claims[c] \notin {"creating", "launched"}

\* Create and the two controllers keep what a finalizer promises: with the
\* NodeClaims that are past Create's checks as its users, a NodeClass is removed
\* only when it has none, and never used, changed back or removed again after.
Promise == INSTANCE Lifetime WITH
    User <- Claim, phase <- nodeClass.phase,
    using <- {c \in Claim : claims[c] \in {"creating", "launched"}}

FinalizerKeepsPromise == Promise!LifetimeSpec

\* No status is written for a spec that has been replaced: what the status
\* controller resolved from an older copy is refused by the optimistic lock.
StatusIsOfTheSpec ==
    [][\A k \in Kind :
          \/ nodeClass'.status[k] = nodeClass.status[k]
          \/ nodeClass'.status[k] \in {nodeClass.spec, "none"}]_vars

\* Selectors that match are resolved in the end, though they matched nothing at
\* first: "If users have omitted the necessary tags and later add them, we need
\* to reprocess the information" (the reconcilers of vSwitches and groups).
StatusCatchesUp ==
    \A k \in Kind, s \in Content :
        <>[](nodeClass.phase = "present" /\ nodeClass.spec = s /\ s \in cloud[k])
            => <>[](nodeClass.status[k] = s)

\* A NodeClass does not stay in deletion when its NodeClaims are gone and
\* nobody edits it (finalize, which waits for conflicts and NodeClaims).
DeletionCompletes ==
    <>[][~UserNext]_vars =>
        ~<>[](/\ nodeClass.phase = "deleting"
              /\ \A c \in Claim : claims[c] \in {"absent", "gone"})

=============================================================================
