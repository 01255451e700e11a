--------------------------- MODULE NodeClassProofs ---------------------------
(***************************************************************************)
(* A NodeClass outlives the instances launched from it, and its status is  *)
(* of its spec, for every number of NodeClaims, contents and kinds.        *)
(***************************************************************************)
EXTENDS NodeClass, TLAPS

\* The fields of well-typed records, and how a write keeps the type.
LEMMA WriteType ==
    ASSUME nodeClass \in Object, NEW finalizer \in BOOLEAN,
           NEW phase \in {"present", "deleting", "gone"}, NEW s \in Content,
           NEW st \in [Kind -> Resolution]
    PROVE  /\ [nodeClass EXCEPT !.finalizer = finalizer] \in Object
           /\ [nodeClass EXCEPT !.phase = phase] \in Object
           /\ [nodeClass EXCEPT !.spec = s] \in Object
           /\ [nodeClass EXCEPT !.status = st] \in Object
           /\ [nodeClass EXCEPT !.phase = phase, !.finalizer = finalizer] \in Object
BY ZenonT(30) DEF Object

LEMMA TypeInit == Init => TypeOK
BY DEF Init, TypeOK, Object, StatusState, TerminationState, ClaimPhase, Resolution

\* Every action keeps the types.
LEMMA TypeStep == TypeOK /\ [Next]_vars => TypeOK'
<1> SUFFICES ASSUME TypeOK, [Next]_vars PROVE TypeOK'
    OBVIOUS
<1> USE DEF TypeOK
<1>1. CASE CacheSync
    BY Zenon, <1>1 DEF CacheSync
<1>2. CASE StatusNext
    <2>1. CASE StatusStart
        BY Zenon, <2>1 DEF StatusStart, StatusState, Object
    <2>2. CASE AddFinalizer
        BY ZenonT(30), <2>2, WriteType DEF AddFinalizer, Write, Outdate, StatusState, TerminationState
    <2>3. CASE AddFinalizerFails
        BY Zenon, <2>3 DEF AddFinalizerFails, StatusState
    <2>4. ASSUME NEW k \in Kind, Resolve(k) PROVE TypeOK'
        BY ZenonT(30), <2>4 DEF Resolve, StatusState, Resolution
    <2>5. ASSUME NEW k \in Kind, ResolveFails(k) PROVE TypeOK'
        BY Zenon, <2>5 DEF ResolveFails, StatusState
    <2>6. CASE Resolved
        BY Zenon, <2>6 DEF Resolved, StatusState
    <2>7. CASE PatchStatus
        <3>1. [nodeClass EXCEPT !.status = status.status] \in Object
            BY ZenonT(30), WriteType DEF StatusState
        <3> QED
            BY ZenonT(60), <2>7, <3>1 DEF PatchStatus, Write, Outdate, StatusState, TerminationState
    <2>8. CASE PatchStatusFails
        BY Zenon, <2>8 DEF PatchStatusFails, StatusState
    <2> QED
        BY Zenon, <1>2, <2>1, <2>2, <2>3, <2>4, <2>5, <2>6, <2>7, <2>8 DEF StatusNext
<1>3. CASE TerminationNext
    <2>1. CASE RemoveFinalizer
        BY ZenonT(60), <2>1, WriteType DEF RemoveFinalizer, Write, Outdate, StatusState, TerminationState
    <2> QED
        BY <1>3, <2>1 DEF TerminationNext, TerminationStart, ListClaims, ListClaimsFails, RemoveFinalizerFails,
                          TerminationState
<1>4. CASE UserNext
    <2>1. ASSUME NEW s \in Content, EditSpec(s) PROVE TypeOK'
        BY ZenonT(60), <2>1, WriteType DEF EditSpec, Write, Outdate, StatusState, TerminationState
    <2>2. CASE DeleteNodeClass
        BY ZenonT(30), <2>2, WriteType DEF DeleteNodeClass, Write, Outdate, StatusState, TerminationState
    <2>3. ASSUME NEW k \in Kind, NEW s \in Content, Retag(k, s) PROVE TypeOK'
        BY Zenon, <2>3 DEF Retag
    <2> QED
        BY Zenon, <1>4, <2>1, <2>2, <2>3 DEF UserNext
<1>5. ASSUME NEW c \in Claim, ClaimNext(c) PROVE TypeOK'
    BY Zenon, <1>5 DEF ClaimNext, CreateClaim, ClaimSync, DeleteClaim, Create, CreateRefused,
                CreateDone, CreateFails, Become, ClaimPhase
<1>6. CASE UNCHANGED vars
    BY Zenon, <1>6 DEF vars
<1> QED
    BY Zenon, <1>1, <1>2, <1>3, <1>4, <1>5, <1>6 DEF Next

\* The objects, the copies and the Reconciles of the NodeClass keep their types
\* under every action of the controllers, the user and Create.
THEOREM TypeCorrect == Spec => []TypeOK
BY TypeInit, TypeStep, PTL DEF Spec

-----------------------------------------------------------------------------
(* The invariant.  Create acts on a copy, so what it reads has to imply what *)
(* is the case, and has to be excluded once finalize has found no NodeClaim. *)

Busy(c) == claims[c] \in {"creating", "launched"}

\* A NodeClass whose status was ever written has its finalizer.
Guarded(object) ==
    object.phase # "gone" /\ (\E k \in Kind : object.status[k] # "unknown")
        => object.finalizer

\* A copy with the resource version of the object is the object.
SyncedInv == synced => cache = nodeClass

\* Deletion is not undone, and a copy shows it no earlier than it happens.
PhaseInv ==
    /\ cache.phase # "present" => nodeClass.phase # "present"
    /\ cache.phase = "present" /\ cache.finalizer
          => nodeClass.phase # "gone" /\ nodeClass.finalizer

\* A Reconcile whose copy is fresh works on a NodeClass that exists and, past
\* its first patch, has the finalizer.
ReconcileGuarded ==
    status.pc # "idle" /\ status.fresh =>
        nodeClass.phase # "gone" /\ (status.pc # "finalizer" => nodeClass.finalizer)

GuardInv == Guarded(nodeClass) /\ Guarded(cache) /\ ReconcileGuarded

\* finalize runs only after the copy shows the deletion, which stops Create;
\* when it is about to remove the finalizer no NodeClaim has passed Create.
TerminationInv ==
    /\ termination.pc # "idle" => cache.phase # "present"
    /\ termination.pc = "patch" => \A c \in Claim : ~Busy(c)

BusyInv ==
    (\E c \in Claim : Busy(c)) => nodeClass.phase # "gone" /\ nodeClass.finalizer

LifeInv == SyncedInv /\ PhaseInv /\ GuardInv /\ TerminationInv /\ BusyInv

LEMMA LifeInit == Init => LifeInv
BY DEF Init, LifeInv, SyncedInv, PhaseInv, GuardInv, Guarded, ReconcileGuarded, TerminationInv, BusyInv, Busy

\* A NodeClass that is ready in a copy has its finalizer there.
LEMMA ReadyIsGuarded ==
    ASSUME Ready(cache), Guarded(cache), cache.phase = "present"
    PROVE  cache.finalizer
BY Zenon, KindAssumption, ContentAssumption DEF Ready, Guarded

\* Actions that touch neither the NodeClass nor its copy nor termination, and
\* make no NodeClaim busy.
LEMMA LifeFrame ==
    ASSUME LifeInv, UNCHANGED <<nodeClass, cache, synced, termination>>,
           ReconcileGuarded',
           \A c \in Claim : Busy(c)' => Busy(c)
    PROVE  LifeInv'
BY Zenon DEF LifeInv, SyncedInv, PhaseInv, GuardInv, Guarded, TerminationInv, BusyInv

\* A write that removes neither the finalizer nor the object.
LEMMA LifeWrite ==
    ASSUME LifeInv, UNCHANGED <<cache, claims>>, synced' = FALSE,
           termination'.pc = termination.pc,
           nodeClass.phase # "gone" => nodeClass'.phase # "gone",
           nodeClass.phase # "present" => nodeClass'.phase # "present",
           nodeClass.finalizer => nodeClass'.finalizer,
           Guarded(nodeClass'), ReconcileGuarded'
    PROVE  LifeInv'
BY Zenon DEF LifeInv, SyncedInv, PhaseInv, GuardInv, Guarded, TerminationInv, BusyInv, Busy

LEMMA LifeStep == TypeOK /\ LifeInv /\ [Next]_vars => LifeInv'
<1> SUFFICES ASSUME TypeOK, LifeInv, [Next]_vars PROVE LifeInv'
    OBVIOUS
<1> USE DEF TypeOK, Object, StatusState, TerminationState
<1>1. CASE CacheSync
    <2>1. \A c \in Claim : Busy(c)' <=> Busy(c)
        BY Zenon, <1>1 DEF CacheSync, Busy
    <2> QED
        BY Zenon, <1>1, <2>1 DEF CacheSync, LifeInv, SyncedInv, PhaseInv, GuardInv, Guarded, ReconcileGuarded,
                          TerminationInv, BusyInv
<1>2. CASE StatusNext
    <2>1. CASE StatusStart
        BY Zenon, <2>1, LifeFrame DEF StatusStart, Busy, LifeInv, SyncedInv, ReconcileGuarded
    <2>2. CASE AddFinalizer
        BY ZenonT(30), <2>2, LifeWrite DEF AddFinalizer, Write, Outdate, Guarded, ReconcileGuarded, LifeInv, GuardInv
    <2>3. CASE AddFinalizerFails
        BY Zenon, <2>3, LifeFrame DEF AddFinalizerFails, Busy, ReconcileGuarded
    <2>4. ASSUME NEW k \in Kind, Resolve(k) \/ ResolveFails(k) PROVE LifeInv'
        BY ZenonT(30), <2>4, LifeFrame DEF Resolve, ResolveFails, Busy, ReconcileGuarded, LifeInv, GuardInv
    <2>5. CASE Resolved
        BY Zenon, <2>5, LifeFrame DEF Resolved, Busy, ReconcileGuarded, LifeInv, GuardInv
    <2>6. CASE PatchStatus
        BY ZenonT(30), <2>6, LifeFrame, LifeWrite
        DEF PatchStatus, Write, Outdate, Guarded, Busy, ReconcileGuarded, LifeInv, GuardInv
    <2>7. CASE PatchStatusFails
        BY Zenon, <2>7, LifeFrame DEF PatchStatusFails, Busy, ReconcileGuarded
    <2> QED
        BY Zenon, <1>2, <2>1, <2>2, <2>3, <2>4, <2>5, <2>6, <2>7 DEF StatusNext
<1>3. CASE TerminationNext
    <2> USE DEF LifeInv, SyncedInv, PhaseInv, GuardInv, Guarded, ReconcileGuarded, TerminationInv, BusyInv, Busy
    <2>1. CASE TerminationStart
        BY Zenon, <2>1 DEF TerminationStart
    <2>2. CASE ListClaims
        BY <2>2 DEF ListClaims, Visible
    <2>3. CASE RemoveFinalizer
        BY Zenon, <2>3 DEF RemoveFinalizer, Write, Outdate
    <2>4. CASE RemoveFinalizerFails
        BY Zenon, <2>4 DEF RemoveFinalizerFails
    <2>5. CASE ListClaimsFails
        BY Zenon, <2>5 DEF ListClaimsFails
    <2> QED
        BY Zenon, <1>3, <2>1, <2>2, <2>3, <2>4, <2>5 DEF TerminationNext
<1>4. CASE UserNext
    <2>1. ASSUME NEW s \in Content, EditSpec(s) PROVE LifeInv'
        BY ZenonT(30), <2>1, LifeWrite DEF EditSpec, Write, Outdate, Guarded, ReconcileGuarded, LifeInv, GuardInv
    <2>2. CASE DeleteNodeClass
        <3>1. CASE nodeClass.finalizer
            BY ZenonT(30), <2>2, <3>1, LifeWrite DEF DeleteNodeClass, Write, Outdate, Guarded, ReconcileGuarded
        <3>2. CASE ~nodeClass.finalizer
            BY Zenon, <2>2, <3>2 DEF DeleteNodeClass, Write, Outdate, LifeInv, SyncedInv, PhaseInv,
                              GuardInv, Guarded, ReconcileGuarded, TerminationInv, BusyInv, Busy
        <3> QED
            BY Zenon, <3>1, <3>2
    <2>3. ASSUME NEW k \in Kind, NEW s \in Content, Retag(k, s) PROVE LifeInv'
        BY Zenon, <2>3, LifeFrame DEF Retag, Busy, ReconcileGuarded, LifeInv, GuardInv
    <2> QED
        BY Zenon, <1>4, <2>1, <2>2, <2>3 DEF UserNext
<1>5. ASSUME NEW c \in Claim, ClaimNext(c) PROVE LifeInv'
    <2>1. CASE Create(c)
        <3>1. cache.finalizer
            BY Zenon, <2>1, ReadyIsGuarded DEF Create, LifeInv, GuardInv
        <3> QED
            BY Zenon, <2>1, <3>1 DEF Create, Become, LifeInv, SyncedInv, PhaseInv, GuardInv, Guarded, ReconcileGuarded,
                              TerminationInv, BusyInv, Busy
    <2>2. CASE CreateDone(c)
        BY Zenon, <2>2, LifeFrame DEF CreateDone, Become, Busy, ReconcileGuarded, LifeInv, GuardInv
    <2>3. CASE CreateClaim(c) \/ ClaimSync(c) \/ DeleteClaim(c) \/ CreateRefused(c) \/ CreateFails(c)
        BY <2>3, LifeFrame
        DEF CreateClaim, ClaimSync, DeleteClaim, CreateRefused, CreateFails, Become, Busy, ReconcileGuarded,
            LifeInv, GuardInv
    <2> QED
        BY Zenon, <1>5, <2>1, <2>2, <2>3 DEF ClaimNext
<1>6. CASE UNCHANGED vars
    BY Zenon, <1>6, LifeFrame DEF vars, Busy, ReconcileGuarded, LifeInv, GuardInv
<1> QED
    BY Zenon, <1>1, <1>2, <1>3, <1>4, <1>5, <1>6 DEF Next

LEMMA LifeImplies == LifeInv => NodeClassOutlivesInstances
BY Zenon DEF LifeInv, BusyInv, Busy, NodeClassOutlivesInstances

\* The types and the invariant of the NodeClass's life, together.
LEMMA LifeHolds == Spec => [](TypeOK /\ LifeInv)
<1>1. Init => TypeOK /\ LifeInv
    BY Zenon, TypeInit, LifeInit
<1>2. TypeOK /\ LifeInv /\ [Next]_vars => (TypeOK /\ LifeInv)'
    BY Zenon, TypeStep, LifeStep
<1> QED
    BY <1>1, <1>2, PTL DEF Spec

\* While a NodeClaim has an instance, or is past the checks of Create, its
\* NodeClass exists, however far the caches lag behind.
THEOREM NodeClassOutlives == Spec => []NodeClassOutlivesInstances
BY LifeHolds, LifeImplies, PTL

-----------------------------------------------------------------------------
(* The NodeClass implements the abstract lifetime of Lifetime, and its status is *)
(* never written for a spec that has been replaced.                              *)

\* The NodeClaims past Create's checks: the users in the refinement mapping.
Users == {c \in Claim : claims[c] \in {"creating", "launched"}}

LEMMA PromiseInit == Init => Promise!LifetimeInit
BY DEF Init, Promise!LifetimeInit

\* What a step of one NodeClaim does to the users.
LEMMA BecomeUsers ==
    ASSUME TypeOK, NEW c \in Claim, NEW from, NEW to, Become(c, from, to)
    PROVE  /\ nodeClass' = nodeClass
           /\ to \in {"creating", "launched"} => Users' = Users \cup {c}
           /\ to \notin {"creating", "launched"} => Users' = Users \ {c}
BY Zenon DEF TypeOK, Become, Users

\* Every step is a step of the abstract lifetime, or none.
LEMMA PromiseStep ==
    TypeOK /\ LifeInv /\ [Next]_vars => [Promise!LifetimeNext]_<<nodeClass.phase, Users>>
<1> SUFFICES ASSUME TypeOK, LifeInv, [Next]_vars
             PROVE  [Promise!LifetimeNext]_<<nodeClass.phase, Users>>
    OBVIOUS
<1>1. ASSUME NEW c \in Claim, ClaimNext(c)
      PROVE  [Promise!LifetimeNext]_<<nodeClass.phase, Users>>
    <2>1. ASSUME NEW from, NEW to, Become(c, from, to), to \notin {"creating", "launched"}
          PROVE  Promise!LetGo(c)
        BY Zenon, <2>1, BecomeUsers DEF Promise!LetGo, Users
    <2>2. ASSUME NEW from, NEW to, Become(c, from, to), to \in {"creating", "launched"},
                 nodeClass.phase # "gone"
          PROVE  Promise!Acquire(c)
        BY Zenon, <2>2, BecomeUsers DEF Promise!Acquire, Users
    <2>3. CASE Create(c)
        <3>1. nodeClass.phase # "gone"
            BY Zenon, <2>3, ReadyIsGuarded DEF Create, LifeInv, GuardInv, PhaseInv
        <3> QED
            BY Zenon, <2>2, <2>3, <3>1 DEF Create, Promise!LifetimeNext
    <2>4. CASE CreateDone(c)
        <3>1. nodeClass.phase # "gone"
            BY Zenon, <2>4 DEF CreateDone, Become, LifeInv, BusyInv, Busy
        <3> QED
            BY Zenon, <2>2, <2>4, <3>1 DEF CreateDone, Promise!LifetimeNext
    <2>5. CASE CreateClaim(c) \/ ClaimSync(c) \/ DeleteClaim(c) \/ CreateRefused(c) \/ CreateFails(c)
        BY <2>1, <2>5 DEF CreateClaim, ClaimSync, DeleteClaim, CreateRefused, CreateFails, Promise!LifetimeNext
    <2> QED
        BY Zenon, <1>1, <2>3, <2>4, <2>5 DEF ClaimNext
<1>2. CASE UNCHANGED <<nodeClass, claims>>
    BY Zenon, <1>2 DEF Users
<1>3. CASE nodeClass'.phase = nodeClass.phase /\ UNCHANGED claims
    BY Zenon, <1>3 DEF Users
<1>4. CASE CacheSync
    BY Zenon, <1>2, <1>4 DEF CacheSync
<1>5. CASE StatusNext
    <2>1. nodeClass'.phase = nodeClass.phase /\ UNCHANGED claims
        BY Zenon, <1>5 DEF StatusNext, StatusStart, AddFinalizer, AddFinalizerFails, Resolve, ResolveFails,
                    Resolved, PatchStatus, PatchStatusFails, Write, TypeOK, Object
    <2> QED
        BY Zenon, <1>3, <2>1
<1>6. CASE TerminationNext
    <2>1. CASE RemoveFinalizer
        <3>1. Users = {}
            BY Zenon, <2>1 DEF RemoveFinalizer, LifeInv, TerminationInv, Busy, Users
        <3>2. nodeClass'.phase = "gone" /\ Users' = Users
            BY Zenon, <2>1 DEF RemoveFinalizer, Write, TypeOK, Object, Users
        <3> QED
            BY Zenon, <3>1, <3>2 DEF Promise!LifetimeNext, Promise!Remove, Users
    <2> QED
        BY Zenon, <1>2, <1>6, <2>1 DEF TerminationNext, TerminationStart, ListClaims, ListClaimsFails, RemoveFinalizerFails
<1>7. CASE UserNext
    <2>1. CASE DeleteNodeClass
        <3>1. Users' = Users
            BY Zenon, <2>1 DEF DeleteNodeClass, Users
        <3>2. CASE nodeClass.finalizer
            <4>1. nodeClass'.phase = "deleting" /\ nodeClass.phase = "present"
                BY Zenon, <2>1, <3>2 DEF DeleteNodeClass, Write, TypeOK, Object
            <4> QED
                BY Zenon, <3>1, <4>1 DEF Promise!LifetimeNext, Promise!AskRemoval, Users
        <3>3. CASE ~nodeClass.finalizer
            <4>1. nodeClass'.phase = "gone"
                BY Zenon, <2>1, <3>3 DEF DeleteNodeClass, Write, TypeOK, Object
            <4>2. Users = {}
                BY Zenon, <3>3 DEF LifeInv, BusyInv, Busy, Users
            <4> QED
                BY Zenon, <3>1, <4>1, <4>2 DEF Promise!LifetimeNext, Promise!Remove, Users
        <3> QED
            BY Zenon, <3>2, <3>3
    <2>2. ASSUME NEW s \in Content, EditSpec(s)
          PROVE  nodeClass'.phase = nodeClass.phase /\ UNCHANGED claims
        BY Zenon, <2>2 DEF EditSpec, Write, TypeOK, Object
    <2>3. ASSUME NEW k \in Kind, NEW s \in Content, Retag(k, s) PROVE UNCHANGED <<nodeClass, claims>>
        BY Zenon, <2>3 DEF Retag
    <2> QED
        BY Zenon, <1>2, <1>3, <1>7, <2>1, <2>2, <2>3 DEF UserNext
<1>8. CASE UNCHANGED vars
    BY Zenon, <1>2, <1>8 DEF vars
<1> QED
    BY Zenon, <1>1, <1>4, <1>5, <1>6, <1>7, <1>8 DEF Next

\* The NodeClass, with lagging copies, conflicts and concurrent launches,
\* implements Lifetime: finalize, the status controller and Create together keep
\* what the finalizer promises, for any number of NodeClaims.
THEOREM FinalizerPromise == Spec => FinalizerKeepsPromise
BY LifeHolds, PromiseInit, PromiseStep, PTL
DEF Spec, FinalizerKeepsPromise, Promise!LifetimeSpec, Promise!lifetimeVars, Users

-----------------------------------------------------------------------------
\* A Reconcile whose copy is fresh has the spec of the object, and has changed a
\* kind only to what this spec gives.
StatusInv ==
    status.pc # "idle" /\ status.fresh =>
        /\ status.spec = nodeClass.spec
        /\ \A k \in Kind : status.status[k] \in {nodeClass.status[k], nodeClass.spec, "none"}

\* Actions that change neither the object nor the copy of the Reconcile.
LEMMA StatusFrame ==
    ASSUME StatusInv, UNCHANGED nodeClass,
           \/ UNCHANGED status
           \/ status'.pc = "idle"
           \/ /\ status.pc # "idle"
              /\ status'.fresh = status.fresh /\ status'.spec = status.spec
              /\ status'.status = status.status
    PROVE  StatusInv'
BY Zenon DEF StatusInv

LEMMA StatusStep == TypeOK /\ LifeInv /\ StatusInv /\ [Next]_vars => StatusInv'
<1> SUFFICES ASSUME TypeOK, LifeInv, StatusInv, [Next]_vars PROVE StatusInv'
    OBVIOUS
<1>1. CASE StatusNext
    <2>1. CASE StatusStart
        BY Zenon, <2>1 DEF StatusStart, StatusInv, LifeInv, SyncedInv
    <2>2. CASE AddFinalizer
        BY Zenon, <2>2 DEF AddFinalizer, Write, StatusInv, TypeOK, StatusState, Object
    <2>3. ASSUME NEW k \in Kind, Resolve(k) PROVE StatusInv'
        BY Zenon, <2>3 DEF Resolve, StatusInv, TypeOK, StatusState
    <2>4. ASSUME NEW k \in Kind, ResolveFails(k) PROVE StatusInv'
        BY Zenon, <2>4, StatusFrame DEF ResolveFails, TypeOK, StatusState
    <2>5. CASE Resolved \/ AddFinalizerFails \/ PatchStatusFails
        BY Zenon, <2>5, StatusFrame DEF Resolved, AddFinalizerFails, PatchStatusFails, TypeOK, StatusState
    <2>6. CASE PatchStatus
        BY Zenon, <2>6 DEF PatchStatus, StatusInv, TypeOK, StatusState
    <2> QED
        BY Zenon, <1>1, <2>1, <2>2, <2>3, <2>4, <2>5, <2>6 DEF StatusNext
<1>2. CASE TerminationNext
    <2>1. CASE RemoveFinalizer
        BY Zenon, <2>1 DEF RemoveFinalizer, Outdate, StatusInv, TypeOK, StatusState
    <2> QED
        BY Zenon, <1>2, <2>1, StatusFrame DEF TerminationNext, TerminationStart, ListClaims, ListClaimsFails, RemoveFinalizerFails
<1>3. CASE UserNext
    BY Zenon, <1>3, StatusFrame DEF UserNext, EditSpec, DeleteNodeClass, Retag, Outdate, StatusInv, TypeOK, StatusState
<1>4. CASE CacheSync \/ UNCHANGED vars
    BY Zenon, <1>4, StatusFrame DEF CacheSync, vars
<1>5. ASSUME NEW c \in Claim, ClaimNext(c) PROVE StatusInv'
    BY Zenon, <1>5, StatusFrame DEF ClaimNext, CreateClaim, ClaimSync, DeleteClaim, Create, CreateRefused,
                             CreateDone, CreateFails, Become
<1> QED
    BY Zenon, <1>1, <1>2, <1>3, <1>4, <1>5 DEF Next

\* A step writes the status of the present spec, or none.
StatusWrite ==
    \A k \in Kind :
        \/ nodeClass'.status[k] = nodeClass.status[k]
        \/ nodeClass'.status[k] \in {nodeClass.spec, "none"}

LEMMA StatusWriteStep == TypeOK /\ StatusInv /\ [Next]_vars => StatusWrite
<1> SUFFICES ASSUME TypeOK, StatusInv, [Next]_vars PROVE StatusWrite
    OBVIOUS
<1>1. CASE PatchStatus
    BY <1>1 DEF PatchStatus, Write, StatusInv, StatusWrite, TypeOK, Object, StatusState
<1>2. CASE nodeClass'.status = nodeClass.status
    BY Zenon, <1>2 DEF StatusWrite
<1>3. CASE StatusNext /\ ~PatchStatus
    BY Zenon, <1>2, <1>3 DEF StatusNext, StatusStart, AddFinalizer, AddFinalizerFails, Resolve, ResolveFails,
                      Resolved, PatchStatusFails, Write, TypeOK, Object
<1>4. CASE TerminationNext
    BY Zenon, <1>2, <1>4 DEF TerminationNext, TerminationStart, ListClaims, ListClaimsFails, RemoveFinalizer,
                      RemoveFinalizerFails, Write, TypeOK, Object
<1>5. CASE UserNext
    BY Zenon, <1>2, <1>5 DEF UserNext, EditSpec, DeleteNodeClass, Retag, Write, TypeOK, Object
<1>6. CASE CacheSync \/ UNCHANGED vars
    BY Zenon, <1>2, <1>6 DEF CacheSync, vars
<1>7. ASSUME NEW c \in Claim, ClaimNext(c) PROVE StatusWrite
    BY Zenon, <1>2, <1>7 DEF ClaimNext, CreateClaim, ClaimSync, DeleteClaim, Create, CreateRefused,
                      CreateDone, CreateFails, Become
<1> QED
    BY Zenon, <1>1, <1>3, <1>4, <1>5, <1>6, <1>7 DEF Next

\* The status controller writes no status that it resolved for an older spec, for
\* every set of kinds and contents: the optimistic lock refuses the patch.
THEOREM StatusOfTheSpec == Spec => StatusIsOfTheSpec
<1>1. Init => StatusInv
    BY DEF Init, StatusInv
<1>2. TypeOK /\ StatusInv /\ [Next]_vars => [StatusWrite]_vars
    BY Zenon, StatusWriteStep
<1> QED
    BY <1>1, <1>2, LifeHolds, StatusStep, PTL DEF Spec, StatusIsOfTheSpec, StatusWrite

=============================================================================
