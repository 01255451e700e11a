---------------------------- MODULE NodeClassHash ----------------------------
(***************************************************************************)
(* The hash of an ECSNodeClass and static drift: the hash controller       *)
(* (pkg/controllers/nodeclass/hash/controller.go), the annotations that    *)
(* CloudProvider.Create puts on NodeClaims, and areStaticFieldsDrifted     *)
(* (pkg/cloudprovider/drift.go), which the core asks for.  The controller  *)
(* hashes with "v3"; NodeClaims and annotations of "v2" are those an older *)
(* release left behind.                                                    *)
(***************************************************************************)
EXTENDS Naturals

CONSTANTS
    Claim,      \* NodeClaims of the NodeClass
    Content,    \* contents of the NodeClass's spec
    MaxEdits    \* bound: edits of the spec

ASSUME MaxEditsAssumption == MaxEdits \in Nat

VARIABLES
    nodeClass,  \* its spec and its two annotations
    claims,
    hasher,     \* the Reconcile of the hash controller
    queued,     \* the controller's queue holds the NodeClass
    edits

vars == <<nodeClass, claims, hasher, queued, edits>>

Version == {"v2", "v3"}

\* Hash: one value per version of the calculation and per content.
Hash(version, spec) == <<version, spec>>

NoHash == <<"none", "none">>

Hashes == (Version \X Content) \cup {NoHash}

NodeClassState == [spec : Content, hash : Hashes, version : Version \cup {"none"}]

\* A NodeClaim: where it is in its life, the spec it was launched from, its
\* annotations, its Drifted condition and whether it ever had it.  by is a
\* history: what wrote its annotations.
ClaimState ==
    [phase : {"absent", "launching", "launched", "deleted"}, from : Content,
     hash : Hashes, version : Version \cup {"none"}, drifted : BOOLEAN,
     everDrifted : BOOLEAN, by : {"none", "create", "upgrade"}]

\* Reconcile: the copy of the NodeClass it works on, the NodeClaims it has
\* still to patch, and whether their Drifted condition was unset when listed.
HasherState ==
    [pc : {"idle", "list", "claims", "patch"}, view : NodeClassState,
     todo : SUBSET Claim, undrifted : SUBSET Claim, failed : BOOLEAN]

TypeOK ==
    /\ nodeClass \in NodeClassState
    /\ claims \in [Claim -> ClaimState]
    /\ hasher \in HasherState
    /\ queued \in BOOLEAN
    /\ edits \in 0 .. MaxEdits

Absent(s) == [phase |-> "absent", from |-> s, hash |-> NoHash, version |-> "none",
              drifted |-> FALSE, everDrifted |-> FALSE, by |-> "none"]

\* A NodeClaim that a release with hash version v launched from spec s.
Launched(v, s) == [phase |-> "launched", from |-> s, hash |-> Hash(v, s),
                   version |-> v, drifted |-> FALSE, everDrifted |-> FALSE, by |-> "create"]

\* The controller starts over a NodeClass that release v had annotated, and over
\* NodeClaims launched from its present or an earlier spec.
Init ==
    \E v \in Version, s \in Content :
        /\ nodeClass = [spec |-> s, hash |-> Hash(v, s), version |-> v]
        /\ claims \in [Claim -> {Absent(s)} \cup {Launched(v, t) : t \in Content}]
        /\ hasher = [pc |-> "idle", view |-> nodeClass, todo |-> {},
                     undrifted |-> {}, failed |-> FALSE]
        /\ queued = TRUE
        /\ edits = 0

Exists(c) == claims[c].phase \in {"launching", "launched"}

-----------------------------------------------------------------------------
AreStaticFieldsDriftedUnversioned(c) ==
    /\ nodeClass.hash # NoHash /\ claims[c].hash # NoHash
    /\ nodeClass.hash # claims[c].hash

\* areStaticFieldsDrifted: only hashes of the same version are compared.
AreStaticFieldsDrifted(c) ==
    /\ nodeClass.hash # NoHash /\ claims[c].hash # NoHash
    /\ nodeClass.version # "none" /\ nodeClass.version = claims[c].version
    /\ nodeClass.hash # claims[c].hash

\* isNodeClassDrifted looks at the instance only if the static fields are not
\* drifted.  dynamic: its security groups or its vSwitch are no longer those of
\* the NodeClass's status, which change with the cloud and not with the hash.
IsNodeClassDrifted(c, dynamic) == AreStaticFieldsDrifted(c) \/ dynamic

\* The core asks IsDrifted for a launched NodeClaim, and keeps the answer as
\* its Drifted condition.
CheckDrift(c, dynamic) ==
    LET drifted == IsNodeClassDrifted(c, dynamic) IN
    /\ claims[c].phase = "launched"
    /\ claims' = [claims EXCEPT ![c] =
          [claims[c] EXCEPT !.drifted = drifted, !.everDrifted = @ \/ drifted]]
    /\ UNCHANGED <<nodeClass, hasher, queued, edits>>

\* Create reads the NodeClass ...
CreateStart(c) ==
    /\ claims[c].phase = "absent"
    /\ claims' = [claims EXCEPT ![c] =
          [claims[c] EXCEPT !.phase = "launching", !.from = nodeClass.spec]]
    /\ UNCHANGED <<nodeClass, hasher, queued, edits>>

CreateDoneRereads(c) ==
    /\ claims[c].phase = "launching"
    /\ claims' = [claims EXCEPT ![c] = [Launched("v3", claims[c].from) EXCEPT
                                          !.hash = Hash("v3", nodeClass.spec)]]
    /\ UNCHANGED <<nodeClass, hasher, queued, edits>>

\* ... and the NodeClaim it returns carries the hash of what it read.
CreateDone(c) ==
    /\ claims[c].phase = "launching"
    /\ claims' = [claims EXCEPT ![c] = Launched("v3", claims[c].from)]
    /\ UNCHANGED <<nodeClass, hasher, queued, edits>>

DeleteClaim(c) ==
    /\ Exists(c)
    /\ claims' = [claims EXCEPT ![c] = [Absent(claims[c].from) EXCEPT !.phase = "deleted"]]
    /\ UNCHANGED <<nodeClass, hasher, queued, edits>>

EditSpec(s) ==
    /\ edits < MaxEdits
    /\ s # nodeClass.spec
    /\ nodeClass' = [nodeClass EXCEPT !.spec = s]
    /\ queued' = TRUE
    /\ edits' = edits + 1
    /\ UNCHANGED <<claims, hasher>>

-----------------------------------------------------------------------------
\* Reconcile of the hash controller starts with a copy of the NodeClass.
HashStart ==
    /\ hasher.pc = "idle"
    /\ queued
    /\ queued' = FALSE
    /\ hasher' = [hasher EXCEPT
          !.pc = IF nodeClass.version # "v3" THEN "list" ELSE "patch",
          !.view = nodeClass]
    /\ UNCHANGED <<nodeClass, claims, edits>>

\* updateNodeClaimHash lists the NodeClaims of the NodeClass; those of another
\* version are to be patched.
HashList ==
    LET todo == {c \in Claim : Exists(c) /\ claims[c].version # "v3"} IN
    /\ hasher.pc = "list"
    /\ hasher' = [hasher EXCEPT !.pc = "claims", !.todo = todo, !.failed = FALSE,
                                !.undrifted = {c \in todo : ~claims[c].drifted}]
    /\ UNCHANGED <<nodeClass, claims, queued, edits>>

HashListFails ==
    /\ hasher.pc = "list"
    /\ hasher' = [hasher EXCEPT !.pc = "idle"]
    /\ queued' = TRUE
    /\ UNCHANGED <<nodeClass, claims, edits>>

\* One of them gets the new version and, unless it was drifted, the new hash.
\* A NodeClaim that is gone is ignored.
HashPatchClaim(c) ==
    /\ hasher.pc = "claims"
    /\ c \in hasher.todo
    /\ hasher' = [hasher EXCEPT !.todo = @ \ {c}]
    /\ claims' = IF ~Exists(c) THEN claims
                 ELSE [claims EXCEPT ![c] =
                         [claims[c] EXCEPT
                            !.version = "v3", !.by = "upgrade",
                            !.hash = IF c \in hasher.undrifted
                                     THEN Hash("v3", hasher.view.spec) ELSE @]]
    /\ UNCHANGED <<nodeClass, queued, edits>>

HashPatchClaimFails(c) ==
    /\ hasher.pc = "claims"
    /\ c \in hasher.todo
    /\ hasher' = [hasher EXCEPT !.todo = @ \ {c}, !.failed = TRUE]
    /\ UNCHANGED <<nodeClass, claims, queued, edits>>

HashClaimsDoneUnchecked ==
    /\ hasher.pc = "claims"
    /\ hasher.todo = {}
    /\ hasher' = [hasher EXCEPT !.pc = "patch", !.undrifted = {}]
    /\ UNCHANGED <<nodeClass, claims, queued, edits>>

HashClaimsDoneDropped ==
    /\ hasher.pc = "claims"
    /\ hasher.todo = {}
    /\ hasher' = [hasher EXCEPT !.pc = IF hasher.failed THEN "idle" ELSE "patch",
                                !.undrifted = {}]
    /\ UNCHANGED <<nodeClass, claims, queued, edits>>

\* Any failure ends Reconcile with an error, which queues the NodeClass again.
HashClaimsDone ==
    /\ hasher.pc = "claims"
    /\ hasher.todo = {}
    /\ hasher' = [hasher EXCEPT !.pc = IF hasher.failed THEN "idle" ELSE "patch",
                                !.undrifted = {}]
    /\ queued' = (queued \/ hasher.failed)
    /\ UNCHANGED <<nodeClass, claims, edits>>

\* The annotations of the NodeClass are patched where the copy differs; the
\* event of the change queues the NodeClass again.
HashPatch ==
    LET hash == Hash("v3", hasher.view.spec)
        changed == hasher.view.hash # hash \/ hasher.view.version # "v3"
    IN  /\ hasher.pc = "patch"
        /\ hasher' = [hasher EXCEPT !.pc = "idle"]
        /\ nodeClass' = IF changed
                        THEN [nodeClass EXCEPT !.hash = hash, !.version = "v3"]
                        ELSE nodeClass
        /\ queued' = (queued \/ nodeClass' # nodeClass)
        /\ UNCHANGED <<claims, edits>>

HashPatchFails ==
    /\ hasher.pc = "patch"
    /\ hasher' = [hasher EXCEPT !.pc = "idle"]
    /\ queued' = TRUE
    /\ UNCHANGED <<nodeClass, claims, edits>>

HashNext ==
    \/ HashStart \/ HashList \/ HashListFails \/ HashClaimsDone \/ HashPatch \/ HashPatchFails
    \/ \E c \in Claim : HashPatchClaim(c) \/ HashPatchClaimFails(c)

Next ==
    \/ HashNext
    \/ \E c \in Claim, dynamic \in BOOLEAN : CheckDrift(c, dynamic)
    \/ \E c \in Claim : CreateStart(c) \/ CreateDone(c) \/ DeleteClaim(c)
    \/ \E s \in Content : EditSpec(s)

Spec == Init /\ [][Next]_vars

\* The controller works off its queue; a patch that is tried again and again
\* does not fail every time.
FairSpec ==
    /\ Spec
    /\ WF_vars(HashNext)
    /\ SF_vars(HashList) /\ SF_vars(HashPatch)
    /\ \A c \in Claim : SF_vars(HashPatchClaim(c))

-----------------------------------------------------------------------------
\* The NodeClass takes the new version only after every NodeClaim has it: one
\* left behind would never be patched again and, with versions that differ,
\* would never be drifted (Reconcile, updateNodeClaimHash).
NoClaimLeftBehind ==
    nodeClass.version = "v3" =>
        \A c \in Claim : claims[c].phase = "launched" => claims[c].version = "v3"

\* A new version of the hash does not by itself make a NodeClaim drift, at no
\* point of the migration and whichever of its patches fail (updateNodeClaimHash,
\* areStaticFieldsDrifted).  One that was drifted for another reason may.
UpgradeCausesNoDrift ==
    edits = 0 =>
        \A c \in Claim :
            /\ claims[c].phase = "launched" /\ claims[c].from = nodeClass.spec
            /\ ~claims[c].everDrifted
            => ~AreStaticFieldsDrifted(c)

\* Once the annotations are those of the present spec, a NodeClaim annotated by
\* Create is drifted exactly if it was launched from another spec: what Create
\* and the hash controller write agree (areStaticFieldsDrifted).
DriftIsExact ==
    nodeClass.hash = Hash("v3", nodeClass.spec) /\ nodeClass.version = "v3" =>
        \A c \in Claim : claims[c].phase = "launched" /\ claims[c].by = "create" =>
            (AreStaticFieldsDrifted(c) <=> claims[c].from # nodeClass.spec)

\* No change is forgotten: while the annotations are not those of the present spec,
\* or a NodeClaim has an old version, the NodeClass is queued or in the hands of
\* Reconcile, whose copy may be older than the change, whatever fails in between.
ChangesAreKept ==
    \/ queued
    \/ hasher.pc # "idle"
    \/ /\ nodeClass.hash = Hash("v3", nodeClass.spec) /\ nodeClass.version = "v3"
       /\ \A c \in Claim : claims[c].phase = "launched" => claims[c].version = "v3"

\* The hash annotations follow the spec: after the last edit they become, and
\* stay, those of the present spec, and no NodeClaim keeps an old version, though
\* lists and patches fail and are tried again (Reconcile).
HashSettles ==
    <>[](/\ nodeClass.hash = Hash("v3", nodeClass.spec)
         /\ \A c \in Claim : claims[c].phase = "launched" => claims[c].version = "v3")

=============================================================================
