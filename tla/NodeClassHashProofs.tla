------------------------- MODULE NodeClassHashProofs -------------------------
(***************************************************************************)
(* The migration to a new hash version leaves no NodeClaim behind and      *)
(* causes no drift, and drift is exact, for every set of NodeClaims and    *)
(* contents and any number of edits.                                       *)
(***************************************************************************)
EXTENDS NodeClassHash, TLAPS

USE MaxEditsAssumption

LEMMA HashType ==
    ASSUME NEW v \in Version, NEW s \in Content
    PROVE  Hash(v, s) \in Hashes /\ NoHash \in Hashes /\ "v3" \in Version
BY Zenon DEF Hash, Hashes, Version

\* The states NodeClaims start from, and those a step replaces them by.
LEMMA NewClaimType ==
    ASSUME NEW v \in Version, NEW s \in Content
    PROVE  /\ Absent(s) \in ClaimState
           /\ Launched(v, s) \in ClaimState
           /\ [Absent(s) EXCEPT !.phase = "deleted"] \in ClaimState
BY ZenonT(30), HashType DEF Absent, Launched, ClaimState

LEMMA ClaimFields ==
    ASSUME NEW claim \in ClaimState
    PROVE  /\ claim.from \in Content /\ claim.hash \in Hashes
           /\ claim.drifted \in BOOLEAN /\ claim.everDrifted \in BOOLEAN
BY Zenon DEF ClaimState

LEMMA ClaimType ==
    ASSUME NEW claim \in ClaimState, NEW hash \in Hashes, NEW drifted \in BOOLEAN,
           NEW ever \in BOOLEAN, NEW s \in Content, "v3" \in Version
    PROVE  /\ [claim EXCEPT !.drifted = drifted, !.everDrifted = ever] \in ClaimState
           /\ [claim EXCEPT !.phase = "launching", !.from = s] \in ClaimState
           /\ [claim EXCEPT !.version = "v3", !.by = "upgrade", !.hash = hash] \in ClaimState
BY ZenonT(30) DEF ClaimState

\* The states that the drift check, Create and the migration replace one by.
DriftChecked(c, drifted) ==
    [claims[c] EXCEPT !.drifted = drifted, !.everDrifted = @ \/ drifted]

Launching(c) == [claims[c] EXCEPT !.phase = "launching", !.from = nodeClass.spec]

Upgraded(c) ==
    [claims[c] EXCEPT !.version = "v3", !.by = "upgrade",
                      !.hash = IF c \in hasher.undrifted
                               THEN Hash("v3", hasher.view.spec) ELSE @]

LEMMA ReplacedType ==
    ASSUME TypeOK, NEW c \in Claim, NEW drifted \in BOOLEAN
    PROVE  /\ claims[c] \in ClaimState
           /\ DriftChecked(c, drifted) \in ClaimState
           /\ Launching(c) \in ClaimState
           /\ Upgraded(c) \in ClaimState
<1>1. claims[c] \in ClaimState
    BY Zenon DEF TypeOK
<1>2. nodeClass.spec \in Content /\ hasher.view.spec \in Content
    BY Zenon DEF TypeOK, NodeClassState, HasherState
<1>3. "v3" \in Version
    BY Zenon DEF Version
<1> DEFINE ever == claims[c].everDrifted \/ drifted
           hash == IF c \in hasher.undrifted THEN Hash("v3", hasher.view.spec) ELSE claims[c].hash
<1>4. ever \in BOOLEAN
    BY Zenon, <1>1, ClaimFields
<1>5. hash \in Hashes
    BY Zenon, <1>1, <1>2, <1>3, ClaimFields, HashType
<1> HIDE DEF ever, hash
<1>6. [claims[c] EXCEPT !.drifted = drifted, !.everDrifted = ever] \in ClaimState
    BY Zenon, <1>1, <1>2, <1>3, <1>4, <1>5, ClaimType
<1>7. [claims[c] EXCEPT !.phase = "launching", !.from = nodeClass.spec] \in ClaimState
    BY Zenon, <1>1, <1>2, <1>3, <1>4, <1>5, ClaimType
<1>8. [claims[c] EXCEPT !.version = "v3", !.by = "upgrade", !.hash = hash] \in ClaimState
    BY Zenon, <1>1, <1>2, <1>3, <1>4, <1>5, ClaimType
<1>9. DriftChecked(c, drifted) \in ClaimState
    BY Zenon, <1>6 DEF DriftChecked, ever
<1>10. Upgraded(c) \in ClaimState
    BY Zenon, <1>8 DEF Upgraded, hash
<1> QED
    BY Zenon, <1>1, <1>7, <1>9, <1>10 DEF Launching

\* How a step changes the Reconcile.
LEMMA HasherType ==
    ASSUME hasher \in HasherState, NEW pc \in {"idle", "list", "claims", "patch"},
           NEW view \in NodeClassState, NEW todo \in SUBSET Claim,
           NEW undrifted \in SUBSET Claim, NEW failed \in BOOLEAN
    PROVE  /\ [hasher EXCEPT !.pc = pc] \in HasherState
           /\ [hasher EXCEPT !.pc = pc, !.view = view] \in HasherState
           /\ [hasher EXCEPT !.pc = pc, !.todo = todo, !.failed = failed,
                             !.undrifted = undrifted] \in HasherState
           /\ [hasher EXCEPT !.todo = todo] \in HasherState
           /\ [hasher EXCEPT !.todo = todo, !.failed = failed] \in HasherState
           /\ [hasher EXCEPT !.pc = pc, !.undrifted = undrifted] \in HasherState
BY ZenonT(30) DEF HasherState

LEMMA TypeInit == Init => TypeOK
<1> SUFFICES ASSUME Init PROVE TypeOK
    OBVIOUS
<1>1. PICK v \in Version, s \in Content :
          /\ nodeClass = [spec |-> s, hash |-> Hash(v, s), version |-> v]
          /\ claims \in [Claim -> {Absent(s)} \cup {Launched(v, t) : t \in Content}]
          /\ hasher = [pc |-> "idle", view |-> nodeClass, todo |-> {},
                       undrifted |-> {}, failed |-> FALSE]
          /\ queued = TRUE /\ edits = 0
    BY Zenon DEF Init
<1>2. nodeClass \in NodeClassState
    BY Zenon, <1>1, HashType DEF NodeClassState
<1>3. claims \in [Claim -> ClaimState]
    <2>1. {Absent(s)} \cup {Launched(v, t) : t \in Content} \subseteq ClaimState
        BY Zenon, NewClaimType
    <2> QED
        BY Zenon, <1>1, <2>1
<1>4. hasher \in HasherState
    BY Zenon, <1>1, <1>2 DEF HasherState
<1>5. queued \in BOOLEAN /\ edits \in 0 .. MaxEdits
    BY <1>1
<1> QED
    BY Zenon, <1>2, <1>3, <1>4, <1>5 DEF TypeOK

\* Replacing the state of one NodeClaim.
LEMMA ClaimsType ==
    ASSUME claims \in [Claim -> ClaimState], NEW c \in Claim, NEW new \in ClaimState
    PROVE  [claims EXCEPT ![c] = new] \in [Claim -> ClaimState]
OBVIOUS

LEMMA TypeStep == TypeOK /\ [Next]_vars => TypeOK'
<1> SUFFICES ASSUME TypeOK, [Next]_vars PROVE TypeOK'
    OBVIOUS
<1> USE DEF TypeOK
<1>1. CASE HashNext
    <2>1. CASE HashStart
        BY ZenonT(30), <2>1, HasherType DEF HashStart
    <2>2. CASE HashList
        <3> DEFINE todo == {c \in Claim : Exists(c) /\ claims[c].version # "v3"}
        <3>1. todo \in SUBSET Claim /\ {c \in todo : ~claims[c].drifted} \in SUBSET Claim
            OBVIOUS
        <3> HIDE DEF todo
        <3>2. hasher' \in HasherState
            BY ZenonT(30), <2>2, <3>1, HasherType DEF HashList, todo
        <3> QED
            BY Zenon, <2>2, <3>2 DEF HashList
    <2>3. CASE HashListFails
        BY ZenonT(30), <2>3, HasherType DEF HashListFails
    <2>4. CASE HashClaimsDone
        <3>1. hasher' \in HasherState
            BY ZenonT(30), <2>4, HasherType DEF HashClaimsDone
        <3>2. (queued \/ hasher.failed) \in BOOLEAN
            OBVIOUS
        <3> QED
            BY ZenonT(30), <2>4, <3>1, <3>2 DEF HashClaimsDone
    <2>5. CASE HashPatch
        <3>1. Hash("v3", hasher.view.spec) \in Hashes /\ "v3" \in Version
            BY Zenon, HashType DEF HasherState, NodeClassState, Version
        <3>2. nodeClass' \in NodeClassState
            BY ZenonT(30), <2>5, <3>1 DEF HashPatch, NodeClassState
        <3>3. (queued \/ nodeClass' # nodeClass) \in BOOLEAN
            OBVIOUS
        <3> QED
            BY ZenonT(30), <2>5, <3>2, <3>3, HasherType DEF HashPatch
    <2>6. CASE HashPatchFails
        BY ZenonT(30), <2>6, HasherType DEF HashPatchFails
    <2>7. ASSUME NEW c \in Claim, HashPatchClaim(c) PROVE TypeOK'
        <3>1. claims' = claims \/ claims' = [claims EXCEPT ![c] = Upgraded(c)]
            BY Zenon, <2>7 DEF HashPatchClaim, Upgraded
        <3>2. claims' \in [Claim -> ClaimState]
            BY Zenon, <3>1, ReplacedType, ClaimsType
        <3>3. hasher.todo \ {c} \in SUBSET Claim
            BY Zenon DEF HasherState
        <3>4. hasher' \in HasherState
            BY Zenon, <2>7, <3>3, HasherType DEF HashPatchClaim
        <3> QED
            BY Zenon, <2>7, <3>2, <3>4 DEF HashPatchClaim
    <2>8. ASSUME NEW c \in Claim, HashPatchClaimFails(c) PROVE TypeOK'
        <3>1. hasher.todo \ {c} \in SUBSET Claim
            BY Zenon DEF HasherState
        <3> QED
            BY ZenonT(30), <2>8, <3>1, HasherType DEF HashPatchClaimFails
    <2> QED
        BY Zenon, <1>1, <2>1, <2>2, <2>3, <2>4, <2>5, <2>6, <2>7, <2>8 DEF HashNext
<1>2. ASSUME NEW c \in Claim, NEW dynamic \in BOOLEAN, CheckDrift(c, dynamic) PROVE TypeOK'
    <2>1. IsNodeClassDrifted(c, dynamic) \in BOOLEAN
        BY Zenon DEF IsNodeClassDrifted, AreStaticFieldsDrifted
    <2>2. claims' = [claims EXCEPT ![c] = DriftChecked(c, IsNodeClassDrifted(c, dynamic))]
        BY Zenon, <1>2 DEF CheckDrift, DriftChecked
    <2>3. claims' \in [Claim -> ClaimState]
        BY Zenon, <2>1, <2>2, ReplacedType, ClaimsType
    <2> QED
        BY Zenon, <1>2, <2>3 DEF CheckDrift
<1>3. ASSUME NEW c \in Claim, CreateStart(c) PROVE TypeOK'
    <2>1. claims' = [claims EXCEPT ![c] = Launching(c)]
        BY Zenon, <1>3 DEF CreateStart, Launching
    <2>2. claims' \in [Claim -> ClaimState]
        BY Zenon, <2>1, ReplacedType, ClaimsType
    <2> QED
        BY Zenon, <1>3, <2>2 DEF CreateStart
<1>4. ASSUME NEW c \in Claim, CreateDone(c) \/ DeleteClaim(c) PROVE TypeOK'
    <2>1. claims[c].from \in Content /\ "v3" \in Version
        BY Zenon, ReplacedType, ClaimFields DEF Version
    <2>2. /\ Launched("v3", claims[c].from) \in ClaimState
          /\ [Absent(claims[c].from) EXCEPT !.phase = "deleted"] \in ClaimState
        BY Zenon, <2>1, NewClaimType
    <2>3. PICK new \in ClaimState : claims' = [claims EXCEPT ![c] = new]
        BY Zenon, <1>4, <2>2 DEF CreateDone, DeleteClaim
    <2>4. claims' \in [Claim -> ClaimState]
        BY Zenon, <2>3, ClaimsType
    <2> QED
        BY Zenon, <1>4, <2>4 DEF CreateDone, DeleteClaim
<1>5. ASSUME NEW s \in Content, EditSpec(s) PROVE TypeOK'
    <2>1. [nodeClass EXCEPT !.spec = s] \in NodeClassState
        BY ZenonT(30) DEF NodeClassState
    <2>2. edits < MaxEdits => edits + 1 \in 0 .. MaxEdits
        OBVIOUS
    <2> QED
        BY ZenonT(30), <1>5, <2>1, <2>2 DEF EditSpec
<1>6. CASE UNCHANGED vars
    BY Zenon, <1>6 DEF vars
<1> QED
    BY Zenon, <1>1, <1>2, <1>3, <1>4, <1>5, <1>6 DEF Next

-----------------------------------------------------------------------------
(* The invariant of one NodeClaim, and what the steps do to it. *)

\* It needs no patch any more.
Migrated(c) == claims[c].phase = "launched" => claims[c].version = "v3"

\* Create and the drift check are consistent: what Create wrote is the hash of
\* what it read, and nothing drifts before it is launched.
ClaimInv(c) ==
    /\ claims[c].phase = "launched" /\ claims[c].by = "create"
          => claims[c].hash = Hash(claims[c].version, claims[c].from)
    /\ claims[c].drifted => claims[c].everDrifted
    /\ claims[c].phase \in {"absent", "launching"} => ~claims[c].everDrifted

\* Without edits, a NodeClaim of the present spec that never drifted carries the
\* hash of this spec, in its version.
UpgradeInv(c) ==
    edits = 0 /\ claims[c].phase = "launched" /\ claims[c].from = nodeClass.spec
        /\ ~claims[c].everDrifted
        => claims[c].hash = Hash(claims[c].version, nodeClass.spec)

\* The Reconcile has still to patch what is not migrated, or knows of a failure;
\* a NodeClaim that is to keep its hash was drifted.
TodoInv(c) ==
    /\ hasher.pc = "patch" \/ nodeClass.version = "v3" => Migrated(c)
    /\ hasher.pc = "claims" /\ ~hasher.failed => Migrated(c) \/ c \in hasher.todo
    /\ hasher.pc = "claims" /\ c \in hasher.todo \ hasher.undrifted
          /\ claims[c].phase # "deleted" => claims[c].everDrifted

\* Without edits the annotations of the NodeClass are those of its spec, and the
\* copy of the Reconcile is of this spec.
SpecInv ==
    edits = 0 => /\ nodeClass.hash = Hash(nodeClass.version, nodeClass.spec)
                 /\ hasher.view.spec = nodeClass.spec

HashInv ==
    SpecInv /\ \A c \in Claim : ClaimInv(c) /\ UpgradeInv(c) /\ TodoInv(c)

LEMMA HashInvInit == Init => HashInv
<1> SUFFICES ASSUME Init PROVE HashInv
    OBVIOUS
<1>1. PICK v \in Version, s \in Content :
          /\ nodeClass = [spec |-> s, hash |-> Hash(v, s), version |-> v]
          /\ claims \in [Claim -> {Absent(s)} \cup {Launched(v, t) : t \in Content}]
          /\ hasher = [pc |-> "idle", view |-> nodeClass, todo |-> {},
                       undrifted |-> {}, failed |-> FALSE]
    BY Zenon DEF Init
<1>2. ASSUME NEW c \in Claim PROVE ClaimInv(c) /\ UpgradeInv(c) /\ TodoInv(c)
    <2>1. CASE claims[c] = Absent(s)
        BY <1>1, <2>1 DEF Absent, ClaimInv, UpgradeInv, TodoInv, Migrated
    <2>2. ASSUME NEW t \in Content, claims[c] = Launched(v, t)
          PROVE  ClaimInv(c) /\ UpgradeInv(c) /\ TodoInv(c)
        BY <1>1, <2>2 DEF Launched, ClaimInv, UpgradeInv, TodoInv, Migrated
    <2> QED
        BY Zenon, <1>1, <2>1, <2>2
<1> QED
    BY Zenon, <1>1, <1>2 DEF HashInv, SpecInv

\* Steps that leave the NodeClass and the Reconcile alone touch one NodeClaim.
LEMMA ClaimStep ==
    ASSUME TypeOK, HashInv, NEW c \in Claim, UNCHANGED <<nodeClass, hasher, edits>>,
           NEW new, claims' = [claims EXCEPT ![c] = new],
           ClaimInv(c)', UpgradeInv(c)', TodoInv(c)'
    PROVE  HashInv'
<1>1. ASSUME NEW d \in Claim, d # c PROVE claims'[d] = claims[d]
    BY Zenon, <1>1 DEF TypeOK
<1>2. ASSUME NEW d \in Claim, d # c PROVE ClaimInv(d)' /\ UpgradeInv(d)' /\ TodoInv(d)'
    BY <1>1, <1>2 DEF HashInv, ClaimInv, UpgradeInv, TodoInv, Migrated
<1> QED
    BY Zenon, <1>2 DEF HashInv, SpecInv

\* Steps of the Reconcile that leave the NodeClaims alone.
LEMMA HasherStep ==
    ASSUME HashInv, UNCHANGED <<claims, edits>>, nodeClass'.spec = nodeClass.spec,
           SpecInv', \A c \in Claim : TodoInv(c)'
    PROVE  HashInv'
BY Zenon DEF HashInv, ClaimInv, UpgradeInv

LEMMA HashInvStep == TypeOK /\ HashInv /\ [Next]_vars => HashInv'
<1> SUFFICES ASSUME TypeOK, HashInv, [Next]_vars PROVE HashInv'
    OBVIOUS
<1> USE DEF TypeOK
<1>1. CASE HashNext
    <2>1. CASE HashStart
        BY Zenon, <2>1, HasherStep DEF HashStart, HashInv, SpecInv, TodoInv, Migrated, HasherState
    <2>2. CASE HashList
        <3>1. ASSUME NEW c \in Claim PROVE TodoInv(c)'
            BY Zenon, <2>2, <3>1 DEF HashList, Exists, HashInv, ClaimInv, TodoInv, Migrated, HasherState
        <3> QED
            BY Zenon, <2>2, <3>1, HasherStep DEF HashList, HashInv, SpecInv, HasherState
    <2>3. CASE HashListFails \/ HashPatchFails
        BY <2>3, HasherStep DEF HashListFails, HashPatchFails, HashInv, SpecInv, TodoInv, Migrated, HasherState
    <2>4. CASE HashClaimsDone
        BY Zenon, <2>4, HasherStep DEF HashClaimsDone, HashInv, SpecInv, TodoInv, Migrated, HasherState
    <2>5. CASE HashPatch
        <3>1. nodeClass'.spec = nodeClass.spec
            BY Zenon, <2>5 DEF HashPatch, NodeClassState
        <3>2. SpecInv'
            BY Zenon, <2>5 DEF HashPatch, HashInv, SpecInv, NodeClassState, HasherState
        <3>3. ASSUME NEW c \in Claim PROVE TodoInv(c)'
            BY Zenon, <2>5 DEF HashPatch, HashInv, TodoInv, Migrated, HasherState
        <3> QED
            BY Zenon, <2>5, <3>1, <3>2, <3>3, HasherStep DEF HashPatch
    <2>6. ASSUME NEW c \in Claim, HashPatchClaim(c) PROVE HashInv'
        <3>1. /\ hasher' = [hasher EXCEPT !.todo = hasher.todo \ {c}]
              /\ hasher.pc = "claims" /\ c \in hasher.todo
              /\ UNCHANGED <<nodeClass, edits>>
            BY Zenon, <2>6 DEF HashPatchClaim
        <3>2. /\ hasher'.pc = hasher.pc /\ hasher'.failed = hasher.failed
              /\ hasher'.todo = hasher.todo \ {c} /\ hasher'.undrifted = hasher.undrifted
              /\ hasher'.view = hasher.view
            BY Zenon, <3>1 DEF HasherState
        <3>3. SpecInv'
            BY Zenon, <3>1, <3>2 DEF HashInv, SpecInv
        <3>4. ASSUME NEW d \in Claim, d # c PROVE ClaimInv(d)' /\ UpgradeInv(d)' /\ TodoInv(d)'
            <4>1. claims'[d] = claims[d]
                BY Zenon, <2>6, <3>4 DEF HashPatchClaim
            <4> QED
                BY <3>1, <3>2, <3>4, <4>1 DEF HashInv, ClaimInv, UpgradeInv, TodoInv, Migrated
        <3>5. ClaimInv(c)' /\ UpgradeInv(c)' /\ TodoInv(c)'
            <4>1. CASE ~Exists(c)
                BY Zenon, <2>6, <3>1, <3>2, <4>1 DEF HashPatchClaim, Exists, HashInv, ClaimInv, UpgradeInv, TodoInv, Migrated
            <4>2. CASE Exists(c)
                <5>1. /\ claims'[c].version = "v3" /\ claims'[c].by = "upgrade"
                      /\ claims'[c].phase = claims[c].phase /\ claims'[c].from = claims[c].from
                      /\ claims'[c].drifted = claims[c].drifted
                      /\ claims'[c].everDrifted = claims[c].everDrifted
                      /\ c \in hasher.undrifted => claims'[c].hash = Hash("v3", hasher.view.spec)
                    BY <2>6, <4>2 DEF HashPatchClaim, ClaimState
                <5>2. c \notin hasher.undrifted => claims[c].everDrifted
                    BY Zenon, <3>1, <4>2 DEF HashInv, TodoInv, Exists
                <5> QED
                    BY Zenon, <3>1, <3>2, <5>1, <5>2 DEF HashInv, SpecInv, ClaimInv, UpgradeInv, TodoInv, Migrated
            <4> QED
                BY Zenon, <4>1, <4>2
        <3> QED
            BY Zenon, <3>3, <3>4, <3>5 DEF HashInv
    <2>7. ASSUME NEW c \in Claim, HashPatchClaimFails(c) PROVE HashInv'
        BY Zenon, <2>7, HasherStep DEF HashPatchClaimFails, HashInv, SpecInv, TodoInv, Migrated, HasherState
    <2> QED
        BY Zenon, <1>1, <2>1, <2>2, <2>3, <2>4, <2>5, <2>6, <2>7 DEF HashNext
<1>2. ASSUME NEW c \in Claim, NEW dynamic \in BOOLEAN, CheckDrift(c, dynamic) PROVE HashInv'
    <2> DEFINE drifted == IsNodeClassDrifted(c, dynamic)
    <2>1. claims' = [claims EXCEPT ![c] = DriftChecked(c, drifted)] /\ UNCHANGED <<nodeClass, hasher, edits>>
        BY Zenon, <1>2 DEF CheckDrift, DriftChecked
    <2>2. claims[c].phase = "launched" /\ claims'[c] = DriftChecked(c, drifted)
        BY Zenon, <1>2, <2>1 DEF CheckDrift
    <2>3. claims[c] \in ClaimState
        OBVIOUS
    <2> HIDE DEF drifted
    <2>4. /\ claims'[c].phase = claims[c].phase
          /\ claims'[c].hash = claims[c].hash /\ claims'[c].version = claims[c].version
          /\ claims'[c].from = claims[c].from /\ claims'[c].by = claims[c].by
        BY Zenon, <2>2, <2>3 DEF DriftChecked, ClaimState
    <2>5. /\ claims'[c].drifted = drifted
          /\ claims'[c].everDrifted = (claims[c].everDrifted \/ drifted)
        BY Zenon, <2>2, <2>3 DEF DriftChecked, ClaimState
    <2>6. UNCHANGED <<nodeClass, hasher, edits>>
        BY Zenon, <2>1
    <2>7. ClaimInv(c)'
        BY Zenon, <2>2, <2>4, <2>5 DEF HashInv, ClaimInv
    <2>8. UpgradeInv(c)'
        BY Zenon, <2>4, <2>5, <2>6 DEF HashInv, UpgradeInv
    <2>9. TodoInv(c)'
        BY Zenon, <2>4, <2>5, <2>6 DEF HashInv, TodoInv, Migrated
    <2> QED
        BY Zenon, <2>1, <2>7, <2>8, <2>9, ClaimStep
<1>3. ASSUME NEW c \in Claim, CreateStart(c) PROVE HashInv'
    <2>1. claims' = [claims EXCEPT ![c] = Launching(c)] /\ UNCHANGED <<nodeClass, hasher, edits>>
        BY Zenon, <1>3 DEF CreateStart, Launching
    <2>2. claims[c].phase = "absent" /\ claims'[c] = Launching(c)
        BY Zenon, <1>3, <2>1 DEF CreateStart
    <2>3. claims[c] \in ClaimState
        OBVIOUS
    <2>4. /\ claims'[c].phase = "launching"
          /\ claims'[c].drifted = claims[c].drifted /\ claims'[c].everDrifted = claims[c].everDrifted
        BY Zenon, <2>2, <2>3 DEF Launching, ClaimState
    <2> QED
        BY ZenonT(30), <2>1, <2>2, <2>4, ClaimStep DEF HashInv, ClaimInv, UpgradeInv, TodoInv, Migrated
<1>4. ASSUME NEW c \in Claim, CreateDone(c) PROVE HashInv'
    <2>1. claims' = [claims EXCEPT ![c] = Launched("v3", claims[c].from)] /\ UNCHANGED <<nodeClass, hasher, edits>>
        BY Zenon, <1>4 DEF CreateDone
    <2>2. claims[c].phase = "launching" /\ claims'[c] = Launched("v3", claims[c].from)
        BY Zenon, <1>4, <2>1 DEF CreateDone
    <2> QED
        BY ZenonT(30), <2>1, <2>2, ClaimStep DEF Launched, HashInv, ClaimInv, UpgradeInv, TodoInv, Migrated
<1>5. ASSUME NEW c \in Claim, DeleteClaim(c) PROVE HashInv'
    <2> DEFINE new == [Absent(claims[c].from) EXCEPT !.phase = "deleted"]
    <2>1. claims' = [claims EXCEPT ![c] = new] /\ UNCHANGED <<nodeClass, hasher, edits>>
        BY Zenon, <1>5 DEF DeleteClaim
    <2>2. claims'[c].phase = "deleted" /\ ~claims'[c].drifted
        BY Zenon, <2>1 DEF Absent
    <2> QED
        BY ZenonT(30), <2>1, <2>2, ClaimStep DEF HashInv, ClaimInv, UpgradeInv, TodoInv, Migrated
<1>6. ASSUME NEW s \in Content, EditSpec(s) PROVE HashInv'
    <2>1. edits' # 0 /\ UNCHANGED <<claims, hasher>> /\ nodeClass'.version = nodeClass.version
        BY <1>6 DEF EditSpec, NodeClassState
    <2> QED
        BY Zenon, <2>1 DEF HashInv, SpecInv, ClaimInv, UpgradeInv, TodoInv, Migrated
<1>7. CASE UNCHANGED vars
    BY Zenon, <1>7 DEF vars, HashInv, SpecInv, ClaimInv, UpgradeInv, TodoInv, Migrated
<1> QED
    BY Zenon, <1>1, <1>2, <1>3, <1>4, <1>5, <1>6, <1>7 DEF Next

LEMMA HashHolds == Spec => [](TypeOK /\ HashInv)
<1>1. Init => TypeOK /\ HashInv
    BY Zenon, TypeInit, HashInvInit
<1>2. TypeOK /\ HashInv /\ [Next]_vars => (TypeOK /\ HashInv)'
    BY Zenon, TypeStep, HashInvStep
<1> QED
    BY <1>1, <1>2, PTL DEF Spec

-----------------------------------------------------------------------------
\* The NodeClass, the NodeClaims and what Reconcile has read keep their types through
\* every patch, failure and upgrade.
THEOREM HashTyped == Spec => []TypeOK
<1> QED
    BY HashHolds, PTL

\* The NodeClass has the new hash version only when every launched NodeClaim has
\* it, for any number of NodeClaims and failures (updateNodeClaimHash).
THEOREM NoneLeftBehind == Spec => []NoClaimLeftBehind
<1>1. HashInv => NoClaimLeftBehind
    BY Zenon DEF HashInv, TodoInv, Migrated, NoClaimLeftBehind
<1> QED
    BY <1>1, HashHolds, PTL

\* The migration by itself makes no NodeClaim drift, whichever patches fail.
THEOREM UpgradeWithoutDrift == Spec => []UpgradeCausesNoDrift
<1>1. HashInv => UpgradeCausesNoDrift
    BY Zenon DEF HashInv, SpecInv, UpgradeInv, UpgradeCausesNoDrift, AreStaticFieldsDrifted
<1> QED
    BY <1>1, HashHolds, PTL

\* With current annotations, static drift tells exactly the NodeClaims that were
\* launched from another spec.
THEOREM ExactDrift == Spec => []DriftIsExact
<1>1. TypeOK /\ HashInv => DriftIsExact
    BY DEF HashInv, TodoInv, Migrated, ClaimInv, DriftIsExact, AreStaticFieldsDrifted, Hash, NoHash
<1> QED
    BY <1>1, HashHolds, PTL

-----------------------------------------------------------------------------
(* No change of the spec is forgotten. *)

\* Only Reconcile writes the annotations, so its copy of them is right, and its copy
\* of the spec is right unless the edit has queued the NodeClass again.
KeptInv ==
    /\ hasher.pc # "idle" => /\ hasher.view.hash = nodeClass.hash
                             /\ hasher.view.version = nodeClass.version
    /\ hasher.pc # "idle" /\ ~queued => hasher.view.spec = nodeClass.spec
    /\ \/ queued
       \/ hasher.pc # "idle"
       \/ nodeClass.hash = Hash("v3", nodeClass.spec) /\ nodeClass.version = "v3"

LEMMA KeptStep == TypeOK /\ KeptInv /\ [Next]_vars => KeptInv'
<1> SUFFICES ASSUME TypeOK, KeptInv, [Next]_vars PROVE KeptInv'
    OBVIOUS
<1>0. hasher \in HasherState /\ nodeClass \in NodeClassState /\ queued \in BOOLEAN
    BY Zenon DEF TypeOK
\* A step of Reconcile that goes on with the copy it has.
<1>1. ASSUME UNCHANGED <<nodeClass, queued>>, hasher'.view = hasher.view,
             hasher.pc # "idle", hasher'.pc # "idle"
      PROVE  KeptInv'
    BY Zenon, <1>1 DEF KeptInv
\* One that ends it after an error.
<1>2. ASSUME queued', hasher'.pc = "idle"
      PROVE  KeptInv'
    BY Zenon, <1>2 DEF KeptInv
<1>3. CASE UNCHANGED <<nodeClass, hasher, queued>>
    BY Zenon, <1>3 DEF KeptInv
<1>4. CASE UNCHANGED vars
    BY Zenon, <1>3, <1>4 DEF vars
<1>5. ASSUME NEW c \in Claim,
             \/ CreateStart(c) \/ CreateDone(c) \/ DeleteClaim(c)
             \/ \E dynamic \in BOOLEAN : CheckDrift(c, dynamic)
      PROVE  KeptInv'
    BY Zenon, <1>3, <1>5 DEF CreateStart, CreateDone, DeleteClaim, CheckDrift
<1>6. ASSUME NEW s \in Content, EditSpec(s) PROVE KeptInv'
    <2>1. hasher' = hasher /\ queued' = TRUE /\ nodeClass' = [nodeClass EXCEPT !.spec = s]
        BY Zenon, <1>6 DEF EditSpec
    <2>2. nodeClass'.hash = nodeClass.hash /\ nodeClass'.version = nodeClass.version
        BY Zenon, <1>0, <2>1 DEF NodeClassState
    <2> QED
        BY Zenon, <2>1, <2>2 DEF KeptInv
<1>7. CASE HashStart
    <2> DEFINE step == IF nodeClass.version # "v3" THEN "list" ELSE "patch"
    <2>1. nodeClass' = nodeClass /\ hasher' = [hasher EXCEPT !.pc = step, !.view = nodeClass]
        BY Zenon, <1>7 DEF HashStart
    <2>2. hasher'.view = nodeClass /\ hasher'.pc = step
        BY Zenon, <1>0, <2>1 DEF HasherState
    <2>3. step # "idle"
        OBVIOUS
    <2> HIDE DEF step
    <2> QED
        BY Zenon, <2>1, <2>2, <2>3 DEF KeptInv
<1>8. CASE HashList
    <2>1. UNCHANGED <<nodeClass, queued>> /\ hasher.pc # "idle"
        BY <1>8 DEF HashList
    <2>2. hasher'.view = hasher.view /\ hasher'.pc = "claims"
        BY Zenon, <1>0, <1>8 DEF HashList, HasherState
    <2> QED
        BY <1>1, <2>1, <2>2
<1>9. CASE HashListFails \/ HashPatchFails
    <2>1. queued' = TRUE /\ hasher' = [hasher EXCEPT !.pc = "idle"]
        BY Zenon, <1>9 DEF HashListFails, HashPatchFails
    <2>2. hasher'.pc = "idle"
        BY Zenon, <1>0, <2>1 DEF HasherState
    <2> QED
        BY Zenon, <1>2, <2>1, <2>2
<1>10. ASSUME NEW c \in Claim, HashPatchClaim(c) \/ HashPatchClaimFails(c) PROVE KeptInv'
    <2>1. UNCHANGED <<nodeClass, queued>> /\ hasher.pc = "claims"
        BY Zenon, <1>10 DEF HashPatchClaim, HashPatchClaimFails
    <2>2. hasher'.view = hasher.view /\ hasher'.pc = hasher.pc
        BY Zenon, <1>0, <1>10 DEF HashPatchClaim, HashPatchClaimFails, HasherState
    <2> QED
        BY <1>1, <2>1, <2>2
<1>11. CASE HashClaimsDone
    <2> DEFINE step == IF hasher.failed THEN "idle" ELSE "patch"
    <2>1. /\ nodeClass' = nodeClass /\ queued' = (queued \/ hasher.failed) /\ hasher.pc = "claims"
          /\ hasher' = [hasher EXCEPT !.pc = step, !.undrifted = {}]
        BY Zenon, <1>11 DEF HashClaimsDone
    <2>2. hasher'.view = hasher.view /\ hasher'.pc = step
        BY Zenon, <1>0, <2>1 DEF HasherState
    <2>3. CASE hasher.failed
        BY Zenon, <1>2, <2>1, <2>2, <2>3
    <2>4. CASE ~hasher.failed
        <3>1. queued' = queued /\ hasher'.pc = "patch"
            BY Zenon, <1>0, <2>1, <2>2, <2>4
        <3> QED
            BY <1>1, <2>1, <2>2, <3>1
    <2> QED
        BY Zenon, <2>3, <2>4
\* The patch is of the present spec, unless the NodeClass is queued again; and one
\* that finds nothing to change finds the annotations right.
<1>12. CASE HashPatch
    <2> DEFINE hash == Hash("v3", hasher.view.spec)
               changed == hasher.view.hash # hash \/ hasher.view.version # "v3"
    <2>1. /\ hasher.pc = "patch" /\ hasher' = [hasher EXCEPT !.pc = "idle"]
          /\ nodeClass' = IF changed THEN [nodeClass EXCEPT !.hash = hash, !.version = "v3"]
                          ELSE nodeClass
          /\ queued' = (queued \/ nodeClass' # nodeClass)
        BY Zenon, <1>12 DEF HashPatch
    <2>2. hasher'.pc = "idle"
        BY Zenon, <1>0, <2>1 DEF HasherState
    <2>3. CASE queued
        BY Zenon, <1>2, <2>1, <2>2, <2>3
    <2>4. CASE ~queued
        <3>1. /\ hasher.view.spec = nodeClass.spec /\ hasher.view.hash = nodeClass.hash
              /\ hasher.view.version = nodeClass.version
            BY <2>1, <2>4 DEF KeptInv
        <3>2. /\ nodeClass'.spec = nodeClass.spec
              /\ nodeClass'.hash = hash /\ nodeClass'.version = "v3"
            <4>1. CASE changed
                BY Zenon, <1>0, <2>1, <4>1 DEF NodeClassState
            <4>2. CASE ~changed
                BY Zenon, <2>1, <3>1, <4>2
            <4> QED
                BY Zenon, <4>1, <4>2
        <3>3. nodeClass'.hash = Hash("v3", nodeClass'.spec)
            BY Zenon, <3>1, <3>2
        <3> QED
            BY Zenon, <2>2, <3>2, <3>3 DEF KeptInv
    <2> QED
        BY Zenon, <2>3, <2>4
<1> QED
    BY Zenon, <1>4, <1>5, <1>6, <1>7, <1>8, <1>9, <1>10, <1>11, <1>12 DEF Next, HashNext

\* No change of the spec and no NodeClaim of an old hash version is forgotten by the
\* hash controller's Reconcile, for any number of NodeClaims, edits and failures.
THEOREM NoChangeForgotten == Spec => []ChangesAreKept
<1>1. Init => KeptInv
    <2>1. Init => hasher.pc = "idle" /\ queued
        BY DEF Init
    <2> QED
        BY Zenon, <2>1 DEF KeptInv
<1>2. HashInv => NoClaimLeftBehind
    BY Zenon DEF HashInv, TodoInv, Migrated, NoClaimLeftBehind
<1>3. HashInv /\ KeptInv => ChangesAreKept
    BY Zenon, <1>2 DEF KeptInv, ChangesAreKept, NoClaimLeftBehind
<1> QED
    BY <1>1, <1>3, KeptStep, HashHolds, PTL DEF Spec

=============================================================================
