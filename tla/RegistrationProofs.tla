------------------------- MODULE RegistrationProofs -------------------------
(***************************************************************************)
(* The taints of Nodes, the security groups and the system disks, for any  *)
(* Nodes, edits, groups, selectors, instance types and disk categories.    *)
(***************************************************************************)
EXTENDS SecurityGroup, Registration, SystemDisk, TLAPS

(* Registration. *)

\* A current copy of a Node that exists agrees with it, and the Nodes that the
\* controller is about to patch were registered when they were listed.
Agrees(copy, n) ==
    copy.current /\ copy.node.at = "joined" =>
        /\ node[n].at = "joined"
        /\ node[n].registered = copy.node.registered
        /\ node[n].taints = copy.node.taints

RegInv ==
    \A n \in Node :
        /\ Agrees(seen[n], n)
        /\ n \in scan.left =>
            Agrees(scan.copies[n], n) /\ HasLabels(scan.copies[n].node)
        /\ node[n].at = "joined" /\ ~node[n].registered => "unregistered" \in node[n].taints

LEMMA UserDataState ==
    /\ UserData \in NodeState /\ Absent \in NodeState
    /\ UserData.taints = {"unregistered"} /\ UserData.at = "userData"
    /\ Absent.at = "none" /\ ~UserData.registered
BY Zenon DEF UserData, Absent, NodeState, Taint

\* The shape of the steps of others: one Node is replaced, its copies go out of
\* date, and its taint stays unless it is registered.
LEMMA OthersWriteInv ==
    ASSUME RegTypeOK, RegInv, NEW n \in Node, NEW new \in NodeState, OthersWrite(n, new),
           new.at = "joined" /\ ~new.registered => "unregistered" \in new.taints
    PROVE  RegInv'
<1>1. /\ node' = [node EXCEPT ![n] = new]
      /\ seen' = [seen EXCEPT ![n] = [seen[n] EXCEPT !.current = FALSE]]
    BY Zenon DEF OthersWrite, WriteNode, Outdated
<1>2. ASSUME NEW m \in Node, m # n
      PROVE  /\ node'[m] = node[m] /\ seen'[m] = seen[m]
             /\ scan'.copies[m] = scan.copies[m] /\ scan'.left = scan.left
    BY Zenon, <1>1, <1>2 DEF OthersWrite, Outdated, RegTypeOK
<1>3. ~seen'[n].current /\ node'[n] = new
    BY Zenon, <1>1 DEF RegTypeOK, Copy
<1>4. n \in scan'.left => ~scan'.copies[n].current /\ scan'.copies[n].node = scan.copies[n].node
    BY DEF OthersWrite, Outdated, RegTypeOK, Copy
<1>5. scan'.left = scan.left
    BY Zenon DEF OthersWrite, RegTypeOK
<1>6. ASSUME NEW m \in Node, m # n
      PROVE  /\ Agrees(seen[m], m)'
             /\ m \in scan'.left => Agrees(scan.copies[m], m)' /\ HasLabels(scan.copies[m].node)'
             /\ node'[m].at = "joined" /\ ~node'[m].registered => "unregistered" \in node'[m].taints
    BY <1>2, <1>6 DEF RegInv, Agrees, HasLabels
<1>7. /\ Agrees(seen[n], n)'
      /\ n \in scan'.left => Agrees(scan.copies[n], n)' /\ HasLabels(scan.copies[n].node)'
      /\ node'[n].at = "joined" /\ ~node'[n].registered => "unregistered" \in node'[n].taints
    BY Zenon, <1>3, <1>4, <1>5 DEF RegInv, Agrees, HasLabels
<1> QED
    BY Zenon, <1>6, <1>7 DEF RegInv

LEMMA OthersWriteType ==
    ASSUME RegTypeOK, NEW n \in Node, NEW new \in NodeState, OthersWrite(n, new)
    PROVE  /\ node' \in [Node -> NodeState] /\ seen' \in [Node -> Copy]
           /\ scan' \in [left : SUBSET Node, copies : [Node -> Copy]]
<1>1. node' \in [Node -> NodeState] /\ seen' \in [Node -> Copy]
    BY Zenon DEF RegTypeOK, OthersWrite, WriteNode, Outdated, Copy
<1>2. Outdated(scan.copies, n) \in [Node -> Copy]
    BY Zenon DEF RegTypeOK, Outdated, Copy
<1>3. scan' \in [left : SUBSET Node, copies : [Node -> Copy]]
    BY Zenon, <1>2 DEF RegTypeOK, OthersWrite
<1> QED
    BY Zenon, <1>1, <1>3

\* How a Node may change: its type and its fields.
LEMMA NodeType ==
    /\ [UserData EXCEPT !.at = "joined"] \in NodeState
    /\ [Absent EXCEPT !.at = "gone"] \in NodeState
    /\ "unregistered" \in [UserData EXCEPT !.at = "joined"].taints
    /\ [Absent EXCEPT !.at = "gone"].at = "gone"
BY ZenonT(30) DEF UserData, Absent, NodeState, Taint

LEMMA NodeReady ==
    ASSUME NEW old \in NodeState, NEW ready \in {"no", "ready", "settled"}
    PROVE  /\ [old EXCEPT !.ready = ready] \in NodeState
           /\ [old EXCEPT !.ready = ready].at = old.at
           /\ [old EXCEPT !.ready = ready].registered = old.registered
           /\ [old EXCEPT !.ready = ready].taints = old.taints
BY ZenonT(30) DEF NodeState

LEMMA NodeTaints ==
    ASSUME NEW old \in NodeState, NEW taints \in SUBSET Taint
    PROVE  /\ [old EXCEPT !.taints = taints] \in NodeState
           /\ [old EXCEPT !.taints = taints].at = old.at
           /\ [old EXCEPT !.taints = taints].registered = old.registered
           /\ [old EXCEPT !.taints = taints].taints = taints
           /\ [old EXCEPT !.registered = TRUE, !.taints = taints] \in NodeState
           /\ [old EXCEPT !.registered = TRUE, !.taints = taints].registered
           /\ [old EXCEPT !.registered = TRUE, !.taints = taints].taints = taints
BY ZenonT(30) DEF NodeState

LEMMA NodeFields ==
    ASSUME RegTypeOK, NEW n \in Node
    PROVE  /\ node[n] \in NodeState /\ node[n].taints \ {"unregistered"} \in SUBSET Taint
           /\ Settled(node[n].ready) \in {"no", "ready", "settled"}
           /\ seen[n] \in Copy /\ seen[n].node \in NodeState
           /\ Settled(seen[n].node.ready) \in {"no", "ready", "settled"}
           /\ scan.copies[n].node.taints \ {"unregistered"} \in SUBSET Taint
<1>1. node[n] \in NodeState /\ seen[n] \in Copy /\ scan.copies[n] \in Copy
    BY Zenon DEF RegTypeOK
<1>2. seen[n].node \in NodeState /\ scan.copies[n].node \in NodeState
    BY Zenon, <1>1 DEF Copy
<1>3. ASSUME NEW any \in NodeState
      PROVE  any.taints \ {"unregistered"} \in SUBSET Taint /\ Settled(any.ready) \in {"no", "ready", "settled"}
    BY Zenon DEF NodeState, Settled
<1> QED
    BY Zenon, <1>1, <1>2, <1>3

LEMMA AbsentCopyType == AbsentCopy \in [Node -> Copy]
BY Zenon, UserDataState DEF AbsentCopy, Copy

\* The invariant and the types together, for each way a step writes.
LEMMA OthersStep ==
    ASSUME RegTypeOK, RegInv, NEW n \in Node, NEW new \in NodeState, OthersWrite(n, new),
           new.at = "joined" /\ ~new.registered => "unregistered" \in new.taints,
           scripted' \in BOOLEAN, edits' \in 0 .. MaxEdits
    PROVE  (RegTypeOK /\ RegInv)'
BY Zenon, OthersWriteInv, OthersWriteType DEF RegTypeOK

\* The controller's list and patches change only the scan, apart from Patch.
LEMMA HandledStep ==
    ASSUME RegTypeOK, RegInv, NEW n \in Node, Handled(n), UNCHANGED <<scripted, node, seen, edits>>
    PROVE  (RegTypeOK /\ RegInv)'
<1>1. scan'.left = scan.left \ {n} /\ \A m \in Node \ {n} : scan'.copies[m] = scan.copies[m]
    BY Zenon DEF Handled, RegTypeOK
<1>2. scan' \in [left : SUBSET Node, copies : [Node -> Copy]]
    BY Zenon, AbsentCopyType DEF Handled, RegTypeOK
<1>3. RegTypeOK'
    BY Zenon, <1>2 DEF RegTypeOK
<1> QED
    BY <1>1, <1>3 DEF RegInv, Agrees, HasLabels

LEMMA RegStep == MaxEdits \in Nat /\ RegTypeOK /\ RegInv /\ [RegNext]_regVars => (RegTypeOK /\ RegInv)'
<1> SUFFICES ASSUME MaxEdits \in Nat, RegTypeOK, RegInv, [RegNext]_regVars
             PROVE  (RegTypeOK /\ RegInv)'
    OBVIOUS
<1>1. CASE UNCHANGED <<node, seen, scan, edits>> /\ scripted' \in BOOLEAN
    BY <1>1 DEF RegTypeOK, RegInv, Agrees, HasLabels
<1>2. CASE ScriptExpires \/ UNCHANGED regVars
    BY Zenon, <1>1, <1>2 DEF ScriptExpires, regVars, RegTypeOK
<1>3. CASE List
    <2>1. scan'.left \subseteq Node /\ \A n \in scan'.left : scan'.copies[n] = seen[n] /\ HasLabels(seen[n].node)
        BY Zenon, <1>3 DEF List
    <2>2. scan' \in [left : SUBSET Node, copies : [Node -> Copy]]
        BY Zenon, <1>3, AbsentCopyType DEF List, RegTypeOK
    <2>3. RegTypeOK'
        BY Zenon, <1>3, <2>2 DEF List, RegTypeOK
    <2> QED
        BY Zenon, <1>3, <2>1, <2>3 DEF List, RegInv, Agrees, HasLabels
<1>4. ASSUME NEW n \in Node, GetNodeRegisterScript(n) PROVE (RegTypeOK /\ RegInv)'
    <2>1. CASE UNCHANGED node
        BY Zenon, <1>1, <1>4, <2>1 DEF GetNodeRegisterScript, RegTypeOK
    <2>2. CASE node' = [node EXCEPT ![n] = UserData] /\ scripted' = TRUE
        <3>1. node' \in [Node -> NodeState]
            BY Zenon, <2>2, UserDataState DEF RegTypeOK
        <3>2. node[n].at = "none" /\ node'[n].at = "userData" /\ \A m \in Node \ {n} : node'[m] = node[m]
            BY Zenon, <1>4, <2>2, UserDataState DEF GetNodeRegisterScript, RegTypeOK
        <3> QED
            BY <1>4, <2>2, <3>1, <3>2 DEF GetNodeRegisterScript, RegTypeOK, RegInv, Agrees, HasLabels
    <2> QED
        BY Zenon, <1>4, <2>1, <2>2 DEF GetNodeRegisterScript
<1>5. ASSUME NEW n \in Node, Join(n) PROVE (RegTypeOK /\ RegInv)'
    <2> DEFINE new == [UserData EXCEPT !.at = "joined"]
    <2>1. OthersWrite(n, new) /\ scripted' \in BOOLEAN /\ edits' \in 0 .. MaxEdits
        BY Zenon, <1>5 DEF Join, RegTypeOK
    <2> QED
        BY Zenon, <2>1, NodeType, OthersStep
<1>6. ASSUME NEW n \in Node, NEW ready \in {"no", "ready"}, SetReady(n, ready) PROVE (RegTypeOK /\ RegInv)'
    <2> DEFINE new == [node[n] EXCEPT !.ready = ready]
    <2>1. /\ new \in NodeState /\ new.at = node[n].at
          /\ new.registered = node[n].registered /\ new.taints = node[n].taints
        BY Zenon, NodeFields, NodeReady
    <2>2. OthersWrite(n, new) /\ scripted' \in BOOLEAN /\ edits' \in 0 .. MaxEdits
        BY Zenon, <1>6 DEF SetReady, RegTypeOK
    <2>3. new.at = "joined" /\ ~new.registered => "unregistered" \in new.taints
        BY Zenon, <2>1 DEF RegInv
    <2> HIDE DEF new
    <2> QED
        BY Zenon, <2>1, <2>2, <2>3, OthersStep
<1>7. ASSUME NEW n \in Node, Settle(n) PROVE (RegTypeOK /\ RegInv)'
    <2> DEFINE settled == [node[n] EXCEPT !.ready = Settled(@)]
               copy == [seen[n] EXCEPT !.node = [seen[n].node EXCEPT !.ready = Settled(@)]]
    <2>0. /\ settled \in NodeState /\ settled.at = node[n].at
          /\ settled.registered = node[n].registered /\ settled.taints = node[n].taints
        BY ZenonT(40), NodeFields, NodeReady
    <2>a. /\ copy \in Copy /\ copy.current = seen[n].current /\ copy.node.at = seen[n].node.at
          /\ copy.node.registered = seen[n].node.registered /\ copy.node.taints = seen[n].node.taints
        <3> DEFINE new == [seen[n].node EXCEPT !.ready = Settled(seen[n].node.ready)]
        <3>1. /\ new \in NodeState /\ new.at = seen[n].node.at
              /\ new.registered = seen[n].node.registered /\ new.taints = seen[n].node.taints
            BY ZenonT(40), NodeFields, NodeReady
        <3>2. copy \in Copy /\ copy.current = seen[n].current /\ copy.node = new
            BY Zenon, <3>1, NodeFields DEF Copy
        <3> HIDE DEF new, copy
        <3> QED
            BY Zenon, <3>1, <3>2
    <2>b. node' = node \/ node' = [node EXCEPT ![n] = settled]
        BY Zenon, <1>7 DEF Settle
    <2>c. seen' = [seen EXCEPT ![n] = copy]
        BY Zenon, <1>7 DEF Settle
    <2> HIDE DEF settled, copy
    <2>1. /\ node' \in [Node -> NodeState]
          /\ \A m \in Node : /\ node'[m].at = node[m].at /\ node'[m].registered = node[m].registered
                              /\ node'[m].taints = node[m].taints
        BY Zenon, <2>0, <2>b DEF RegTypeOK
    <2>2. /\ seen' \in [Node -> Copy]
          /\ \A m \in Node : /\ seen'[m].current = seen[m].current /\ seen'[m].node.at = seen[m].node.at
                              /\ seen'[m].node.registered = seen[m].node.registered
                              /\ seen'[m].node.taints = seen[m].node.taints
        BY Zenon, <2>a, <2>c DEF RegTypeOK
    <2>3. UNCHANGED <<scripted, scan, edits>>
        BY Zenon, <1>7 DEF Settle
    <2> QED
        BY SMTT(30), <2>1, <2>2, <2>3 DEF RegTypeOK, RegInv, Agrees, HasLabels
<1>8. ASSUME NEW n \in Node, Register(n) PROVE (RegTypeOK /\ RegInv)'
    <2> DEFINE new == [node[n] EXCEPT !.registered = TRUE, !.taints = @ \ {"unregistered"}]
    <2>1. new \in NodeState /\ new.registered
        BY Zenon, NodeFields, NodeTaints
    <2>2. OthersWrite(n, new) /\ scripted' \in BOOLEAN /\ edits' \in 0 .. MaxEdits
        BY Zenon, <1>8 DEF Register, RegTypeOK
    <2> HIDE DEF new
    <2> QED
        BY Zenon, <2>1, <2>2, OthersStep
<1>9. ASSUME NEW n \in Node, NEW taints \in SUBSET Taint, EditTaints(n, taints) PROVE (RegTypeOK /\ RegInv)'
    <2> DEFINE new == [node[n] EXCEPT !.taints = taints]
    <2>1. new \in NodeState /\ new.registered = node[n].registered /\ new.taints = taints /\ new.at = node[n].at
        BY Zenon, NodeFields, NodeTaints
    <2>2. OthersWrite(n, new) /\ scripted' \in BOOLEAN /\ edits' \in 0 .. MaxEdits
        BY <1>9 DEF EditTaints, Edit, RegTypeOK
    <2>3. new.at = "joined" /\ ~new.registered => "unregistered" \in new.taints
        BY Zenon, <1>9, <2>1 DEF EditTaints, RegInv
    <2> HIDE DEF new
    <2> QED
        BY Zenon, <2>1, <2>2, <2>3, OthersStep
<1>10. ASSUME NEW n \in Node, DeleteNode(n) PROVE (RegTypeOK /\ RegInv)'
    <2> DEFINE new == [Absent EXCEPT !.at = "gone"]
    <2>1. new \in NodeState /\ new.at = "gone"
        BY Zenon, NodeType
    <2>2. OthersWrite(n, new) /\ scripted' \in BOOLEAN /\ edits' \in 0 .. MaxEdits
        BY <1>10 DEF DeleteNode, Edit, RegTypeOK
    <2> HIDE DEF new
    <2> QED
        BY Zenon, <2>1, <2>2, OthersStep
<1>11. ASSUME NEW n \in Node, Observe(n) PROVE (RegTypeOK /\ RegInv)'
    BY <1>11 DEF Observe, RegTypeOK, RegInv, Agrees, HasLabels, Copy
<1>12. ASSUME NEW n \in Node, Patch(n) PROVE (RegTypeOK /\ RegInv)'
    <2> DEFINE new == [node[n] EXCEPT !.taints = scan.copies[n].node.taints \ {"unregistered"}]
    <2>1. n \in scan.left /\ scan.copies[n].current
        BY Zenon, <1>12 DEF Patch, Locked
    <2>2. node[n].registered
        BY Zenon, <2>1 DEF RegInv, Agrees, HasLabels
    <2>3. CASE UNCHANGED <<node, seen>>
        BY Zenon, <1>12, <2>3, HandledStep DEF Patch
    <2>4. CASE WriteNode(n, new)
        <3>1. new \in NodeState /\ new.registered
            BY Zenon, <2>2, NodeFields, NodeTaints
        <3> HIDE DEF new
        <3>2. node' \in [Node -> NodeState] /\ seen' \in [Node -> Copy]
            BY Zenon, <2>4, <3>1 DEF WriteNode, Outdated, RegTypeOK, Copy
        <3>3. scan' \in [left : SUBSET Node, copies : [Node -> Copy]]
            BY Zenon, <1>12, AbsentCopyType DEF Patch, Handled, RegTypeOK
        <3>4. RegTypeOK'
            BY Zenon, <1>12, <3>2, <3>3 DEF Patch, RegTypeOK
        <3>5. node'[n] = new /\ ~seen'[n].current /\ n \notin scan'.left
            BY <1>12, <2>4 DEF Patch, Handled, WriteNode, Outdated, RegTypeOK, Copy
        <3>6. ASSUME NEW m \in Node, m # n
              PROVE  /\ node'[m] = node[m] /\ seen'[m] = seen[m] /\ scan'.copies[m] = scan.copies[m]
                     /\ m \in scan'.left => m \in scan.left
            BY Zenon, <1>12, <2>4, <3>6 DEF Patch, Handled, WriteNode, Outdated, RegTypeOK
        <3> QED
            BY <3>1, <3>4, <3>5, <3>6 DEF RegInv, Agrees, HasLabels
    <2> QED
        BY Zenon, <1>12, <2>3, <2>4 DEF Patch
<1>13. ASSUME NEW n \in Node, PatchFails(n) PROVE (RegTypeOK /\ RegInv)'
    BY Zenon, <1>13, HandledStep DEF PatchFails
<1> QED
    BY Zenon, <1>2, <1>3, <1>4, <1>5, <1>6, <1>7, <1>8, <1>9, <1>10, <1>11, <1>12, <1>13 DEF RegNext

LEMMA RegHolds == RegSpec => [](RegTypeOK /\ RegInv)
<1>1. RegInit => RegTypeOK /\ RegInv
    <2> SUFFICES ASSUME RegInit PROVE RegTypeOK /\ RegInv
        OBVIOUS
    <2>1. RegTypeOK
        <3>1. node \in [Node -> NodeState] /\ seen \in [Node -> Copy]
            BY Zenon, AbsentCopyType, UserDataState DEF RegInit
        <3>2. scan \in [left : SUBSET Node, copies : [Node -> Copy]]
            BY Zenon, AbsentCopyType DEF RegInit, NoScan
        <3>3. edits \in 0 .. MaxEdits /\ scripted \in BOOLEAN
            <4>1. scripted \in BOOLEAN
                BY Zenon DEF RegInit
            <4>2. edits = 0
                BY Zenon DEF RegInit
            <4>3. edits \in 0 .. MaxEdits
                BY <4>2, MaxEditsAssumption
            <4> QED
                BY Zenon, <4>1, <4>3
        <3> QED
            BY Zenon, <3>1, <3>2, <3>3 DEF RegTypeOK
    <2>2. \A n \in Node : node[n].at = "none" /\ seen[n].node.at = "none" /\ n \notin scan.left
        BY Zenon, UserDataState DEF RegInit, NoScan, AbsentCopy
    <2> QED
        BY Zenon, <2>1, <2>2 DEF RegInv, Agrees
<1> QED
    BY <1>1, RegStep, MaxEditsAssumption, PTL DEF RegSpec

\* The controller takes the unregistered taint from no Node that is not yet
\* registered, for any number of Nodes, edits and lags of the informer.
THEOREM UnregisteredTaintStays == RegSpec => []UnregisteredKeepsTaint
<1>1. RegInv => UnregisteredKeepsTaint
    BY Zenon DEF RegInv, UnregisteredKeepsTaint
<1> QED
    BY <1>1, RegHolds, PTL

\* A patch of the controller, like the core's registration, changes no other
\* taint than the unregistered one.
TaintsStep ==
    \A n \in Node :
        node[n].at = "joined" /\ edits' = edits =>
            node'[n].taints \ {"unregistered"} = node[n].taints \ {"unregistered"}

LEMMA TaintsStepHolds == RegTypeOK /\ RegInv /\ [RegNext]_regVars => TaintsStep
<1> SUFFICES ASSUME RegTypeOK, RegInv, [RegNext]_regVars PROVE TaintsStep
    OBVIOUS
<1>1. ASSUME NEW n \in Node, NEW new \in NodeState, node' = [node EXCEPT ![n] = new],
             node[n].at = "joined" => new.taints \ {"unregistered"} = node[n].taints \ {"unregistered"}
      PROVE  TaintsStep
    BY Zenon, <1>1 DEF TaintsStep, RegTypeOK
<1>2. CASE UNCHANGED node
    BY Zenon, <1>2 DEF TaintsStep
<1>3. CASE edits' # edits
    BY Zenon, <1>3 DEF TaintsStep
<1>4. ASSUME NEW n \in Node, GetNodeRegisterScript(n) \/ Join(n) PROVE TaintsStep
    BY Zenon, <1>1, <1>2, <1>4, UserDataState, NodeType DEF GetNodeRegisterScript, Join, OthersWrite, WriteNode
<1>5. ASSUME NEW n \in Node, NEW ready \in {"no", "ready"}, SetReady(n, ready) PROVE TaintsStep
    BY Zenon, <1>1, <1>5, NodeFields, NodeReady DEF SetReady, OthersWrite, WriteNode
<1>6. ASSUME NEW n \in Node, Settle(n) PROVE TaintsStep
    <2>1. \/ UNCHANGED node
          \/ node' = [node EXCEPT ![n] = [node[n] EXCEPT !.ready = Settled(node[n].ready)]]
        BY Zenon, <1>6 DEF Settle
    <2> QED
        BY Zenon, <1>1, <1>2, <2>1, NodeFields, NodeReady
<1>7. ASSUME NEW n \in Node, Register(n) PROVE TaintsStep
    <2> DEFINE taints == node[n].taints \ {"unregistered"}
               new == [node[n] EXCEPT !.registered = TRUE, !.taints = taints]
    <2>1. node' = [node EXCEPT ![n] = new]
        BY Zenon, <1>7 DEF Register, OthersWrite, WriteNode
    <2>2. new \in NodeState /\ new.taints = taints
        BY Zenon, NodeFields, NodeTaints
    <2> HIDE DEF new
    <2> QED
        BY Zenon, <1>1, <2>1, <2>2
<1>8. ASSUME NEW n \in Node, Patch(n) PROVE TaintsStep
    <2> DEFINE taints == scan.copies[n].node.taints \ {"unregistered"}
               new == [node[n] EXCEPT !.taints = taints]
    <2>1. UNCHANGED node \/ node' = [node EXCEPT ![n] = new]
        BY Zenon, <1>8 DEF Patch, WriteNode
    <2>2. new \in NodeState /\ new.taints = taints
        BY Zenon, NodeFields, NodeTaints
    <2>3. scan.copies[n].node.taints = node[n].taints
        BY Zenon, <1>8 DEF Patch, Locked, RegInv, Agrees, HasLabels
    <2> HIDE DEF new
    <2> QED
        BY Zenon, <1>1, <1>2, <2>1, <2>2, <2>3
<1>9. ASSUME NEW n \in Node, DeleteNode(n) \/ \E taints \in SUBSET Taint : EditTaints(n, taints)
      PROVE  TaintsStep
    <2>1. edits' = edits + 1
        BY Zenon, <1>9 DEF DeleteNode, EditTaints, Edit
    <2>2. edits \in 0 .. MaxEdits
        BY Zenon DEF RegTypeOK
    <2>3. edits' # edits
        BY <2>1, <2>2, MaxEditsAssumption
    <2> QED
        BY Zenon, <1>3, <2>3
<1>10. CASE ScriptExpires \/ List \/ UNCHANGED regVars
            \/ \E n \in Node : Observe(n) \/ PatchFails(n)
    BY Zenon, <1>2, <1>10 DEF ScriptExpires, List, regVars, Observe, PatchFails
<1> QED
    BY Zenon, <1>4, <1>5, <1>6, <1>7, <1>8, <1>9, <1>10 DEF RegNext

\* The optimistic lock keeps the taints of others: the controller's patch carries
\* a whole list, and yet drops and revives none of theirs.
THEOREM OthersTaintsKept == RegSpec => OthersTaintsStay
<1>1. RegTypeOK /\ RegInv /\ [RegNext]_regVars => [TaintsStep]_regVars
    BY Zenon, TaintsStepHolds
<1> QED
    BY <1>1, RegHolds, PTL DEF RegSpec, OthersTaintsStay, TaintsStep
-----------------------------------------------------------------------------
(* The taints of Nodes change as if informer, list and patch were one step. *)

LEMMA NowOf ==
    ASSUME NEW old \in NodeState
    PROVE  /\ Now(old).at = old.at /\ Now(old).registered = old.registered
           /\ Now(old).taints = old.taints
BY Zenon DEF Now

\* A write to a Node is the same write to what is decided on.
LEMMA NowWritten ==
    ASSUME RegTypeOK, NEW n \in Node, NEW new \in NodeState, node' = [node EXCEPT ![n] = new]
    PROVE  [m \in Node |-> Now(node'[m])]
             = [[m \in Node |-> Now(node[m])] EXCEPT ![n] = Now(new)]
<1>1. \A m \in Node : node'[m] = IF m = n THEN new ELSE node[m]
    BY Zenon DEF RegTypeOK
<1>2. \A m \in Node : Now(node'[m]) = IF m = n THEN Now(new) ELSE Now(node[m])
    <2> SUFFICES ASSUME NEW m \in Node
                 PROVE  Now(node'[m]) = IF m = n THEN Now(new) ELSE Now(node[m])
        OBVIOUS
    <2>1. CASE m = n
        BY Zenon, <1>1, <2>1 DEF Now
    <2>2. CASE m # n
        BY Zenon, <1>1, <2>2 DEF Now
    <2> QED
        BY Zenon, <2>1, <2>2
<1> QED
    BY Zenon, <1>2

AtomicStep == [Atomic!Next]_([n \in Node |-> Now(node[n])])

\* A write that leaves what is decided on is a stutter.
LEMMA NowUnchanged ==
    ASSUME \A n \in Node : Now(node'[n]) = Now(node[n])
    PROVE  AtomicStep
<1>1. [n \in Node |-> Now(node'[n])] = [n \in Node |-> Now(node[n])]
    BY Zenon
<1> QED
    BY Zenon, <1>1 DEF AtomicStep

LEMMA AtomicInit == RegInit => Atomic!Init
<1> SUFFICES ASSUME RegInit PROVE Atomic!Init
    OBVIOUS
<1>1. \A n \in Node : Now(node[n]) = Atomic!Absent
    BY Zenon DEF RegInit, Now, Absent, Atomic!Absent
<1> QED
    BY Zenon, <1>1 DEF Atomic!Init

LEMMA AtomicSteps == RegTypeOK /\ RegInv /\ [RegNext]_regVars => AtomicStep
<1> SUFFICES ASSUME RegTypeOK, RegInv, [RegNext]_regVars PROVE AtomicStep
    OBVIOUS
<1>0. ASSUME NEW n \in Node
      PROVE  /\ node[n] \in NodeState
             /\ [m \in Node |-> Now(node[m])][n].at = node[n].at
             /\ [m \in Node |-> Now(node[m])][n].registered = node[n].registered
             /\ [m \in Node |-> Now(node[m])][n].taints = node[n].taints
    BY Zenon, NodeFields, NowOf
<1>1. CASE node' = node
    BY Zenon, <1>1, NowUnchanged
<1>2. CASE List \/ ScriptExpires \/ UNCHANGED regVars
    BY Zenon, <1>1, <1>2 DEF List, ScriptExpires, regVars
<1>3. ASSUME NEW n \in Node, Observe(n) \/ PatchFails(n) PROVE AtomicStep
    BY Zenon, <1>1, <1>3 DEF Observe, PatchFails
<1>4. ASSUME NEW n \in Node, GetNodeRegisterScript(n) PROVE AtomicStep
    <2>1. CASE node' = [node EXCEPT ![n] = UserData]
        <3>1. Now(UserData) = Atomic!UserData /\ UserData \in NodeState
            BY UserDataState DEF Now, UserData, Absent, Atomic!UserData
        <3>2. Atomic!Boot(n)
            BY Zenon, <1>0, <1>4, <2>1, <3>1, NowWritten
            DEF GetNodeRegisterScript, Atomic!Boot, Atomic!Becomes
        <3> QED
            BY Zenon, <3>2 DEF AtomicStep, Atomic!Next
    <2> QED
        BY Zenon, <1>1, <1>4, <2>1 DEF GetNodeRegisterScript
<1>5. ASSUME NEW n \in Node, Join(n) PROVE AtomicStep
    <2> DEFINE new == [UserData EXCEPT !.at = "joined"]
    <2>1. new \in NodeState /\ Now(new) = Atomic!Joined
        BY NodeType DEF Now, UserData, Absent, Atomic!Joined
    <2>2. node' = [node EXCEPT ![n] = new] /\ node[n].at \in {"userData", "gone"}
        BY Zenon, <1>5 DEF Join, OthersWrite, WriteNode
    <2> HIDE DEF new
    <2>3. Atomic!Join(n)
        BY Zenon, <1>0, <2>1, <2>2, NowWritten DEF Atomic!Join, Atomic!Becomes
    <2> QED
        BY Zenon, <2>3 DEF AtomicStep, Atomic!Next
\* Being ready, and having been so for long, is not decided on.
<1>6. ASSUME NEW n \in Node, NEW ready \in {"no", "ready", "settled"},
             node' = [node EXCEPT ![n] = [node[n] EXCEPT !.ready = ready]]
      PROVE  AtomicStep
    <2> DEFINE new == [node[n] EXCEPT !.ready = ready]
    <2>1. new \in NodeState /\ Now(new) = Now(node[n])
        BY Zenon, <1>0, NodeReady DEF Now
    <2>2. \A m \in Node : node'[m] = IF m = n THEN new ELSE node[m]
        BY Zenon, <1>6 DEF RegTypeOK
    <2> HIDE DEF new
    <2> QED
        BY Zenon, <2>1, <2>2, NowUnchanged
<1>7. ASSUME NEW n \in Node, Settle(n) PROVE AtomicStep
    <2>1. Settled(node[n].ready) \in {"no", "ready", "settled"}
        BY Zenon, NodeFields
    <2>2. node' = node \/ node' = [node EXCEPT ![n] = [node[n] EXCEPT !.ready = Settled(node[n].ready)]]
        BY Zenon, <1>7 DEF Settle
    <2> QED
        BY Zenon, <1>1, <1>6, <2>1, <2>2
<1>8. ASSUME NEW n \in Node, NEW ready \in {"no", "ready"}, SetReady(n, ready) PROVE AtomicStep
    <2>1. node' = [node EXCEPT ![n] = [node[n] EXCEPT !.ready = ready]]
        BY Zenon, <1>8 DEF SetReady, OthersWrite, WriteNode
    <2>2. ready \in {"no", "ready", "settled"}
        BY Zenon, <1>8
    <2> QED
        BY Zenon, <1>6, <2>1, <2>2
\* The core's patch and the controller's are of a current copy: they see the Node.
<1>9. ASSUME NEW n \in Node, Register(n) PROVE AtomicStep
    <2> DEFINE new == [node[n] EXCEPT !.registered = TRUE, !.taints = @ \ {"unregistered"}]
    <2>1. /\ node[n].at = "joined" /\ ~node[n].registered
          /\ "unregistered" \in node[n].taints
        BY Zenon, <1>9 DEF Register, RegInv, Agrees
    <2>2. /\ new \in NodeState
          /\ Now(new) = [at |-> "joined", registered |-> TRUE,
                         taints |-> node[n].taints \ {"unregistered"}]
        <3>1. new \in NodeState
            BY Zenon, NodeFields, NodeTaints
        <3>2. new.at = node[n].at /\ new.registered = TRUE
              /\ new.taints = node[n].taints \ {"unregistered"}
            BY <1>0 DEF NodeState
        <3> HIDE DEF new
        <3> QED
            BY Zenon, <2>1, <3>1, <3>2 DEF Now
    <2>3. node' = [node EXCEPT ![n] = new]
        BY Zenon, <1>9 DEF Register, OthersWrite, WriteNode
    <2> HIDE DEF new
    <2>4. Atomic!Register(n)
        BY ZenonT(60), <1>0, <2>1, <2>2, <2>3, NowWritten DEF Atomic!Register, Atomic!Becomes
    <2> QED
        BY Zenon, <2>4 DEF AtomicStep, Atomic!Next
<1>10. ASSUME NEW n \in Node, Patch(n) PROVE AtomicStep
    <2> DEFINE new == [node[n] EXCEPT !.taints = scan.copies[n].node.taints \ {"unregistered"}]
    <2>1. n \in scan.left /\ scan.copies[n].current
        BY Zenon, <1>10 DEF Patch, Locked
    <2>2. /\ node[n].at = "joined" /\ node[n].registered = TRUE
          /\ scan.copies[n].node.taints = node[n].taints
        <3>1. node[n].registered \in BOOLEAN
            BY Zenon, <1>0 DEF NodeState
        <3> QED
            BY Zenon, <2>1, <3>1 DEF RegInv, Agrees, HasLabels
    <2>3. node' = node \/ node' = [node EXCEPT ![n] = new]
        BY Zenon, <1>10 DEF Patch, WriteNode
    <2>4. /\ new \in NodeState
          /\ Now(new) = [at |-> "joined", registered |-> TRUE,
                         taints |-> node[n].taints \ {"unregistered"}]
        <3>1. /\ new \in NodeState /\ new.at = node[n].at
              /\ new.registered = node[n].registered
              /\ new.taints = scan.copies[n].node.taints \ {"unregistered"}
            BY Zenon, <1>0, NodeFields, NodeTaints
        <3> HIDE DEF new
        <3> QED
            BY Zenon, <2>2, <3>1 DEF Now
    <2> HIDE DEF new
    <2>5. CASE "unregistered" \in node[n].taints /\ node' = [node EXCEPT ![n] = new]
        <3>1. Atomic!RemoveTaint(n)
            <4>1. [m \in Node |-> Now(node'[m])]
                    = [[m \in Node |-> Now(node[m])] EXCEPT ![n] =
                          [at |-> "joined", registered |-> TRUE,
                           taints |-> [m \in Node |-> Now(node[m])][n].taints \ {"unregistered"}]]
                <5>1. [m \in Node |-> Now(node'[m])]
                        = [[m \in Node |-> Now(node[m])] EXCEPT ![n] = Now(new)]
                    BY Zenon, <2>4, <2>5, NowWritten
                <5>2. Now(new) = [at |-> "joined", registered |-> TRUE,
                           taints |-> [m \in Node |-> Now(node[m])][n].taints \ {"unregistered"}]
                    BY Zenon, <1>0, <2>4
                <5> QED
                    BY Zenon, <5>1, <5>2
            <4>2. /\ [m \in Node |-> Now(node[m])][n].at = "joined"
                  /\ [m \in Node |-> Now(node[m])][n].registered
                  /\ "unregistered" \in [m \in Node |-> Now(node[m])][n].taints
                BY Zenon, <1>0, <2>2, <2>5
            <4> QED
                BY Zenon, <4>1, <4>2 DEF Atomic!RemoveTaint, Atomic!Becomes
        <3> QED
            BY Zenon, <3>1 DEF AtomicStep, Atomic!Next
    <2>6. CASE "unregistered" \notin node[n].taints /\ node' = [node EXCEPT ![n] = new]
        <3>1. node[n].taints \ {"unregistered"} = node[n].taints
            BY Zenon, <2>6
        <3>2. Now(new) = Now(node[n])
            BY Zenon, <2>2, <2>4, <3>1 DEF Now
        <3>3. \A m \in Node : node'[m] = IF m = n THEN new ELSE node[m]
            BY Zenon, <2>6 DEF RegTypeOK
        <3> QED
            BY Zenon, <3>2, <3>3, NowUnchanged
    <2> QED
        BY Zenon, <1>1, <2>3, <2>5, <2>6
<1>11. ASSUME NEW n \in Node, NEW taints \in SUBSET Taint, EditTaints(n, taints) PROVE AtomicStep
    <2> DEFINE new == [node[n] EXCEPT !.taints = taints]
    <2>1. /\ node[n].at = "joined" /\ node' = [node EXCEPT ![n] = new]
          /\ "unregistered" \in node[n].taints => "unregistered" \in taints
          /\ "unregistered" \in taints \ node[n].taints => node[n].registered
        BY Zenon, <1>11 DEF EditTaints, OthersWrite, WriteNode
    <2>2. /\ new \in NodeState
          /\ Now(new) = [at |-> "joined", registered |-> node[n].registered, taints |-> taints]
        <3>1. /\ new \in NodeState /\ new.at = node[n].at
              /\ new.registered = node[n].registered /\ new.taints = taints
            BY Zenon, <1>0, NodeTaints
        <3> HIDE DEF new
        <3> QED
            BY Zenon, <2>1, <3>1 DEF Now
    <2> HIDE DEF new
    <2>3. Atomic!EditTaints(n, taints)
        <3>1. [m \in Node |-> Now(node'[m])]
                = [[m \in Node |-> Now(node[m])] EXCEPT ![n] =
                      [at |-> "joined", taints |-> taints,
                       registered |-> [m \in Node |-> Now(node[m])][n].registered]]
            <4>1. [m \in Node |-> Now(node'[m])]
                    = [[m \in Node |-> Now(node[m])] EXCEPT ![n] = Now(new)]
                BY Zenon, <2>1, <2>2, NowWritten
            <4>2. Now(new) = [at |-> "joined", taints |-> taints,
                              registered |-> [m \in Node |-> Now(node[m])][n].registered]
                BY SMTT(30), <1>0, <2>2
            <4> QED
                BY Zenon, <4>1, <4>2
        <3>2. /\ [m \in Node |-> Now(node[m])][n].at = "joined"
              /\ "unregistered" \in [m \in Node |-> Now(node[m])][n].taints => "unregistered" \in taints
              /\ "unregistered" \in taints \ [m \in Node |-> Now(node[m])][n].taints =>
                    [m \in Node |-> Now(node[m])][n].registered
            BY Zenon, <1>0, <2>1
        <3> QED
            BY Zenon, <3>1, <3>2 DEF Atomic!EditTaints, Atomic!Becomes
    <2> QED
        BY Zenon, <2>3 DEF AtomicStep, Atomic!Next
<1>12. ASSUME NEW n \in Node, DeleteNode(n) PROVE AtomicStep
    <2> DEFINE new == [Absent EXCEPT !.at = "gone"]
    <2>1. new \in NodeState /\ Now(new) = Atomic!Gone
        BY NodeType DEF Now, Absent, Atomic!Gone
    <2>2. node' = [node EXCEPT ![n] = new] /\ node[n].at = "joined"
        BY Zenon, <1>12 DEF DeleteNode, OthersWrite, WriteNode
    <2> HIDE DEF new
    <2>3. Atomic!DeleteNode(n)
        BY Zenon, <1>0, <2>1, <2>2, NowWritten DEF Atomic!DeleteNode, Atomic!Becomes
    <2> QED
        BY Zenon, <2>3 DEF AtomicStep, Atomic!Next
<1> QED
    BY Zenon, <1>2, <1>3, <1>4, <1>5, <1>7, <1>8, <1>9, <1>10, <1>11, <1>12 DEF RegNext

\* The core and the controller, with an informer that lags and a patch under an
\* optimistic lock, implement the atomic handling of the taint (Reconcile of the
\* unregistered-taint controller), for any Nodes, edits and lags.
THEOREM TaintsAtomic == RegSpec => TaintsAreAtomic
<1>1. RegTypeOK /\ RegInv /\ [RegNext]_regVars => [Atomic!Next]_([n \in Node |-> Now(node[n])])
    BY AtomicSteps DEF AtomicStep
<1> QED
    BY <1>1, AtomicInit, RegHolds, PTL DEF RegSpec, TaintsAreAtomic, Atomic!Spec

-----------------------------------------------------------------------------
(* Security groups. *)

\* What the first terms match.
Matched(m, terms) == UNION {m[k] : k \in 1 .. terms}

\* Steady groups are what the selector matches.
Exact(groups, m) == groups.steady => groups.known /\ groups.ids = Matched(m, Len(m))

\* A running List has collected what the terms before match; whatever is newer than
\* steady groups is steady as well.
GroupInv ==
    /\ listing.term > 0 /\ listing.steady => listing.ids = Matched(matches, listing.term - 1)
    /\ Exact(cache, matches) /\ Exact(status, matches) /\ Exact(instance, matches)
    /\ instance.steady => status.steady
    /\ status.steady => /\ cache.known => cache.steady
                        /\ listing.term > 0 => listing.steady
    /\ drifted => instance.known /\ ~instance.steady

GroupIInv == GroupTypeOK /\ GroupInv

Listing(m) == [term : 0 .. Len(m), ids : SUBSET Group, steady : BOOLEAN]

LEMMA GroupFields ==
    ASSUME NEW groups \in Groups
    PROVE  /\ groups.ids \subseteq Group
           /\ [groups EXCEPT !.steady = FALSE] \in Groups
           /\ ~[groups EXCEPT !.steady = FALSE].steady
           /\ [groups EXCEPT !.steady = FALSE].known = groups.known
BY Zenon DEF Groups

LEMMA UnknownGroups == Unknown \in Groups /\ ~Unknown.known /\ ~Unknown.steady
BY Zenon DEF Unknown, Groups

LEMMA NewGroups ==
    ASSUME NEW ids \in SUBSET Group, NEW steady \in BOOLEAN
    PROVE  [known |-> TRUE, ids |-> ids, steady |-> steady] \in Groups
BY Zenon DEF Groups

LEMMA MatchesLength ==
    ASSUME NEW m \in Matches
    PROVE  /\ Len(m) \in Nat \ {0} /\ \A k \in 1 .. Len(m) : m[k] \subseteq Group
           /\ \A k \in Matches : Len(k) = Len(m)
BY MatchesAssumption

LEMMA ListingFields ==
    ASSUME GroupTypeOK
    PROVE  /\ listing.term \in 0 .. Len(matches) /\ listing.ids \in SUBSET Group
           /\ listing.steady \in BOOLEAN /\ Len(matches) \in Nat \ {0}
BY Zenon, MatchesLength DEF GroupTypeOK

LEMMA ListingType ==
    ASSUME NEW m \in Matches, NEW term \in 0 .. Len(m), NEW ids \in SUBSET Group, NEW steady \in BOOLEAN
    PROVE  [term |-> term, ids |-> ids, steady |-> steady] \in Listing(m)
BY Zenon DEF Listing

LEMMA NotListingType ==
    ASSUME NEW m \in Matches
    PROVE  NotListing \in Listing(m) /\ ~(NotListing.term > 0)
<1>1. 0 \in 0 .. Len(m)
    BY MatchesLength
<1>2. NotListing.term = 0
    BY Zenon DEF NotListing
<1>3. NotListing \in Listing(m)
    BY Zenon, <1>1 DEF NotListing, Listing
<1> QED
    BY <1>2, <1>3

\* One more term.
LEMMA MatchedStep ==
    ASSUME NEW m, NEW n \in Nat \ {0}
    PROVE  Matched(m, n - 1) \cup m[n] = Matched(m, n) /\ Matched(m, 0) = {}
<1>1. 1 .. n = (1 .. n - 1) \cup {n} /\ 1 .. 0 = {}
    OBVIOUS
<1> HIDE DEF Matched
<1> QED
    BY Zenon, <1>1 DEF Matched

LEMMA GroupStep == GroupIInv /\ [GroupNext]_groupVars => GroupIInv'
<1> SUFFICES ASSUME GroupTypeOK, GroupInv, [GroupNext]_groupVars PROVE (GroupTypeOK /\ GroupInv)'
    BY Zenon DEF GroupIInv
<1>b. /\ cache \in Groups /\ status \in Groups /\ instance \in Groups /\ drifted \in BOOLEAN
      /\ matches \in Matches /\ listing \in Listing(matches)
    BY Zenon DEF GroupTypeOK, Listing
<1>c. ASSUME /\ cache' \in Groups /\ status' \in Groups /\ instance' \in Groups /\ drifted' \in BOOLEAN
             /\ matches' = matches /\ listing' \in Listing(matches)
      PROVE  GroupTypeOK'
    BY Zenon, <1>b, <1>c DEF GroupTypeOK, Listing
<1>1. ASSUME NEW m \in Matches, Retag(m) PROVE (GroupTypeOK /\ GroupInv)'
    <2>1. /\ cache' \in Groups /\ status' \in Groups /\ instance' \in Groups
          /\ ~cache'.steady /\ ~status'.steady /\ ~instance'.steady
          /\ instance'.known = instance.known
        BY Zenon, <1>1, <1>b, GroupFields DEF Retag
    <2>2. listing' \in Listing(matches) /\ ~listing'.steady
        BY Zenon, <1>1, <1>b DEF Retag, Listing
    <2>3. matches' \in Matches /\ Len(matches') = Len(matches) /\ drifted' = drifted
        BY Zenon, <1>1, <1>b, MatchesLength DEF Retag
    <2>4. GroupTypeOK'
        BY Zenon, <1>b, <2>1, <2>2, <2>3 DEF GroupTypeOK, Listing
    <2> QED
        BY Zenon, <2>1, <2>2, <2>3, <2>4 DEF GroupInv, Exact
<1>2. CASE ListCached
    BY <1>2, <1>b, <1>c DEF ListCached, SetStatus, GroupInv
<1>3. CASE ListStart
    <2>1. 1 \in 0 .. Len(matches) /\ Matched(matches, 0) = {}
        BY <1>b, MatchesLength, MatchedStep
    <2>2. listing' \in Listing(matches)
        BY Zenon, <1>3, <1>b, <2>1, ListingType DEF ListStart
    <2>3. listing'.term = 1 /\ listing'.steady /\ listing'.ids = {}
        BY Zenon, <1>3 DEF ListStart
    <2> QED
        BY <1>3, <1>b, <1>c, <2>1, <2>2, <2>3 DEF ListStart, GroupInv
<1>4. CASE Describe
    <2> DEFINE ids == listing.ids \cup matches[listing.term]
               result == [known |-> TRUE, ids |-> ids, steady |-> listing.steady]
    <2>1. listing.term \in 1 .. Len(matches) /\ ids \in SUBSET Group /\ matches' = matches
        BY <1>4, <1>b, ListingFields, MatchesLength DEF Describe
    <2>2. listing.steady => ids = Matched(matches, listing.term)
        BY <2>1, ListingFields, MatchedStep DEF GroupInv
    <2>3. result \in Groups /\ result.steady = listing.steady /\ result.known /\ result.ids = ids
        BY Zenon, <2>1, NewGroups, ListingFields
    <2>4. CASE listing.term < Len(matches)
        <3>1. listing' = [listing EXCEPT !.term = listing.term + 1, !.ids = ids]
            BY Zenon, <1>4, <2>4 DEF Describe
        <3>2. listing.term + 1 \in 0 .. Len(matches)
            BY <2>1, <2>4
        <3>3. /\ listing' \in Listing(matches) /\ listing'.term = listing.term + 1
              /\ listing'.ids = ids /\ listing'.steady = listing.steady
            BY Zenon, <1>b, <2>1, <3>1, <3>2 DEF Listing
        <3>4. UNCHANGED <<matches, cache, status, instance, drifted>>
            BY Zenon, <1>4, <2>4 DEF Describe
        <3>5. listing'.term - 1 = listing.term /\ listing.term > 0
            BY <2>1, <3>3
        <3> HIDE DEF ids, result
        <3> QED
            BY Zenon, <1>b, <1>c, <2>2, <3>3, <3>4, <3>5 DEF GroupInv
    <2>5. CASE ~(listing.term < Len(matches))
        <3>1. listing.term = Len(matches)
            BY <2>1, <2>5
        <3>2. /\ listing' = NotListing /\ cache' = result /\ status' = result
              /\ UNCHANGED <<matches, instance, drifted>>
            BY Zenon, <1>4, <2>5 DEF Describe, SetStatus
        <3>3. listing' \in Listing(matches) /\ ~(listing'.term > 0)
            BY Zenon, <3>2, NotListingType, <1>b
        <3>4. Exact(result, matches)
            BY Zenon, <2>2, <2>3, <3>1 DEF Exact
        <3>5. listing.term > 0
            BY <2>1
        <3> HIDE DEF ids, result
        <3> QED
            BY Zenon, <1>b, <1>c, <2>3, <3>2, <3>3, <3>4, <3>5 DEF GroupInv
    <2> QED
        BY Zenon, <2>4, <2>5
<1>5. CASE DescribeFails
    <2>1. listing' \in Listing(matches) /\ ~(listing'.term > 0)
        BY Zenon, <1>5, NotListingType, <1>b DEF DescribeFails
    <2> QED
        BY Zenon, <1>5, <1>b, <1>c, <2>1 DEF DescribeFails, GroupInv
<1>6. CASE Expire
    <2>1. Exact(Unknown, matches)
        BY Zenon, UnknownGroups DEF Exact
    <2> QED
        BY Zenon, <1>6, <1>b, <1>c, <2>1, UnknownGroups DEF Expire, GroupInv
<1>7. CASE LaunchWithGroups
    BY Zenon, <1>7, <1>b, <1>c DEF LaunchWithGroups, GroupInv
<1>8. CASE CheckDrift
    <2>1. drifted' \in BOOLEAN /\ (drifted' => status.ids # instance.ids) /\ instance.known
        BY Zenon, <1>8 DEF CheckDrift
    <2>2. instance.steady => status.ids = instance.ids
        BY Zenon DEF GroupInv, Exact
    <2> QED
        BY Zenon, <1>8, <1>b, <1>c, <2>1, <2>2 DEF CheckDrift, GroupInv
<1>9. CASE Terminate
    <2>1. Exact(Unknown, matches)
        BY Zenon, UnknownGroups DEF Exact
    <2>2. drifted' \in BOOLEAN /\ ~drifted'
        BY Zenon, <1>9 DEF Terminate
    <2> QED
        BY Zenon, <1>9, <1>b, <1>c, <2>1, <2>2, UnknownGroups DEF Terminate, GroupInv
<1>10. CASE UNCHANGED groupVars
    BY Zenon, <1>10, <1>b, <1>c DEF groupVars, GroupInv
<1> QED
    BY Zenon, <1>1, <1>2, <1>3, <1>4, <1>5, <1>6, <1>7, <1>8, <1>9, <1>10 DEF GroupNext

\* An instance is called drifted only after what the selector matches changed.
THEOREM DriftNeedsChange == GroupSpec => []NoDriftWithoutChange
<1>1. GroupInit => GroupIInv
    <2> SUFFICES ASSUME GroupInit PROVE GroupTypeOK /\ GroupInv
        BY Zenon DEF GroupIInv
    <2>1. drifted = FALSE /\ matches \in Matches /\ Unknown \in Groups /\ NotListing \in Listing(matches)
        BY Zenon, UnknownGroups, NotListingType DEF GroupInit
    <2>2. GroupTypeOK
        BY Zenon, <2>1 DEF GroupInit, GroupTypeOK, Listing
    <2> QED
        BY Zenon, <2>1, <2>2, UnknownGroups, NotListingType DEF GroupInit, GroupInv, Exact
<1>2. GroupIInv => NoDriftWithoutChange
    BY Zenon DEF GroupIInv, GroupInv, NoDriftWithoutChange
<1> QED
    BY <1>1, <1>2, GroupStep, PTL DEF GroupSpec

-----------------------------------------------------------------------------
(* System disks. *)

\* An entry that is steady is what ECS offers; a type that a filtering has still to
\* decide is neither in its result nor decided exactly.
DiskInv ==
    /\ \A t \in DiskType :
        diskCache[t].known /\ diskCache[t].steady => diskCache[t].disks = offered[t]
    /\ \A t \in filter.todo : t \notin filter.result /\ t \notin filter.exact
    /\ FilterIsExact

Filtering ==
    [pc : {"idle", "filter"}, categories : SUBSET Category,
     todo : SUBSET DiskType, result : SUBSET DiskType, exact : SUBSET DiskType]

LEMMA DiskConstants ==
    /\ NotDescribed \in Described /\ ~NotDescribed.known
    /\ NotFiltering \in Filtering
    /\ NotFiltering.todo = {} /\ NotFiltering.exact = {} /\ NotFiltering.result = {}
BY Zenon DEF NotDescribed, Described, NotFiltering, Filtering

LEMMA NewEntry ==
    ASSUME NEW disks \in SUBSET Category
    PROVE  [known |-> TRUE, disks |-> disks, steady |-> TRUE] \in Described
BY Zenon DEF Described

\* A decision about t by disks that are right if they are called steady.
LEMMA DecideInv ==
    ASSUME filter \in Filtering, NEW t \in DiskType, NEW disks, NEW steady \in BOOLEAN,
           Decide(t, disks, steady), steady => disks = offered[t],
           \A u \in filter.todo : u \notin filter.result /\ u \notin filter.exact,
           FilterIsExact, offered' = offered
    PROVE  /\ filter' \in Filtering
           /\ (\A u \in filter.todo : u \notin filter.result /\ u \notin filter.exact)'
           /\ FilterIsExact'
<1>1. /\ filter'.todo = filter.todo \ {t}
      /\ filter'.result = IF Compatible(disks) THEN filter.result \cup {t} ELSE filter.result
      /\ filter'.exact = IF steady THEN filter.exact \cup {t} ELSE filter.exact
      /\ filter'.categories = filter.categories
      /\ filter' \in Filtering
    BY Zenon DEF Decide, Filtering
<1>2. t \in filter.todo
    BY Zenon DEF Decide
<1>3. FilterIsExact'
    BY <1>1, <1>2 DEF FilterIsExact, Compatible
<1> QED
    BY Zenon, <1>1, <1>2, <1>3

LEMMA DiskStep == DiskTypeOK /\ DiskInv /\ [DiskNext]_diskVars => (DiskTypeOK /\ DiskInv)'
<1> SUFFICES ASSUME DiskTypeOK, DiskInv, [DiskNext]_diskVars
             PROVE  (DiskTypeOK /\ DiskInv)'
    OBVIOUS
<1>a. /\ offered \in [DiskType -> SUBSET Category]
      /\ diskCache \in [DiskType -> Described]
      /\ filter \in Filtering
    BY Zenon DEF DiskTypeOK, Filtering
<1>b. ASSUME /\ offered' \in [DiskType -> SUBSET Category]
             /\ diskCache' \in [DiskType -> Described]
             /\ filter' \in Filtering
      PROVE  DiskTypeOK'
    BY Zenon, <1>b DEF DiskTypeOK, Filtering
<1>1. ASSUME NEW t \in DiskType, NEW disks \in SUBSET Category, Reoffer(t, disks)
      PROVE  (DiskTypeOK /\ DiskInv)'
    <2>1. /\ filter' = [filter EXCEPT !.exact = filter.exact \ {t}]
          /\ offered' = [offered EXCEPT ![t] = disks]
          /\ diskCache' = [diskCache EXCEPT ![t] = [diskCache[t] EXCEPT !.steady = FALSE]]
        BY Zenon, <1>1 DEF Reoffer
    <2>2. /\ filter' \in Filtering /\ filter'.exact = filter.exact \ {t}
          /\ filter'.todo = filter.todo /\ filter'.result = filter.result
          /\ filter'.categories = filter.categories
        BY Zenon, <1>a, <2>1 DEF Filtering
    <2>3. [diskCache[t] EXCEPT !.steady = FALSE] \in Described
        BY Zenon, <1>a DEF Described
    <2>4. ~[diskCache[t] EXCEPT !.steady = FALSE].steady
        BY Zenon, <1>a DEF Described
    <2>5. diskCache' \in [DiskType -> Described] /\ offered' \in [DiskType -> SUBSET Category]
        BY Zenon, <1>a, <2>1, <2>3
    <2>6. FilterIsExact'
        BY Zenon, <1>a, <2>1, <2>2 DEF DiskInv, FilterIsExact, Filtering
    <2>7. ASSUME NEW u \in DiskType
          PROVE  (diskCache[u].known /\ diskCache[u].steady => diskCache[u].disks = offered[u])'
        BY Zenon, <1>a, <2>1, <2>4 DEF DiskInv
    <2> QED
        BY Zenon, <1>b, <2>2, <2>5, <2>6, <2>7 DEF DiskInv
<1>2. ASSUME NEW t \in DiskType, ExpireDisks(t)
      PROVE  (DiskTypeOK /\ DiskInv)'
    BY Zenon, <1>a, <1>b, <1>2, DiskConstants DEF ExpireDisks, DiskInv, FilterIsExact
<1>3. ASSUME NEW t \in DiskType, FilterCached(t)
      PROVE  (DiskTypeOK /\ DiskInv)'
    <2>1. diskCache[t].steady \in BOOLEAN
        BY Zenon, <1>a DEF Described
    <2>2. diskCache[t].steady => diskCache[t].disks = offered[t]
        BY Zenon, <1>3 DEF FilterCached, DiskInv
    <2>3. /\ filter' \in Filtering
          /\ (\A u \in filter.todo : u \notin filter.result /\ u \notin filter.exact)'
          /\ FilterIsExact'
        BY Zenon, <1>3, <1>a, <2>1, <2>2, DecideInv DEF FilterCached, DiskInv
    <2> QED
        BY Zenon, <1>3, <1>a, <1>b, <2>3 DEF FilterCached, DiskInv
<1>4. ASSUME NEW t \in DiskType, FilterDescribe(t)
      PROVE  (DiskTypeOK /\ DiskInv)'
    <2>1. /\ filter' \in Filtering
          /\ (\A u \in filter.todo : u \notin filter.result /\ u \notin filter.exact)'
          /\ FilterIsExact'
        BY Zenon, <1>4, <1>a, DecideInv DEF FilterDescribe, DiskInv
    <2>2. [known |-> TRUE, disks |-> offered[t], steady |-> TRUE] \in Described
        BY Zenon, <1>a, NewEntry
    <2>3. diskCache' = [diskCache EXCEPT ![t] =
             [known |-> TRUE, disks |-> offered[t], steady |-> TRUE]] /\ offered' = offered
        BY Zenon, <1>4 DEF FilterDescribe
    <2>4. diskCache' \in [DiskType -> Described]
        BY Zenon, <1>a, <2>2, <2>3
    <2>5. ASSUME NEW u \in DiskType
          PROVE  (diskCache[u].known /\ diskCache[u].steady => diskCache[u].disks = offered[u])'
        BY Zenon, <1>a, <2>3 DEF DiskInv
    <2> QED
        BY Zenon, <1>a, <1>b, <2>1, <2>3, <2>4, <2>5 DEF DiskInv
<1>5. ASSUME NEW t \in DiskType, FilterDescribeFails(t)
      PROVE  (DiskTypeOK /\ DiskInv)'
    <2>1. /\ filter' \in Filtering /\ filter'.todo = filter.todo \ {t}
          /\ filter'.exact = filter.exact /\ filter'.result = filter.result
          /\ filter'.categories = filter.categories
        BY Zenon, <1>5, <1>a DEF FilterDescribeFails, Filtering
    <2> QED
        BY Zenon, <1>5, <1>a, <1>b, <2>1 DEF FilterDescribeFails, DiskInv, FilterIsExact
<1>6. ASSUME NEW types \in SUBSET DiskType, NEW categories \in SUBSET Category,
             StartFilter(categories, types)
      PROVE  (DiskTypeOK /\ DiskInv)'
    <2>1. filter' \in Filtering /\ filter'.exact = {} /\ filter'.result = {}
        BY Zenon, <1>6, DiskConstants DEF StartFilter, Filtering
    <2> QED
        BY Zenon, <1>6, <1>a, <1>b, <2>1 DEF StartFilter, DiskInv, FilterIsExact
<1>7. ASSUME NEW types \in SUBSET DiskType, StartUnfiltered(types)
      PROVE  (DiskTypeOK /\ DiskInv)'
    <2>1. filter' \in Filtering /\ filter'.exact = {} /\ filter'.todo = {}
        BY Zenon, <1>7, DiskConstants DEF StartUnfiltered, Filtering
    <2> QED
        BY Zenon, <1>7, <1>a, <1>b, <2>1 DEF StartUnfiltered, DiskInv, FilterIsExact
<1>8. CASE FilterDone
    BY Zenon, <1>8, <1>a, <1>b, DiskConstants DEF FilterDone, DiskInv, FilterIsExact
<1>9. CASE UNCHANGED diskVars
    BY Zenon, <1>9, <1>a, <1>b DEF diskVars, DiskInv, FilterIsExact
<1> QED
    BY Zenon, <1>1, <1>2, <1>3, <1>4, <1>5, <1>6, <1>7, <1>8, <1>9 DEF DiskNext

\* The filter by system disk is exact for any types and categories.
THEOREM FilterExact == DiskSpec => []FilterIsExact
<1>1. DiskInit => DiskTypeOK /\ DiskInv
    BY DiskConstants DEF DiskInit, DiskTypeOK, DiskInv, FilterIsExact, Filtering
<1>2. DiskInv => FilterIsExact
    BY Zenon DEF DiskInv
<1> QED
    BY <1>1, <1>2, DiskStep, PTL DEF DiskSpec

=============================================================================
