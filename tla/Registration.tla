---------------------------- MODULE Registration ----------------------------
(***************************************************************************)
(* How a Node joins and loses its unregistered taint: the user data with   *)
(* the cluster's attach script (pkg/providers/ack/ack.go), the core's      *)
(* registration of the Node (external), and the controller that removes an *)
(* unregistered taint left on a registered Node                            *)
(* (pkg/controllers/nodeclaim/unregisteredtaint/controller.go), which      *)
(* reads Nodes from an informer that may lag behind and patches them with  *)
(* an optimistic lock.                                                     *)
(***************************************************************************)
EXTENDS Naturals

CONSTANTS
    Node,
    MaxEdits    \* edits of the Nodes by others

ASSUME MaxEditsAssumption == MaxEdits \in Nat

VARIABLES
    scripted,   \* the attach script is cached
    node,       \* the Nodes in the API server
    seen,       \* the informer's copies
    scan,       \* the controller's pass: the Nodes it has yet to handle
    edits       \* edits by others so far

regVars == <<scripted, node, seen, scan, edits>>

\* The unregistered taint, one of its key with another effect, and any other.
Taint == {"unregistered", "sameKey", "other"}

NodeState ==
    [at : {"none", "userData", "joined", "gone"}, registered : BOOLEAN,
     ready : {"no", "ready", "settled"},      \* settled: Ready for more than 15 s
     taints : SUBSET Taint]

\* A copy is current while the Node has not been written since: its resource
\* version is the one in the API server.
Copy == [node : NodeState, current : BOOLEAN]

Absent == [at |-> "none", registered |-> FALSE, ready |-> "no", taints |-> {}]

RegTypeOK ==
    /\ scripted \in BOOLEAN
    /\ node \in [Node -> NodeState]
    /\ seen \in [Node -> Copy]
    /\ scan \in [left : SUBSET Node, copies : [Node -> Copy]]
    /\ edits \in 0 .. MaxEdits

AbsentCopy == [n \in Node |-> [node |-> Absent, current |-> TRUE]]

NoScan == [left |-> {}, copies |-> AbsentCopy]

RegInit ==
    /\ scripted = FALSE
    /\ node = [n \in Node |-> Absent]
    /\ seen = AbsentCopy
    /\ scan = NoScan
    /\ edits = 0

Outdated(copies, n) == [copies EXCEPT ![n].current = FALSE]

\* A write to Node n, after which every copy of it is outdated.
WriteNode(n, new) ==
    /\ node' = [node EXCEPT ![n] = new]
    /\ seen' = Outdated(seen, n)

OthersWrite(n, new) ==
    /\ WriteNode(n, new)
    /\ scan' = IF n \in scan.left
               THEN [scan EXCEPT !.copies = Outdated(@, n)]
               ELSE scan

Edit == edits < MaxEdits /\ edits' = edits + 1

-----------------------------------------------------------------------------
\* GetNodeRegisterScript: the cached script, or a described one that is cached;
\* an error, or an empty script, fails the launch.  resolveUserData asks the
\* kubelet to join with the unregistered taint.
UserData == [Absent EXCEPT !.at = "userData", !.taints = {"unregistered"}]

GetNodeRegisterScript(n) ==
    /\ node[n].at = "none"
    /\ \/ scripted' = TRUE /\ node' = [node EXCEPT ![n] = UserData]
       \/ ~scripted /\ UNCHANGED <<scripted, node>>
    /\ UNCHANGED <<seen, scan, edits>>

ScriptExpires ==
    /\ scripted
    /\ scripted' = FALSE
    /\ UNCHANGED <<node, seen, scan, edits>>

\* The kubelet creates its Node, and creates it again when somebody has deleted
\* it: under the same name, with the taints of the user data.
Join(n) ==
    /\ node[n].at \in {"userData", "gone"}
    /\ OthersWrite(n, [UserData EXCEPT !.at = "joined"])
    /\ UNCHANGED <<scripted, edits>>

SetReady(n, ready) ==
    /\ node[n].at = "joined"
    /\ <<node[n].ready, ready>> \in {<<"no", "ready">>, <<"ready", "no">>, <<"settled", "no">>}
    /\ OthersWrite(n, [node[n] EXCEPT !.ready = ready])
    /\ UNCHANGED <<scripted, edits>>

\* 15 s go by for a Ready Node, and for the copies of it that say Ready; for an
\* older copy they may be over earlier.
Settled(ready) == IF ready = "ready" THEN "settled" ELSE ready

Settle(n) ==
    /\ seen' = [seen EXCEPT ![n].node.ready = Settled(@)]
    /\ \/ /\ node[n].ready = "ready"
          /\ node' = [node EXCEPT ![n].ready = Settled(@)]
       \/ /\ seen[n].node.ready = "ready" /\ ~seen[n].current
          /\ UNCHANGED node
    /\ UNCHANGED <<scripted, scan, edits>>

\* The core removes the taint and sets the label in one patch with an optimistic
\* lock; it refuses a Node that has neither.
Register(n) ==
    /\ seen[n].current
    /\ seen[n].node.at = "joined"
    /\ ~seen[n].node.registered
    /\ "unregistered" \in seen[n].node.taints
    /\ OthersWrite(n, [node[n] EXCEPT !.registered = TRUE, !.taints = @ \ {"unregistered"}])
    /\ UNCHANGED <<scripted, edits>>

\* The unregistered taint is put back on a registered Node, other taints come and
\* go, and Nodes are deleted.
EditTaints(n, taints) ==
    /\ Edit
    /\ node[n].at = "joined"
    /\ taints # node[n].taints
    /\ "unregistered" \in node[n].taints => "unregistered" \in taints
    /\ "unregistered" \in taints \ node[n].taints => node[n].registered
    /\ OthersWrite(n, [node[n] EXCEPT !.taints = taints])
    /\ UNCHANGED scripted

DeleteNode(n) ==
    /\ Edit
    /\ node[n].at = "joined"
    /\ OthersWrite(n, [Absent EXCEPT !.at = "gone"])
    /\ UNCHANGED scripted

Observe(n) ==
    /\ ~seen[n].current
    /\ seen' = [seen EXCEPT ![n] = [node |-> node[n], current |-> TRUE]]
    /\ UNCHANGED <<scripted, node, scan, edits>>

-----------------------------------------------------------------------------
hasUnregisteredTaint(state) == state.taints \cap {"unregistered", "sameKey"} # {}

isNodeReadyEarly(state) == state.ready = "ready"

isNodeReady(state) == state.ready = "settled"

HasLabelsAny(state) == state.at = "joined"

HasLabels(state) == state.at = "joined" /\ state.registered

\* Reconcile lists the Nodes that have the registered label.  The Nodes it skips
\* in its loop are left out from the start: a copy does not change.
List ==
    LET todo == {n \in Node : /\ HasLabels(seen[n].node)
                              /\ hasUnregisteredTaint(seen[n].node)
                              /\ isNodeReady(seen[n].node)}
    IN  /\ scan.left = {}
        /\ todo # {}
        /\ scan' = [left |-> todo,
                    copies |-> [n \in Node |-> IF n \in todo THEN seen[n] ELSE AbsentCopy[n]]]
        /\ UNCHANGED <<scripted, node, seen, edits>>

Handled(n) ==
    scan' = [left |-> scan.left \ {n}, copies |-> [scan.copies EXCEPT ![n] = AbsentCopy[n]]]

LockedNever(copy) == TRUE

Locked(copy) == copy.current

\* The patch carries the whole list of taints of the copy, less the taint; one
\* that changes nothing is no write.
Patch(n) ==
    LET new == [node[n] EXCEPT !.taints = scan.copies[n].node.taints \ {"unregistered"}] IN
    /\ n \in scan.left
    /\ node[n].at = "joined"
    /\ Locked(scan.copies[n])
    /\ IF new = node[n] THEN UNCHANGED <<node, seen>> ELSE WriteNode(n, new)
    /\ Handled(n)
    /\ UNCHANGED <<scripted, edits>>

\* A conflict is retried with the same copy, so it stays one; this and any other
\* error is logged and the next Node handled.
PatchFails(n) ==
    /\ n \in scan.left
    /\ Handled(n)
    /\ UNCHANGED <<scripted, node, seen, edits>>

-----------------------------------------------------------------------------
RegNext ==
    \/ ScriptExpires
    \/ List
    \/ \E n \in Node :
        \/ GetNodeRegisterScript(n) \/ Join(n) \/ Settle(n) \/ Register(n)
        \/ DeleteNode(n) \/ Observe(n) \/ Patch(n) \/ PatchFails(n)
        \/ \E ready \in {"no", "ready"} : SetReady(n, ready)
        \/ \E taints \in SUBSET Taint : EditTaints(n, taints)

RegSpec == RegInit /\ [][RegNext]_regVars

\* The informer catches up, the singleton controller is requeued every minute, and
\* the API server does not refuse every one of its patches.
RegFairness ==
    /\ WF_regVars(List)
    /\ \A n \in Node :
        /\ WF_regVars(Observe(n))
        /\ WF_regVars(Patch(n) \/ PatchFails(n))
        /\ SF_regVars(Patch(n))

-----------------------------------------------------------------------------
\* The unregistered taint stays on a Node until it is registered, also when a
\* copy of the Node is out of date or of a deleted Node of the same name: the core
\* would never register it otherwise (Reconcile's label filter and lock).
UnregisteredKeepsTaint ==
    \A n \in Node :
        node[n].at = "joined" /\ ~node[n].registered => "unregistered" \in node[n].taints

\* The controller and the core change no taint of others: the patch, which carries
\* the whole list, neither drops a taint put on since the list was read nor brings
\* back one taken off (the optimistic lock of Reconcile's patch).
OthersTaintsStay ==
    [][\A n \in Node :
        node[n].at = "joined" /\ edits' = edits =>
            node'[n].taints \ {"unregistered"} = node[n].taints \ {"unregistered"}]_regVars

\* On a registered Node that stays ready the taint is gone in the end, whatever
\* conflicts and errors the patches met (Reconcile is requeued every minute).
TaintGoes ==
    \A n \in Node :
        <>[](node[n].registered /\ node[n].ready = "settled") =>
            <>[]("unregistered" \notin node[n].taints)

\* A Node as the core and the controller decide on it.
Now(state) == [at |-> state.at, registered |-> state.registered, taints |-> state.taints]

Atomic == INSTANCE AtomicTaints WITH state <- [n \in Node |-> Now(node[n])]

\* Reading a Node from the informer, deciding, and patching it later come to the same
\* as doing all of it at once on the Node itself: the lock of the patch hides the lag
\* of the informer, the pass over the list, Nodes created again under the same name
\* and the writes of others in between.
TaintsAreAtomic == Atomic!Spec

=============================================================================
