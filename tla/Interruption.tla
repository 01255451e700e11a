----------------------------- MODULE Interruption -----------------------------
(***************************************************************************)
(* The interruption controller (pkg/controllers/interruption): a spot Node *)
(* whose condition InstanceExpired is True has its offering marked         *)
(* unavailable and its NodeClaim deleted.  The controller finds NodeClaims *)
(* in an informer's cache; events of Nodes without the spot label are      *)
(* filtered out.  The caller of MarkUnavailable is the controller, which   *)
(* handles one Node at a time.                                             *)
(***************************************************************************)
EXTENDS UnavailableOfferings

CONSTANTS
    Node,
    NodeOffering,   \* the offering in the labels of a Node's NodeClaim, if it has
                    \* both the zone and the type
    MaxEvents,      \* bound: other events of Nodes
    MaxFailures     \* bound: deletions that fail

ASSUME InterruptionAssumption ==
    /\ Caller = {"interruption"}
    /\ DOMAIN NodeOffering \subseteq Node
    /\ \A n \in DOMAIN NodeOffering : NodeOffering[n] \in Offering
    /\ {MaxEvents, MaxFailures} \subseteq Nat

VARIABLES
    nodes,      \* Nodes that exist: "new", or "spot" once they have the label
    expired,    \* Nodes with the condition
    claims,     \* NodeClaims; "launched" until Status.NodeName is set
    view,       \* the informer's copies of them
    queue,
    rec,        \* the Reconcile in progress, and the NodeClaim it has found
    events, failures

interruptionVars == <<nodes, expired, claims, view, queue, rec, events, failures>>

vars == <<unavailableVars, interruptionVars>>

ClaimState == {"launched", "registered", "deleting", "gone"}

TypeOK ==
    /\ UnavailableTypeOK
    /\ nodes \in [Node -> {"new", "spot", "gone"}]
    /\ expired \subseteq Node /\ queue \subseteq Node
    /\ {claims, view} \subseteq [Node -> ClaimState]
    /\ rec \in [pc : {"idle", "claim", "mark", "marking", "delete"}, node : Node,
                found : ClaimState]
    /\ events \in 0 .. MaxEvents /\ failures \in 0 .. MaxFailures

Init ==
    /\ UnavailableInit
    /\ nodes = [n \in Node |-> "new"]
    /\ expired = {} /\ queue = {}
    /\ claims = [n \in Node |-> "launched"] /\ view = claims
    /\ \E n \in Node : rec = [pc |-> "idle", node |-> n, found |-> "gone"]
    /\ events = 0 /\ failures = 0

-----------------------------------------------------------------------------
\* The core, the node problem detector and the informer.
Label(n) ==
    /\ nodes[n] = "new"
    /\ nodes' = [nodes EXCEPT ![n] = "spot"]
    /\ queue' = queue \cup {n}
    /\ UNCHANGED <<unavailableVars, expired, claims, view, rec, events, failures>>

\* The event filter: only Nodes with the spot label are queued.
Enqueue(n) == IF nodes[n] = "spot" THEN queue \cup {n} ELSE queue

Interrupt(n) ==
    /\ nodes[n] # "gone" /\ n \notin expired
    /\ expired' = expired \cup {n}
    /\ queue' = Enqueue(n)
    /\ UNCHANGED <<unavailableVars, nodes, claims, view, rec, events, failures>>

NodeEvent(n) ==
    /\ nodes[n] # "gone" /\ events < MaxEvents
    /\ queue' = Enqueue(n)
    /\ events' = events + 1
    /\ UNCHANGED <<unavailableVars, nodes, expired, claims, view, rec, failures>>

Become(n, from, to) ==
    /\ claims[n] = from
    /\ claims' = [claims EXCEPT ![n] = to]
    /\ nodes' = IF to = "gone" THEN [nodes EXCEPT ![n] = "gone"] ELSE nodes
    /\ UNCHANGED <<unavailableVars, expired, view, queue, rec, events, failures>>

ClaimSync(n) ==
    /\ view[n] # claims[n]
    /\ view' = [view EXCEPT ![n] = claims[n]]
    /\ UNCHANGED <<unavailableVars, nodes, expired, claims, queue, rec, events, failures>>

-----------------------------------------------------------------------------
\* Reconcile has nothing to do for a Node that is gone or not expired.
Start(n) ==
    /\ rec.pc = "idle" /\ n \in queue
    /\ queue' = queue \ {n}
    /\ rec' = IF nodes[n] # "gone" /\ n \in expired
              THEN [rec EXCEPT !.pc = "claim", !.node = n] ELSE rec
    /\ UNCHANGED <<unavailableVars, nodes, expired, claims, view, events, failures>>

GetNodeClaimByNodeNameDropped ==
    LET found == view[rec.node] IN
    /\ rec.pc = "claim"
    /\ rec' = IF found \in {"registered", "deleting"}
              THEN [rec EXCEPT !.found = found,
                       !.pc = IF rec.node \in DOMAIN NodeOffering THEN "mark" ELSE "delete"]
              ELSE [rec EXCEPT !.pc = "idle"]
    /\ UNCHANGED <<unavailableVars, nodes, expired, claims, view, queue, events, failures>>

\* getNodeClaimByNodeName; if it finds none, Reconcile fails and is queued again.
GetNodeClaimByNodeName ==
    LET found == view[rec.node] IN
    /\ rec.pc = "claim"
    /\ IF found \in {"registered", "deleting"}
       THEN /\ rec' = [rec EXCEPT !.found = found,
                  !.pc = IF rec.node \in DOMAIN NodeOffering THEN "mark" ELSE "delete"]
            /\ UNCHANGED queue
       ELSE rec' = [rec EXCEPT !.pc = "idle"] /\ queue' = queue \cup {rec.node}
    /\ UNCHANGED <<unavailableVars, nodes, expired, claims, view, events, failures>>

MarkDeletesFirst ==
    /\ rec.pc = "mark"
    /\ MarkSet("interruption", NodeOffering[rec.node])
    /\ rec' = [rec EXCEPT !.pc = "delete"]
    /\ UNCHANGED <<nodes, expired, claims, view, queue, events, failures>>

\* MarkUnavailable sets the entry, and then moves SeqNum.
Mark ==
    /\ rec.pc = "mark"
    /\ MarkSet("interruption", NodeOffering[rec.node])
    /\ rec' = [rec EXCEPT !.pc = "marking"]
    /\ UNCHANGED <<nodes, expired, claims, view, queue, events, failures>>

Marked ==
    /\ rec.pc = "marking"
    /\ MarkBump("interruption")
    /\ rec' = [rec EXCEPT !.pc = "delete"]
    /\ UNCHANGED <<nodes, expired, claims, view, queue, events, failures>>

\* deleteNodeClaim leaves one alone that was being deleted when it was found.  One
\* that is gone by now is no error.
DeleteNodeClaim ==
    /\ rec.pc = "delete"
    /\ claims' = IF rec.found = "registered" /\ claims[rec.node] = "registered"
                 THEN [claims EXCEPT ![rec.node] = "deleting"] ELSE claims
    /\ rec' = [rec EXCEPT !.pc = "idle"]
    /\ UNCHANGED <<unavailableVars, nodes, expired, view, queue, events, failures>>

DeleteNodeClaimFails ==
    /\ rec.pc = "delete" /\ rec.found = "registered"
    /\ failures < MaxFailures
    /\ failures' = failures + 1
    /\ rec' = [rec EXCEPT !.pc = "idle"]
    /\ queue' = queue \cup {rec.node}
    /\ UNCHANGED <<unavailableVars, nodes, expired, claims, view, events>>

\* Entries live for three minutes, longer than a Reconcile from Set to Delete.
CacheNext ==
    /\ \/ \E o \in Offering : rec.pc \notin {"marking", "delete"} /\ Expire(o)
       \/ JanitorSweep
       \/ \E o \in Offering : OnEvicted(o)
    /\ UNCHANGED interruptionVars

ReconcileNext ==
    \/ \E n \in Node : Start(n)
    \/ GetNodeClaimByNodeName \/ Mark \/ Marked \/ DeleteNodeClaim \/ DeleteNodeClaimFails

Next ==
    \/ \E n \in Node :
          \/ Label(n) \/ Interrupt(n) \/ NodeEvent(n) \/ ClaimSync(n)
          \/ Become(n, "launched", "registered") \/ Become(n, "registered", "deleting")
          \/ Become(n, "deleting", "gone")
    \/ ReconcileNext
    \/ CacheNext

Spec == Init /\ [][Next]_vars

\* The controller works off its queue, and so do the informer and the core, which
\* labels Nodes and registers their NodeClaims.
FairSpec ==
    /\ Spec
    /\ WF_vars(ReconcileNext)
    /\ \A n \in Node : /\ WF_vars(ClaimSync(n)) /\ WF_vars(Label(n))
                       /\ WF_vars(Become(n, "launched", "registered"))
                       /\ SF_vars(Start(n))

-----------------------------------------------------------------------------
\* When the controller deletes a NodeClaim, its offering is already announced as
\* unavailable (entry set and SeqNum moved), whatever evictions are under way: the
\* launch that replaces the Node cannot be offered it from a cached list.
MarkedBeforeDeleted ==
    rec.pc = "delete" /\ rec.node \in DOMAIN NodeOffering =>
        settled[NodeOffering[rec.node]].state = "unavailable"

\* No interruption is forgotten: until the NodeClaim of an expired Node is deleted,
\* the Node is still without its label (the event of the label will queue it), is
\* queued, or is the one that Reconcile has in hand, whatever the informer's lag,
\* the failures and the deletions by others.
InterruptionsAreKept ==
    \A n \in expired : claims[n] \in {"launched", "registered"} =>
        \/ nodes[n] = "new"
        \/ n \in queue
        \/ rec.pc # "idle" /\ rec.node = n

\* The NodeClaim of an interrupted Node is deleted in the end, though the event
\* came before the spot label, before the NodeClaim knew its Node or before the
\* informer did, and though deletions fail.
InterruptedAreDeleted ==
    \A n \in Node : n \in expired ~> claims[n] \in {"deleting", "gone"}

=============================================================================
