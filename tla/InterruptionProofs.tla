------------------------- MODULE InterruptionProofs -------------------------
(***************************************************************************)
(* The interruption controller announces an offering as unavailable before *)
(* it deletes the NodeClaim, for any Nodes, offerings, events and failures.*)
(***************************************************************************)
EXTENDS Interruption, TLAPS

\* The parts of the type invariant that the argument needs.
MarksShape ==
    /\ unavailable \in [Offering -> EntryState]
    /\ settled \in [Offering -> Settlement]
    /\ seqNum \in Nat
    /\ DOMAIN callers = {"interruption"}
    /\ rec \in [pc : {"idle", "claim", "mark", "marking", "delete"}, node : Node,
                found : ClaimState]

\* The history of an offering agrees with its entry in the cache.
HistorySound ==
    \A o \in Offering :
        /\ settled[o].state = "unavailable" => unavailable[o] = "live"
        /\ settled[o].state = "available" => unavailable[o] # "live"

\* Between Set and the deletion the entry is there, and the controller is in the
\* call that set it.
MarkInv ==
    /\ MarksShape
    /\ HistorySound
    /\ rec.pc \in {"mark", "marking"} => rec.node \in DOMAIN NodeOffering
    /\ rec.pc = "marking" =>
          /\ callers["interruption"] = [pc |-> "marked", offering |-> NodeOffering[rec.node]]
          /\ unavailable[NodeOffering[rec.node]] = "live"
    /\ MarkedBeforeDeleted

LEMMA OfferingOfNode ==
    ASSUME NEW n \in DOMAIN NodeOffering
    PROVE  NodeOffering[n] \in Offering
BY InterruptionAssumption

LEMMA MarkInit == Init => MarkInv
<1> SUFFICES ASSUME Init PROVE MarkInv
  OBVIOUS
<1>1. rec.pc = "idle" /\ rec \in [pc : {"idle", "claim", "mark", "marking", "delete"},
                                  node : Node, found : ClaimState]
  BY DEF Init, ClaimState
<1>2. MarksShape
  BY Zenon, <1>1, InterruptionAssumption
  DEF MarksShape, Init, UnavailableInit, EntryState, Settlement
<1>3. HistorySound
  BY Zenon DEF HistorySound, Init, UnavailableInit
<1>4. QED
  BY <1>1, <1>2, <1>3 DEF MarkInv, MarkedBeforeDeleted

\* A step of the controller or its surroundings that leaves the cache alone.
LEMMA CacheStays ==
    ASSUME MarkInv, UNCHANGED unavailableVars
    PROVE  HistorySound' /\ (rec' \in [pc : {"idle", "claim", "mark", "marking", "delete"},
                                      node : Node, found : ClaimState] => MarksShape')
BY Zenon DEF MarkInv, MarksShape, HistorySound, unavailableVars

\* What the entries and the history of the offerings may do while the controller is
\* between Set and the deletion: what is live, or settled as unavailable, stays so.
LEMMA CacheStep ==
    ASSUME MarksShape, HistorySound, CacheNext
    PROVE  /\ MarksShape' /\ HistorySound' /\ callers' = callers /\ rec' = rec
           /\ rec.pc \in {"marking", "delete"} => \A o \in Offering :
                 /\ unavailable[o] = "live" => unavailable'[o] = "live"
                 /\ settled[o].state = "unavailable" => settled'[o].state = "unavailable"
<1>0. rec' = rec
  BY Zenon DEF CacheNext, interruptionVars
<1>1. ASSUME NEW o \in Offering, rec.pc \notin {"marking", "delete"}, Expire(o)
      PROVE  MarksShape' /\ HistorySound' /\ callers' = callers
  <2>1. /\ unavailable[o] = "live" /\ unavailable' = [unavailable EXCEPT ![o] = "expired"]
        /\ seqNum' = seqNum /\ callers' = callers
    BY Zenon, <1>1 DEF Expire
  <2>2. /\ settled' \in [Offering -> Settlement]
        /\ \A x \in Offering : x # o => settled'[x] = settled[x]
        /\ settled'[o].state = IF settled[o].state = "unavailable" THEN "unsettled"
                               ELSE settled[o].state
    BY ZenonT(40), <1>1 DEF Expire, Unsettle, MarksShape, Settlement
  <2>3. unavailable' \in [Offering -> EntryState]
    BY Zenon, <2>1 DEF MarksShape, EntryState
  <2>4. HistorySound'
    BY <2>1, <2>2 DEF HistorySound, MarksShape
  <2>5. QED
    BY Zenon, <1>0, <2>1, <2>2, <2>3, <2>4 DEF MarksShape
<1>2. ASSUME NEW o \in Offering, OnEvicted(o)
      PROVE  /\ MarksShape' /\ HistorySound' /\ callers' = callers
             /\ unavailable' = unavailable
             /\ \A x \in Offering : settled[x].state = "unavailable" =>
                   settled'[x].state = "unavailable"
  <2>1. unavailable' = unavailable /\ seqNum' = seqNum + 1 /\ callers' = callers
    BY Zenon, <1>2 DEF OnEvicted
  <2>2. seqNum' \in Nat
    BY <2>1 DEF MarksShape
  <2>3. CASE unavailable[o] = "live"
    <3>1. settled' = settled
      BY Zenon, <1>2, <2>3 DEF OnEvicted, IsUnavailable
    <3>2. QED
      BY Zenon, <1>0, <2>1, <2>2, <3>1 DEF MarksShape, HistorySound
  <2>4. CASE unavailable[o] # "live"
    <3>1. Settle(o, "available", seqNum')
      BY Zenon, <1>2, <2>4 DEF OnEvicted, IsUnavailable
    <3>2. /\ settled' \in [Offering -> Settlement]
          /\ \A x \in Offering : x # o => settled'[x] = settled[x]
          /\ settled'[o].state = "available"
      BY Zenon, <2>2, <3>1 DEF Settle, MarksShape, Settlement
    <3>3. settled[o].state # "unavailable"
      BY Zenon, <2>4 DEF HistorySound
    <3>4. QED
      BY Zenon, <1>0, <2>1, <2>2, <2>4, <3>2, <3>3 DEF MarksShape, HistorySound
  <2>5. QED
    BY <2>3, <2>4
<1>3. ASSUME JanitorSweep
      PROVE  /\ MarksShape' /\ HistorySound' /\ callers' = callers /\ settled' = settled
             /\ \A o \in Offering : unavailable[o] = "live" => unavailable'[o] = "live"
  <2>1. /\ settled' = settled /\ seqNum' = seqNum /\ callers' = callers
        /\ unavailable' = [o \in Offering |-> IF unavailable[o] = "expired" THEN "absent"
                                             ELSE unavailable[o]]
    BY Zenon, <1>3 DEF JanitorSweep
  <2>2. unavailable' \in [Offering -> EntryState]
    BY Zenon, <2>1 DEF MarksShape, EntryState
  <2>3. \A o \in Offering : unavailable'[o] = "live" <=> unavailable[o] = "live"
    BY Zenon, <2>1
  <2>4. QED
    BY Zenon, <1>0, <2>1, <2>2, <2>3 DEF MarksShape, HistorySound
<1>4. QED
  BY Zenon, <1>0, <1>1, <1>2, <1>3 DEF CacheNext

\* Every step preserves the invariant.
LEMMA MarkStep == MarkInv /\ [Next]_vars => MarkInv'
<1> SUFFICES ASSUME MarkInv, [Next]_vars PROVE MarkInv'
  OBVIOUS
<1>0. /\ MarksShape /\ HistorySound
      /\ rec \in [pc : {"idle", "claim", "mark", "marking", "delete"}, node : Node,
                  found : ClaimState]
  BY Zenon DEF MarkInv, MarksShape
<1>1. ASSUME UNCHANGED unavailableVars, UNCHANGED rec
      PROVE  MarkInv'
  BY Zenon, <1>1 DEF MarkInv, MarksShape, HistorySound, MarkedBeforeDeleted, unavailableVars
<1>2. ASSUME UNCHANGED unavailableVars, rec'.pc \in {"idle", "claim"},
             rec' \in [pc : {"idle", "claim", "mark", "marking", "delete"}, node : Node,
                       found : ClaimState]
      PROVE  MarkInv'
  <2>1. MarksShape' /\ HistorySound'
    BY Zenon, <1>2, CacheStays
  <2>2. rec'.pc # "mark" /\ rec'.pc # "marking" /\ rec'.pc # "delete"
    BY <1>2
  <2>3. QED
    BY Zenon, <2>1, <2>2 DEF MarkInv, MarkedBeforeDeleted
<1>3. ASSUME NEW n \in Node,
             \/ Label(n) \/ Interrupt(n) \/ NodeEvent(n) \/ ClaimSync(n)
             \/ Become(n, "launched", "registered") \/ Become(n, "registered", "deleting")
             \/ Become(n, "deleting", "gone")
      PROVE  MarkInv'
  BY Zenon, <1>1, <1>3 DEF Label, Interrupt, NodeEvent, ClaimSync, Become
<1>4. ASSUME NEW n \in Node, Start(n) PROVE MarkInv'
  <2>1. CASE rec' = rec
    BY Zenon, <1>1, <1>4, <2>1 DEF Start
  <2>2. CASE rec' = [rec EXCEPT !.pc = "claim", !.node = n]
    BY Zenon, <1>0, <1>2, <1>4, <2>2 DEF Start
  <2>3. QED
    BY Zenon, <1>4, <2>1, <2>2 DEF Start
<1>5. CASE GetNodeClaimByNodeName
  <2>1. UNCHANGED unavailableVars
    BY Zenon, <1>5 DEF GetNodeClaimByNodeName
  <2>2. CASE view[rec.node] \in {"registered", "deleting"}
    <3> DEFINE step == IF rec.node \in DOMAIN NodeOffering THEN "mark" ELSE "delete"
    <3>1. rec' = [rec EXCEPT !.found = view[rec.node], !.pc = step]
      BY Zenon, <1>5, <2>2 DEF GetNodeClaimByNodeName
    <3>2. /\ view[rec.node] \in ClaimState
          /\ step \in {"idle", "claim", "mark", "marking", "delete"}
      BY <2>2 DEF ClaimState
    <3>3. /\ rec' \in [pc : {"idle", "claim", "mark", "marking", "delete"}, node : Node,
                       found : ClaimState]
          /\ rec'.pc = step /\ rec'.node = rec.node
      BY Zenon, <1>0, <3>1, <3>2
    <3>4. MarksShape' /\ HistorySound'
      BY Zenon, <2>1, <3>3, CacheStays
    <3>5. QED
      BY <3>3, <3>4 DEF MarkInv, MarkedBeforeDeleted
  <2>3. CASE view[rec.node] \notin {"registered", "deleting"}
    <3>1. rec' = [rec EXCEPT !.pc = "idle"]
      BY Zenon, <1>5, <2>3 DEF GetNodeClaimByNodeName
    <3>2. QED
      BY Zenon, <1>0, <1>2, <2>1, <3>1
  <2>4. QED
    BY <2>2, <2>3
<1>6. CASE Mark
  <2> DEFINE o == NodeOffering[rec.node]
  <2>1. o \in Offering /\ rec.node \in DOMAIN NodeOffering
    BY Zenon, <1>6, OfferingOfNode DEF Mark, MarkInv
  <2>2. /\ unavailable' = [unavailable EXCEPT ![o] = "live"] /\ seqNum' = seqNum
        /\ callers' = [callers EXCEPT !["interruption"] = [pc |-> "marked", offering |-> o]]
        /\ Unsettle(o, "available")
        /\ rec' = [rec EXCEPT !.pc = "marking"]
    BY Zenon, <1>6 DEF Mark, MarkSet
  <2> HIDE DEF o
  <2>3. /\ settled' \in [Offering -> Settlement]
        /\ \A x \in Offering : x # o => settled'[x] = settled[x]
        /\ settled'[o].state = IF settled[o].state = "available" THEN "unsettled"
                               ELSE settled[o].state
    BY Zenon, <1>0, <2>1, <2>2 DEF Unsettle, MarksShape, Settlement
  <2>4. /\ unavailable' \in [Offering -> EntryState] /\ unavailable'[o] = "live"
        /\ \A x \in Offering : x # o => unavailable'[x] = unavailable[x]
    BY Zenon, <1>0, <2>1, <2>2 DEF MarksShape, EntryState
  <2>5. HistorySound'
    BY <1>0, <2>3, <2>4 DEF HistorySound
  <2>6. /\ rec' \in [pc : {"idle", "claim", "mark", "marking", "delete"}, node : Node,
                     found : ClaimState]
        /\ rec'.pc = "marking" /\ rec'.node = rec.node
    BY Zenon, <1>0, <2>2
  <2>7. /\ DOMAIN callers' = {"interruption"}
        /\ callers'["interruption"] = [pc |-> "marked", offering |-> o]
    BY Zenon, <1>0, <2>2 DEF MarksShape
  <2>8. MarksShape'
    BY Zenon, <1>0, <2>2, <2>3, <2>4, <2>6, <2>7 DEF MarksShape
  <2>9. QED
    BY <2>1, <2>4, <2>5, <2>6, <2>7, <2>8 DEF MarkInv, MarkedBeforeDeleted, o
<1>7. CASE Marked
  <2> DEFINE o == NodeOffering[rec.node]
  <2>1. /\ o \in Offering /\ unavailable[o] = "live"
        /\ callers["interruption"] = [pc |-> "marked", offering |-> o]
    BY Zenon, <1>7, OfferingOfNode DEF Marked, MarkInv
  <2>2. callers["interruption"].offering = o
    BY <2>1
  <2>3. /\ unavailable' = unavailable /\ seqNum' = seqNum + 1
        /\ callers' = [callers EXCEPT !["interruption"] = Idle]
        /\ rec' = [rec EXCEPT !.pc = "delete"]
        /\ Settle(o, "unavailable", seqNum')
    BY Zenon, <1>7, <2>1, <2>2 DEF Marked, MarkBump, IsUnavailable
  <2> HIDE DEF o
  <2>4. seqNum' \in Nat
    BY <1>0, <2>3 DEF MarksShape
  <2>5. /\ settled' \in [Offering -> Settlement]
        /\ \A x \in Offering : x # o => settled'[x] = settled[x]
        /\ settled'[o].state = "unavailable"
    BY Zenon, <1>0, <2>1, <2>3, <2>4 DEF Settle, MarksShape, Settlement
  <2>6. HistorySound'
    BY <1>0, <2>1, <2>3, <2>5 DEF HistorySound
  <2>7. /\ rec' \in [pc : {"idle", "claim", "mark", "marking", "delete"}, node : Node,
                     found : ClaimState]
        /\ rec'.pc = "delete" /\ rec'.node = rec.node
    BY Zenon, <1>0, <2>3
  <2>8. MarksShape'
    BY Zenon, <1>0, <2>3, <2>4, <2>5, <2>7 DEF MarksShape
  <2>9. QED
    BY <2>5, <2>6, <2>7, <2>8 DEF MarkInv, MarkedBeforeDeleted, o
<1>8. CASE DeleteNodeClaim \/ DeleteNodeClaimFails
  <2>1. UNCHANGED unavailableVars /\ rec' = [rec EXCEPT !.pc = "idle"]
    BY Zenon, <1>8 DEF DeleteNodeClaim, DeleteNodeClaimFails
  <2>2. QED
    BY Zenon, <1>0, <1>2, <2>1
<1>9. CASE CacheNext
  <2>1. /\ MarksShape' /\ HistorySound' /\ callers' = callers /\ rec' = rec
        /\ rec.pc \in {"marking", "delete"} => \A o \in Offering :
              /\ unavailable[o] = "live" => unavailable'[o] = "live"
              /\ settled[o].state = "unavailable" => settled'[o].state = "unavailable"
    BY Zenon, <1>0, <1>9, CacheStep
  <2>2. QED
    BY Zenon, <2>1, OfferingOfNode DEF MarkInv, MarkedBeforeDeleted
<1>10. CASE UNCHANGED vars
  BY Zenon, <1>1, <1>10 DEF vars, interruptionVars
<1>11. QED
  BY Zenon, <1>3, <1>4, <1>5, <1>6, <1>7, <1>8, <1>9, <1>10 DEF Next, ReconcileNext

\* When the controller deletes a NodeClaim whose offering is known, the offering is
\* announced as unavailable: the entry is set and SeqNum has moved, whatever the
\* janitor, the informer and other events of Nodes do in between.
THEOREM MarkedFirst == Spec => []MarkedBeforeDeleted
<1>1. MarkInv => MarkedBeforeDeleted
  BY DEF MarkInv
<1>2. QED
  BY <1>1, MarkInit, MarkStep, PTL DEF Spec
-----------------------------------------------------------------------------
\* A NodeClaim only moves on: what was once seen of it is behind what it is.
NotBefore(then, now) ==
    \/ then = now
    \/ then = "launched"
    \/ then = "registered" /\ now \in {"deleting", "gone"}
    \/ then = "deleting" /\ now = "gone"

KeptShape ==
    /\ nodes \in [Node -> {"new", "spot", "gone"}]
    /\ expired \subseteq Node /\ queue \subseteq Node
    /\ claims \in [Node -> ClaimState] /\ view \in [Node -> ClaimState]
    /\ rec \in [pc : {"idle", "claim", "mark", "marking", "delete"}, node : Node,
                found : ClaimState]

\* The informer and the Reconcile under way lag behind the NodeClaims; a Node is
\* there as long as its NodeClaim is, so Reconcile drops no Node that matters.
KeptInv ==
    /\ KeptShape
    /\ \A n \in Node : nodes[n] = "gone" => claims[n] = "gone"
    /\ \A n \in Node : NotBefore(view[n], claims[n])
    /\ rec.pc \in {"mark", "marking", "delete"} =>
          rec.found \in {"registered", "deleting"} /\ NotBefore(rec.found, claims[rec.node])
    /\ InterruptionsAreKept

LEMMA KeptInit == Init => KeptInv
<1> SUFFICES ASSUME Init PROVE KeptInv
  OBVIOUS
<1>1. rec.pc = "idle" /\ rec \in [pc : {"idle", "claim", "mark", "marking", "delete"},
                                  node : Node, found : ClaimState]
  BY DEF Init, ClaimState
<1>2. KeptShape
  BY Zenon, <1>1 DEF KeptShape, Init, ClaimState
<1>3. expired = {} /\ \A n \in Node : nodes[n] = "new" /\ view[n] = claims[n]
  BY Zenon DEF Init
<1>4. QED
  BY <1>1, <1>2, <1>3 DEF KeptInv, InterruptionsAreKept, NotBefore

LEMMA KeptStep == KeptInv /\ [Next]_vars => KeptInv'
<1> SUFFICES ASSUME KeptInv, [Next]_vars PROVE KeptInv'
  OBVIOUS
<1> DEFINE recs == [pc : {"idle", "claim", "mark", "marking", "delete"}, node : Node,
                    found : ClaimState]
<1>0. /\ KeptShape /\ rec \in recs /\ rec.node \in Node
      /\ \A n \in Node : nodes[n] \in {"new", "spot", "gone"} /\ view[n] \in ClaimState
                         /\ claims[n] \in ClaimState
  BY Zenon DEF KeptInv, KeptShape
\* What the surroundings do to the Nodes and the queue: nothing leaves the queue.
<1>1. ASSUME NEW n \in Node, Label(n) \/ Interrupt(n) \/ NodeEvent(n) PROVE KeptInv'
  <2>1. /\ UNCHANGED <<claims, view, rec>> /\ queue \subseteq queue'
        /\ expired \subseteq expired' /\ expired' \subseteq Node /\ queue' \subseteq Node
        /\ nodes' \in [Node -> {"new", "spot", "gone"}]
        /\ \A x \in Node : nodes'[x] = "gone" <=> nodes[x] = "gone"
    BY Zenon, <1>0, <1>1 DEF Label, Interrupt, NodeEvent, Enqueue, KeptShape
  <2>2. \A x \in Node : nodes[x] = "new" => nodes'[x] = "new" \/ x \in queue'
    BY Zenon, <1>0, <1>1 DEF Label, Interrupt, NodeEvent, KeptShape
  <2>3. \A x \in expired' : x \in expired \/ nodes'[x] = "new" \/ x \in queue'
                            \/ nodes[x] = "gone"
    BY <1>0, <1>1 DEF Label, Interrupt, NodeEvent, Enqueue, KeptShape
  <2>4. KeptShape'
    BY Zenon, <1>0, <2>1 DEF KeptShape
  <2>5. InterruptionsAreKept'
    BY <2>1, <2>2, <2>3 DEF KeptInv, InterruptionsAreKept
  <2>6. QED
    BY Zenon, <2>1, <2>4, <2>5 DEF KeptInv
<1>2. ASSUME NEW n \in Node, ClaimSync(n) PROVE KeptInv'
  <2>1. /\ UNCHANGED <<nodes, expired, claims, queue, rec>>
        /\ view' = [view EXCEPT ![n] = claims[n]]
    BY Zenon, <1>2 DEF ClaimSync
  <2>2. /\ view' \in [Node -> ClaimState]
        /\ \A x \in Node : NotBefore(view'[x], claims[x])
    BY Zenon, <1>0, <2>1 DEF KeptShape, KeptInv, NotBefore
  <2>3. QED
    BY Zenon, <2>1, <2>2 DEF KeptInv, KeptShape, InterruptionsAreKept
\* A NodeClaim moves on, and the Node goes with it.
<1>3. ASSUME NEW n \in Node, NEW to \in {"registered", "deleting", "gone"},
             claims'[n] = to, claims' = [claims EXCEPT ![n] = to],
             NotBefore(claims[n], to),
             nodes' = IF to = "gone" THEN [nodes EXCEPT ![n] = "gone"] ELSE nodes,
             UNCHANGED <<expired, view, queue>>
      PROVE  /\ nodes' \in [Node -> {"new", "spot", "gone"}]
             /\ claims' \in [Node -> ClaimState]
             /\ \A x \in Node : nodes'[x] = "gone" => claims'[x] = "gone"
             /\ \A x \in Node : NotBefore(claims[x], claims'[x])
             /\ \A x \in Node : NotBefore(view[x], claims'[x])
             /\ \A x \in Node : claims'[x] \in {"launched", "registered"} =>
                   claims[x] \in {"launched", "registered"} /\ nodes'[x] = nodes[x]
  <2>1. to \in ClaimState
    BY <1>3 DEF ClaimState
  <2>2. claims' \in [Node -> ClaimState] /\ nodes' \in [Node -> {"new", "spot", "gone"}]
    BY Zenon, <1>0, <1>3, <2>1 DEF KeptShape
  <2>3. \A x \in Node : x # n => claims'[x] = claims[x] /\ nodes'[x] = nodes[x]
    BY Zenon, <1>0, <1>3 DEF KeptShape
  <2>4. to = "gone" => nodes'[n] = "gone"
    BY Zenon, <1>0, <1>3 DEF KeptShape
  <2>5. to # "gone" => nodes' = nodes
    BY Zenon, <1>3
  <2>6. claims[n] = "gone" => to = "gone"
    BY <1>3 DEF NotBefore
  <2>7. \A x \in Node : NotBefore(claims[x], claims'[x])
    BY Zenon, <1>3, <2>3 DEF NotBefore
  <2>8. \A x \in Node : NotBefore(view[x], claims'[x])
    BY <1>0, <2>2, <2>7 DEF NotBefore, KeptInv, ClaimState
  <2>9. QED
    BY <1>0, <1>3, <2>2, <2>3, <2>4, <2>5, <2>6, <2>7, <2>8 DEF KeptInv, NotBefore, ClaimState
<1>4. ASSUME NEW n \in Node,
             \/ Become(n, "launched", "registered") \/ Become(n, "registered", "deleting")
             \/ Become(n, "deleting", "gone")
      PROVE  KeptInv'
  <2>1. PICK to \in {"registered", "deleting", "gone"} :
           /\ NotBefore(claims[n], to) /\ claims' = [claims EXCEPT ![n] = to]
           /\ nodes' = IF to = "gone" THEN [nodes EXCEPT ![n] = "gone"] ELSE nodes
           /\ UNCHANGED <<expired, view, queue, rec>>
    BY <1>4 DEF Become, NotBefore
  <2>2. claims'[n] = to
    BY Zenon, <1>0, <2>1 DEF KeptShape
  <2>3. /\ nodes' \in [Node -> {"new", "spot", "gone"}]
        /\ claims' \in [Node -> ClaimState]
        /\ \A x \in Node : nodes'[x] = "gone" => claims'[x] = "gone"
        /\ \A x \in Node : NotBefore(claims[x], claims'[x])
        /\ \A x \in Node : NotBefore(view[x], claims'[x])
        /\ \A x \in Node : claims'[x] \in {"launched", "registered"} =>
              claims[x] \in {"launched", "registered"} /\ nodes'[x] = nodes[x]
    BY Zenon, <1>3, <2>1, <2>2
  <2>4. KeptShape' /\ InterruptionsAreKept'
    BY ZenonT(40), <1>0, <2>1, <2>3 DEF KeptShape, KeptInv, InterruptionsAreKept
  <2>5. rec'.pc \in {"mark", "marking", "delete"} =>
          rec'.found \in {"registered", "deleting"} /\ NotBefore(rec'.found, claims'[rec'.node])
    <3>1. rec' = rec /\ NotBefore(claims[rec.node], claims'[rec.node])
      BY Zenon, <1>0, <2>1, <2>3
    <3>2. QED
      BY <1>0, <3>1 DEF KeptInv, NotBefore, ClaimState
  <2>6. QED
    BY Zenon, <2>1, <2>3, <2>4, <2>5 DEF KeptInv

<1>5. ASSUME NEW n \in Node, Start(n) PROVE KeptInv'
  <2>1. /\ UNCHANGED <<nodes, expired, claims, view>> /\ rec.pc = "idle"
        /\ queue' = queue \ {n}
    BY Zenon, <1>5 DEF Start
  <2>2. CASE nodes[n] # "gone" /\ n \in expired
    <3>1. rec' = [rec EXCEPT !.pc = "claim", !.node = n]
      BY Zenon, <1>5, <2>2 DEF Start
    <3>2. rec' \in recs /\ rec'.pc = "claim" /\ rec'.node = n
      BY Zenon, <1>0, <3>1
    <3>3. KeptShape'
      BY Zenon, <1>0, <2>1, <3>2 DEF KeptShape
    <3>4. QED
      BY <2>1, <3>2, <3>3 DEF KeptInv, InterruptionsAreKept
  <2>3. CASE ~ (nodes[n] # "gone" /\ n \in expired)
    <3>1. rec' = rec
      BY Zenon, <1>5, <2>3 DEF Start
    <3>2. n \in expired => claims[n] = "gone"
      BY Zenon, <2>3 DEF KeptInv
    <3>3. KeptShape'
      BY Zenon, <1>0, <2>1, <3>1 DEF KeptShape
    <3>4. QED
      BY <2>1, <3>1, <3>2, <3>3 DEF KeptInv, InterruptionsAreKept
  <2>4. QED
    BY Zenon, <2>2, <2>3
<1>6. CASE GetNodeClaimByNodeName
  <2>1. UNCHANGED <<nodes, expired, claims, view>> /\ rec.pc = "claim"
    BY Zenon, <1>6 DEF GetNodeClaimByNodeName
  <2>2. CASE view[rec.node] \in {"registered", "deleting"}
    <3> DEFINE step == IF rec.node \in DOMAIN NodeOffering THEN "mark" ELSE "delete"
    <3>1. queue' = queue /\ rec' = [rec EXCEPT !.found = view[rec.node], !.pc = step]
      BY Zenon, <1>6, <2>2 DEF GetNodeClaimByNodeName
    <3>2. step \in {"idle", "claim", "mark", "marking", "delete"} /\ step # "idle"
      OBVIOUS
    <3>3. /\ rec' \in recs /\ rec'.pc = step /\ rec'.node = rec.node
          /\ rec'.found = view[rec.node]
      BY Zenon, <1>0, <3>1, <3>2
    <3>4. KeptShape'
      BY Zenon, <1>0, <2>1, <3>1, <3>3 DEF KeptShape
    <3> HIDE DEF step
    <3>5. QED
      BY <1>0, <2>1, <2>2, <3>1, <3>2, <3>3, <3>4 DEF KeptInv, InterruptionsAreKept
  <2>3. CASE view[rec.node] \notin {"registered", "deleting"}
    <3>1. rec' = [rec EXCEPT !.pc = "idle"] /\ queue' = queue \cup {rec.node}
      BY Zenon, <1>6, <2>3 DEF GetNodeClaimByNodeName
    <3>2. rec' \in recs /\ rec'.pc = "idle"
      BY Zenon, <1>0, <3>1
    <3>3. KeptShape'
      BY Zenon, <1>0, <2>1, <3>1, <3>2 DEF KeptShape
    <3>4. QED
      BY <1>0, <2>1, <3>1, <3>2, <3>3 DEF KeptInv, InterruptionsAreKept
  <2>4. QED
    BY Zenon, <2>2, <2>3
<1>7. CASE Mark \/ Marked
  <2>1. /\ UNCHANGED <<nodes, expired, claims, view, queue>>
        /\ rec.pc \in {"mark", "marking"}
    BY <1>7 DEF Mark, Marked
  <2>2. PICK step \in {"marking", "delete"} : rec' = [rec EXCEPT !.pc = step]
    BY <1>7 DEF Mark, Marked
  <2>3. /\ rec' \in recs /\ rec'.pc = step /\ rec'.node = rec.node /\ rec'.found = rec.found
    BY <1>0, <2>2
  <2>4. KeptShape'
    BY Zenon, <1>0, <2>1, <2>3 DEF KeptShape
  <2>5. QED
    BY <2>1, <2>3, <2>4 DEF KeptInv, InterruptionsAreKept
\* The deletion: one found registered is deleted by it or was by others; one found
\* deleting is still being deleted, or gone.
<1>8. CASE DeleteNodeClaim
  <2>1. /\ UNCHANGED <<nodes, expired, view, queue>> /\ rec.pc = "delete"
        /\ rec' = [rec EXCEPT !.pc = "idle"]
    BY Zenon, <1>8 DEF DeleteNodeClaim
  <2>2. rec' \in recs /\ rec'.pc = "idle"
    BY Zenon, <1>0, <2>1
  <2>3. rec.found \in {"registered", "deleting"} /\ NotBefore(rec.found, claims[rec.node])
    BY <2>1 DEF KeptInv
  <2>4. CASE rec.found = "registered" /\ claims[rec.node] = "registered"
    <3>1. claims' = [claims EXCEPT ![rec.node] = "deleting"] /\ nodes' = nodes
      BY Zenon, <1>8, <2>1, <2>4 DEF DeleteNodeClaim
    <3>2. claims'[rec.node] = "deleting" /\ NotBefore(claims[rec.node], "deleting")
      BY <1>0, <2>4, <3>1 DEF KeptShape, NotBefore
    <3>3. /\ nodes' \in [Node -> {"new", "spot", "gone"}]
          /\ claims' \in [Node -> ClaimState]
          /\ \A x \in Node : nodes'[x] = "gone" => claims'[x] = "gone"
          /\ \A x \in Node : NotBefore(view[x], claims'[x])
          /\ \A x \in Node : claims'[x] \in {"launched", "registered"} =>
                claims[x] \in {"launched", "registered"} /\ nodes'[x] = nodes[x]
      BY <1>0, <1>3, <2>1, <3>1, <3>2
    <3>4. KeptShape'
      BY Zenon, <1>0, <2>1, <2>2, <3>3 DEF KeptShape
    <3>5. InterruptionsAreKept'
      BY <1>0, <2>1, <2>2, <3>2, <3>3 DEF KeptInv, KeptShape, InterruptionsAreKept
    <3>6. QED
      BY <2>1, <2>2, <3>3, <3>4, <3>5 DEF KeptInv
  <2>5. CASE ~ (rec.found = "registered" /\ claims[rec.node] = "registered")
    <3>1. claims' = claims
      BY Zenon, <1>8, <2>5 DEF DeleteNodeClaim
    <3>2. claims[rec.node] \notin {"launched", "registered"}
      BY <2>3, <2>5 DEF NotBefore
    <3>3. KeptShape'
      BY Zenon, <1>0, <2>1, <2>2, <3>1 DEF KeptShape
    <3>4. QED
      BY <2>1, <2>2, <3>1, <3>2, <3>3 DEF KeptInv, InterruptionsAreKept
  <2>6. QED
    BY Zenon, <2>4, <2>5
<1>9. CASE DeleteNodeClaimFails
  <2>1. /\ UNCHANGED <<nodes, expired, claims, view>>
        /\ rec' = [rec EXCEPT !.pc = "idle"] /\ queue' = queue \cup {rec.node}
    BY Zenon, <1>9 DEF DeleteNodeClaimFails
  <2>2. rec' \in recs /\ rec'.pc = "idle"
    BY Zenon, <1>0, <2>1
  <2>3. KeptShape'
    BY Zenon, <1>0, <2>1, <2>2 DEF KeptShape
  <2>4. QED
    BY <1>0, <2>1, <2>2, <2>3 DEF KeptInv, InterruptionsAreKept
<1>10. CASE UNCHANGED interruptionVars
  BY Zenon, <1>10 DEF interruptionVars, KeptInv, KeptShape, InterruptionsAreKept
<1>11. QED
  BY Zenon, <1>1, <1>2, <1>4, <1>5, <1>6, <1>7, <1>8, <1>9, <1>10
  DEF Next, ReconcileNext, CacheNext, vars

\* No interruption is forgotten (Reconcile of the interruption controller), for any
\* Nodes, lag of the informer, failures and deletions by others: Reconcile lets go of
\* an expired Node only when its NodeClaim is being deleted, or puts it back.
THEOREM NoneForgotten == Spec => []InterruptionsAreKept
<1>1. KeptInv => InterruptionsAreKept
  BY Zenon DEF KeptInv
<1>2. QED
  BY <1>1, KeptInit, KeptStep, PTL DEF Spec
=============================================================================
