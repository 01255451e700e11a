---------------------------- MODULE AtomicTaints ----------------------------
(***************************************************************************)
(* What the handling of the unregistered taint promises: a Node joins with *)
(* it, and the core and the controller take it off the Node as it is at    *)
(* that moment, with no informer, list, patch or conflict in between.      *)
(***************************************************************************)
CONSTANTS Node, Taint

VARIABLE state

Absent == [at |-> "none", registered |-> FALSE, taints |-> {}]

UserData == [at |-> "userData", registered |-> FALSE, taints |-> {"unregistered"}]

Joined == [at |-> "joined", registered |-> FALSE, taints |-> {"unregistered"}]

Gone == [at |-> "gone", registered |-> FALSE, taints |-> {}]

Init == state = [n \in Node |-> Absent]

Becomes(n, new) == state' = [state EXCEPT ![n] = new]

\* The Node of an instance that is created, or that the kubelet creates again.
Boot(n) == state[n].at = "none" /\ Becomes(n, UserData)

Join(n) == state[n].at \in {"userData", "gone"} /\ Becomes(n, Joined)

\* The core registers a Node that has the taint, and takes it off.
Register(n) ==
    /\ state[n].at = "joined" /\ ~state[n].registered
    /\ "unregistered" \in state[n].taints
    /\ Becomes(n, [at |-> "joined", registered |-> TRUE,
                   taints |-> state[n].taints \ {"unregistered"}])

\* The controller takes the taint, and no other, off a Node that is registered.
RemoveTaint(n) ==
    /\ state[n].at = "joined" /\ state[n].registered
    /\ "unregistered" \in state[n].taints
    /\ Becomes(n, [at |-> "joined", registered |-> TRUE,
                   taints |-> state[n].taints \ {"unregistered"}])

\* Others: they leave the taint to the core and the controller.
EditTaints(n, taints) ==
    /\ state[n].at = "joined"
    /\ "unregistered" \in state[n].taints => "unregistered" \in taints
    /\ "unregistered" \in taints \ state[n].taints => state[n].registered
    /\ Becomes(n, [at |-> "joined", registered |-> state[n].registered, taints |-> taints])

DeleteNode(n) == state[n].at = "joined" /\ Becomes(n, Gone)

Next ==
    \E n \in Node :
        \/ Boot(n) \/ Join(n) \/ Register(n) \/ RemoveTaint(n) \/ DeleteNode(n)
        \/ \E taints \in SUBSET Taint : EditTaints(n, taints)

Spec == Init /\ [][Next]_state

=============================================================================
