------------------------------- MODULE MCNodes -------------------------------
(***************************************************************************)
(* Four parts that share no state, each by itself: the security groups,    *)
(* the registration of Nodes, the system disks, and questions to the pure  *)
(* functions.                                                              *)
(***************************************************************************)
EXTENDS SecurityGroup, Registration, SystemDisk, Questions

VARIABLE focus  \* the part this behaviour is about

vars == <<focus, askVars, groupVars, regVars, diskVars>>

\* Two terms, each of which matches any of the groups.
TwoTerms == [1 .. 2 -> SUBSET Group]

Types ==
    [cores : {1, 2, 3, 4, 5, 8, 104}, memory : {256, 512, 1024, 4096, 16384},
     enis : {0, 1, 2, 8}, ips : {0, 6, 11, 30}]

\* Kubelet configurations and network plugins; 60 pods per core overflow the
\* shortened integers for the larger types.
SomeTypes ==
    [info : Types, maxPods : {Nil, 0, 64}, podsPerCore : {Nil, 0, 1, 60},
     clusterCNI : {"terway-eniip", "Flannel", "other"}, vmOverhead : {65, 300}]

Pool == [info : BOOLEAN, isDefault : {Nil, TRUE, FALSE}, healthy : {Nil, 1, 2}]

UpToThreePools == [1 .. 2 -> Pool] \cup [1 .. 3 -> {p \in Pool : p.info}]

Init ==
    /\ focus \in {"groups", "registration", "disks", "questions"}
    /\ AskInit
    /\ GroupInit
    /\ focus # "groups" => matches = [k \in 1 .. 2 |-> {}]
    /\ RegInit
    /\ DiskInit
    /\ focus # "disks" => offered = [t \in DiskType |-> {}]

Next ==
    /\ UNCHANGED focus
    /\ \/ focus = "groups" /\ GroupNext /\ UNCHANGED <<askVars, regVars, diskVars>>
       \/ focus = "registration" /\ RegNext /\ UNCHANGED <<askVars, groupVars, diskVars>>
       \/ focus = "disks" /\ DiskNext /\ UNCHANGED <<askVars, groupVars, regVars>>
       \/ focus = "questions" /\ AskNext /\ UNCHANGED <<groupVars, regVars, diskVars>>

Spec == Init /\ [][Next]_vars /\ (focus = "registration" => RegFairness)

=============================================================================
