------------------------------ MODULE Questions ------------------------------
(***************************************************************************)
(* The functions of Resources, asked one question after another: what an   *)
(* instance type leaves to schedule (NewInstanceType), and which of the    *)
(* cluster's node pools a new Node takes its runtime from                  *)
(* (getClusterAttachRuntimeConfiguration).                                 *)
(***************************************************************************)
EXTENDS Resources

CONSTANTS
    TypeQuestions,  \* instance types with a kubelet configuration and a cluster
    PoolQuestions   \* the node pools of a cluster, in the order the API lists them

\* An instance type as ECS describes it: its numbers are int32.
Info == [cores : Nat, memory : Nat, enis : Nat, ips : 0 .. IntLimit - 1]

Optional == Nat \cup {Nil}

TypeQuestion ==
    [info : Info, maxPods : Optional, podsPerCore : Optional,
     clusterCNI : STRING, vmOverhead : Nat]

NodePool == [info : BOOLEAN, isDefault : {Nil, TRUE, FALSE}, healthy : Int \cup {Nil}]

ASSUME QuestionsAssumption ==
    /\ TypeQuestions \subseteq TypeQuestion
    /\ PoolQuestions \subseteq Seq(NodePool) \ {<<>>}

VARIABLES
    about,      \* what is asked: "types", "pools", or "nothing"
    question    \* the arguments

askVars == <<about, question>>

AskInit == about = "nothing" /\ question = Nil

Ask(what, questions) ==
    /\ about = "nothing"
    /\ about' = what
    /\ question' \in questions

Answered ==
    /\ about # "nothing"
    /\ about' = "nothing"
    /\ question' = Nil

AskNext == Ask("types", TypeQuestions) \/ Ask("pools", PoolQuestions) \/ Answered

AskSpec == AskInit /\ [][AskNext]_askVars

-----------------------------------------------------------------------------
\* For a type of ECS with a core and 512 MiB, and a kubelet configuration and overhead
\* within the ranges of AllocatableIsPositive, what NewInstanceType holds back is less
\* than the capacity.
TypesLeaveRoom ==
    about = "types" =>
        AllocatableIsPositive(question.info, question.maxPods, question.podsPerCore,
                              question.clusterCNI, question.vmOverhead)

\* Whatever node pools the cluster has, and in whichever order they are listed, the
\* sort puts a default one, and one with the most healthy nodes, first
\* (getClusterAttachRuntimeConfiguration, DefaultPoolFirst).
PoolsAreRanked == about = "pools" => DefaultPoolFirst(question)

=============================================================================
