------------------------------ MODULE SystemDisk ------------------------------
(***************************************************************************)
(* Which instance types take a NodeClass's system disk:                    *)
(* FilterInstanceTypesBySystemDisk (pkg/providers/imagefamily/resolver.go) *)
(* and its cache of the disks that ECS offers for a type, which all        *)
(* NodeClasses share.  The resolver's mutex is held for a whole filtering, *)
(* whose workers handle the types in any order.                            *)
(***************************************************************************)
CONSTANTS
    DiskType,   \* instance types
    Category    \* disk categories

VARIABLES
    offered,    \* the categories ECS offers for each type
    diskCache,
    filter      \* the filtering that is running

diskVars == <<offered, diskCache, filter>>

\* steady is a history: ECS has offered the same since this was described.
Described == [known : BOOLEAN, disks : SUBSET Category, steady : BOOLEAN]

NotDescribed == [known |-> FALSE, disks |-> {}, steady |-> FALSE]

NotFiltering == [pc |-> "idle", categories |-> {}, todo |-> {}, result |-> {}, exact |-> {}]

\* exact is a history: the types decided by what ECS offers still.
DiskTypeOK ==
    /\ offered \in [DiskType -> SUBSET Category]
    /\ diskCache \in [DiskType -> Described]
    /\ filter \in [pc : {"idle", "filter"}, categories : SUBSET Category,
                   todo : SUBSET DiskType, result : SUBSET DiskType, exact : SUBSET DiskType]

DiskInit ==
    /\ offered \in [DiskType -> SUBSET Category]
    /\ diskCache = [t \in DiskType |-> NotDescribed]
    /\ filter = NotFiltering

\* ECS offers other disks for t.
Reoffer(t, disks) ==
    /\ disks # offered[t]
    /\ offered' = [offered EXCEPT ![t] = disks]
    /\ diskCache' = [diskCache EXCEPT ![t].steady = FALSE]
    /\ filter' = [filter EXCEPT !.exact = @ \ {t}]

ExpireDisks(t) ==
    /\ diskCache[t].known
    /\ diskCache' = [diskCache EXCEPT ![t] = NotDescribed]
    /\ UNCHANGED <<offered, filter>>

-----------------------------------------------------------------------------
\* A launch filters types for a NodeClass that names the categories it takes.
StartFilter(categories, types) ==
    /\ filter.pc = "idle"
    /\ filter' = [NotFiltering EXCEPT !.pc = "filter", !.categories = categories, !.todo = types]
    /\ UNCHANGED <<offered, diskCache>>

\* For a NodeClass that names none, every type stays.
StartUnfiltered(types) ==
    /\ filter.pc = "idle"
    /\ filter' = [NotFiltering EXCEPT !.pc = "filter", !.result = types]
    /\ UNCHANGED <<offered, diskCache>>

Compatible(disks) == disks \cap filter.categories # {}

\* A worker is done with t: it stays if one of the disks is a category wanted.
Decide(t, disks, steady) ==
    /\ t \in filter.todo
    /\ filter' = [filter EXCEPT !.todo = @ \ {t},
                                !.result = IF Compatible(disks) THEN @ \cup {t} ELSE @,
                                !.exact = IF steady THEN @ \cup {t} ELSE @]

FilterCached(t) ==
    /\ diskCache[t].known
    /\ Decide(t, diskCache[t].disks, diskCache[t].steady)
    /\ UNCHANGED <<offered, diskCache>>

FilterDescribeWanted(t) ==
    /\ ~diskCache[t].known
    /\ Decide(t, offered[t], TRUE)
    /\ diskCache' = [diskCache EXCEPT ![t] =
          [known |-> TRUE, disks |-> offered[t] \cap filter.categories, steady |-> TRUE]]
    /\ UNCHANGED offered

\* describeAvailableSystemDisk: the disks available in some zone with stock, all of
\* which are cached, whether one of them is wanted or not.
FilterDescribe(t) ==
    /\ ~diskCache[t].known
    /\ Decide(t, offered[t], TRUE)
    /\ diskCache' = [diskCache EXCEPT ![t] =
          [known |-> TRUE, disks |-> offered[t], steady |-> TRUE]]
    /\ UNCHANGED offered

\* The request fails: t is left out, and nothing is cached for it.
FilterDescribeFails(t) ==
    /\ ~diskCache[t].known
    /\ t \in filter.todo
    /\ filter' = [filter EXCEPT !.todo = @ \ {t}]
    /\ UNCHANGED <<offered, diskCache>>

FilterDone ==
    /\ filter.pc = "filter"
    /\ filter.todo = {}
    /\ filter' = NotFiltering
    /\ UNCHANGED <<offered, diskCache>>

DiskNext ==
    \/ \E t \in DiskType :
          \/ \E disks \in SUBSET Category : Reoffer(t, disks)
          \/ ExpireDisks(t) \/ FilterCached(t) \/ FilterDescribe(t) \/ FilterDescribeFails(t)
    \/ \E types \in SUBSET DiskType :
          \/ \E categories \in SUBSET Category : StartFilter(categories, types)
          \/ StartUnfiltered(types)
    \/ FilterDone

DiskSpec == DiskInit /\ [][DiskNext]_diskVars

-----------------------------------------------------------------------------
\* A filtering that goes by what ECS offers still leaves exactly the types that
\* have a disk of the NodeClass's categories, whichever NodeClass had the entry
\* described, with requests that fail and entries that expire in between
\* (FilterInstanceTypesBySystemDisk).
FilterIsExact ==
    \A t \in filter.exact :
        t \in filter.result <=> offered[t] \cap filter.categories # {}

=============================================================================
