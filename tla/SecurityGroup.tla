---------------------------- MODULE SecurityGroup ----------------------------
(***************************************************************************)
(* Security groups, from the selector to drift: the provider's cached List *)
(* (pkg/providers/securitygroup/securitygroup.go), the reconciler that     *)
(* puts its result into the NodeClass's status                             *)
(* (pkg/controllers/nodeclass/status/securitygroup.go), the launch that    *)
(* gives an instance the groups of the status, and                         *)
(* areSecurityGroupsDrifted (pkg/cloudprovider/drift.go), which compares   *)
(* the two again.  List holds the provider's mutex across its requests.    *)
(***************************************************************************)
EXTENDS Naturals, Sequences

CONSTANTS
    Group,
    Matches     \* what the terms of the selector may match: sequences of sets of
                \* groups, one for each term

\* The terms stay the same, and there is one at least (the CRD's validation).
ASSUME MatchesAssumption ==
    \A m \in Matches :
        m \in Seq(SUBSET Group) /\ m # <<>> /\ \A k \in Matches : Len(k) = Len(m)

VARIABLES
    matches,    \* what the terms match at present
    listing,    \* List: the next term, 0 if no List is running, and the map so far
    cache,      \* the cached result
    status,     \* the groups in the NodeClass's status
    instance,   \* the groups of the launched instance
    drifted     \* the last answer of isNodeClassDrifted for it

groupVars == <<matches, listing, cache, status, instance, drifted>>

\* steady is a history: what the terms match has not changed since the List that
\* these groups come from began.
Groups == [known : BOOLEAN, ids : SUBSET Group, steady : BOOLEAN]

Unknown == [known |-> FALSE, ids |-> {}, steady |-> FALSE]

GroupTypeOK ==
    /\ matches \in Matches
    /\ listing \in [term : 0 .. Len(matches), ids : SUBSET Group, steady : BOOLEAN]
    /\ cache \in Groups /\ status \in Groups /\ instance \in Groups
    /\ drifted \in BOOLEAN

NotListing == [term |-> 0, ids |-> {}, steady |-> FALSE]

GroupInit ==
    /\ matches \in Matches
    /\ listing = NotListing
    /\ cache = Unknown /\ status = Unknown /\ instance = Unknown
    /\ drifted = FALSE

\* Groups are created, deleted or tagged in the cloud.
Retag(m) ==
    /\ m # matches
    /\ matches' = m
    /\ listing' = [listing EXCEPT !.steady = FALSE]
    /\ cache' = [cache EXCEPT !.steady = FALSE]
    /\ status' = [status EXCEPT !.steady = FALSE]
    /\ instance' = [instance EXCEPT !.steady = FALSE]
    /\ UNCHANGED drifted

-----------------------------------------------------------------------------
\* The reconciler takes over what List returns; nothing found empties the status
\* and leaves the NodeClass not ready.
SetStatus(groups) == status' = groups

ListCached ==
    /\ listing.term = 0
    /\ cache.known
    /\ SetStatus(cache)
    /\ UNCHANGED <<matches, listing, cache, instance, drifted>>

ListStart ==
    /\ listing.term = 0
    /\ ~cache.known
    /\ listing' = [term |-> 1, ids |-> {}, steady |-> TRUE]
    /\ UNCHANGED <<matches, cache, status, instance, drifted>>

\* describeSecurityGroups for one term, its pages read as one; after the last one
\* the result is cached and returned.
Describe ==
    LET ids == listing.ids \cup matches[listing.term]
        result == [known |-> TRUE, ids |-> ids, steady |-> listing.steady]
    IN  /\ listing.term > 0
        /\ IF listing.term < Len(matches)
           THEN /\ listing' = [listing EXCEPT !.term = @ + 1, !.ids = ids]
                /\ UNCHANGED <<cache, status>>
           ELSE listing' = NotListing /\ cache' = result /\ SetStatus(result)
        /\ UNCHANGED <<matches, instance, drifted>>

DescribeFailsSkips ==
    LET result == [known |-> TRUE, ids |-> listing.ids, steady |-> listing.steady] IN
    /\ listing.term > 0
    /\ IF listing.term < Len(matches)
       THEN /\ listing' = [listing EXCEPT !.term = @ + 1]
            /\ UNCHANGED <<cache, status>>
       ELSE listing' = NotListing /\ cache' = result /\ SetStatus(result)
    /\ UNCHANGED <<matches, instance, drifted>>

\* An error for one term fails the List: nothing is cached, the status stays.
DescribeFails ==
    /\ listing.term > 0
    /\ listing' = NotListing
    /\ UNCHANGED <<matches, cache, status, instance, drifted>>

Expire ==
    /\ cache.known
    /\ cache' = Unknown
    /\ UNCHANGED <<matches, listing, status, instance, drifted>>

-----------------------------------------------------------------------------
\* A NodeClass is ready only with groups in its status; the instance gets them.
LaunchWithGroups ==
    /\ ~instance.known
    /\ status.ids # {}
    /\ instance' = status
    /\ UNCHANGED <<matches, listing, cache, status, drifted>>

\* areSecurityGroupsDrifted; without groups in the status it is an error.
CheckDrift ==
    /\ instance.known
    /\ status.ids # {}
    /\ drifted' = (status.ids # instance.ids)
    /\ UNCHANGED <<matches, listing, cache, status, instance>>

\* The core replaces a drifted instance; others go as well.
Terminate ==
    /\ instance.known
    /\ instance' = Unknown
    /\ drifted' = FALSE
    /\ UNCHANGED <<matches, listing, cache, status>>

GroupNext ==
    \/ \E m \in Matches : Retag(m)
    \/ ListCached \/ ListStart \/ Describe \/ DescribeFails \/ Expire
    \/ LaunchWithGroups \/ CheckDrift \/ Terminate

GroupSpec == GroupInit /\ [][GroupNext]_groupVars

-----------------------------------------------------------------------------
\* An instance is not called drifted as long as the selector matches what it did
\* when the groups of the instance were listed: listings that fail halfway, empty
\* or expired results and the status of an earlier List make no NodeClaim drift
\* (getSecurityGroups, areSecurityGroupsDrifted).
NoDriftWithoutChange == drifted => ~instance.steady

=============================================================================
