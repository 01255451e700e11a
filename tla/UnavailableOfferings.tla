------------------------ MODULE UnavailableOfferings ------------------------
(***************************************************************************)
(* The cache of offerings that recently had no capacity                    *)
(* (pkg/cache/unavailableofferings.go): a go-cache with a TTL and a         *)
(* janitor, and a change counter, SeqNum, that the instance type provider  *)
(* puts into the keys of its own cache.  Callers (launches and the         *)
(* interruption controller) mark offerings concurrently; the entry and the *)
(* counter are written by two separate steps.                              *)
(***************************************************************************)
EXTENDS Naturals, FiniteSets

CONSTANTS
    Types,      \* instance types
    Zones,      \* availability zones
    Caller,     \* goroutines that mark offerings
    MaxSeqNum   \* bound: the largest value of SeqNum that is explored

ASSUME MaxSeqNumAssumption == MaxSeqNum \in Nat

CapacityTypes == {"on-demand", "spot"}

Offering == [type : Types, zone : Zones, cap : CapacityTypes]

VARIABLES
    unavailable,    \* the go-cache: state of each offering's entry
    seqNum,         \* UnavailableOfferings.SeqNum
    callers,        \* the step each caller is at
    evicting,       \* DeleteExpired's evictedItems: OnEvicted not yet called
    settled         \* history: what the last completed operation established

unavailableVars == <<unavailable, seqNum, callers, evicting, settled>>

\* An entry past its TTL stays in the map, invisible to Get, until the janitor
\* removes it.
EntryState == {"absent", "live", "expired"}

Idle == [pc |-> "idle"]

CallerState ==
    {Idle}
    \cup [pc : {"marked"}, offering : Offering]
    \cup [pc : {"flushed"}]

\* What callers may rely on: an offering is "unavailable" once a mark of it
\* has returned, "available" once its eviction has been announced, and
\* "unsettled" in between.  since is the value of SeqNum at that moment.
Settlement == [state : {"unavailable", "available", "unsettled"}, since : Nat]

UnavailableTypeOK ==
    /\ unavailable \in [Offering -> EntryState]
    /\ seqNum \in Nat
    /\ callers \in [Caller -> CallerState]
    /\ evicting \in SUBSET Offering
    /\ settled \in [Offering -> Settlement]

UnavailableInit ==
    /\ unavailable = [o \in Offering |-> "absent"]
    /\ seqNum = 0
    /\ callers = [c \in Caller |-> Idle]
    /\ evicting = {}
    /\ settled = [o \in Offering |-> [state |-> "available", since |-> 0]]

\* Get of go-cache finds an entry only while its TTL has not run out.
IsUnavailable(o) == unavailable[o] = "live"

\* The history of an operation on offering o that has just returned with the
\* counter at n.
Settle(o, state, n) ==
    settled' = [settled EXCEPT ![o] =
        IF @.state = state THEN @ ELSE [state |-> state, since |-> n]]

Unsettle(o, state) ==
    settled' = [settled EXCEPT ![o].state =
        IF @ = state THEN "unsettled" ELSE @]

-----------------------------------------------------------------------------
\* Bound: an operation starts only if the increments still owed, with its own
\* n, keep SeqNum within MaxSeqNum.
RoomFor(n) ==
    seqNum + n + Cardinality({c \in Caller : callers[c] # Idle})
        + Cardinality(evicting) <= MaxSeqNum

\* MarkUnavailable, first half: Set creates the entry or extends its TTL.
MarkSet(c, o) ==
    /\ callers[c] = Idle
    /\ RoomFor(1)
    /\ unavailable' = [unavailable EXCEPT ![o] = "live"]
    /\ callers' = [callers EXCEPT ![c] = [pc |-> "marked", offering |-> o]]
    /\ Unsettle(o, "available")
    /\ UNCHANGED <<seqNum, evicting>>

\* MarkUnavailable, second half: the counter moves and the call returns.
MarkBump(c) ==
    /\ callers[c].pc = "marked"
    /\ seqNum' = seqNum + 1
    /\ callers' = [callers EXCEPT ![c] = Idle]
    /\ IF IsUnavailable(callers[c].offering)
       THEN Settle(callers[c].offering, "unavailable", seqNum')
       ELSE UNCHANGED settled
    /\ UNCHANGED <<unavailable, evicting>>

\* Flush, first half: the map is replaced; go-cache calls no OnEvicted.
FlushCache(c) ==
    /\ callers[c] = Idle
    /\ RoomFor(1)
    /\ unavailable' = [o \in Offering |-> "absent"]
    /\ callers' = [callers EXCEPT ![c] = [pc |-> "flushed"]]
    /\ settled' = [o \in Offering |->
                      IF settled[o].state = "unavailable"
                      THEN [settled[o] EXCEPT !.state = "unsettled"]
                      ELSE settled[o]]
    /\ UNCHANGED <<seqNum, evicting>>

\* Flush, second half: every offering without a live entry is settled.
FlushBump(c) ==
    /\ callers[c].pc = "flushed"
    /\ seqNum' = seqNum + 1
    /\ callers' = [callers EXCEPT ![c] = Idle]
    /\ settled' = [o \in Offering |->
                      IF IsUnavailable(o) \/ settled[o].state = "available"
                      THEN settled[o]
                      ELSE [state |-> "available", since |-> seqNum']]
    /\ UNCHANGED <<unavailable, evicting>>

\* The TTL of a live entry runs out; nothing announces it.
Expire(o) ==
    /\ unavailable[o] = "live"
    /\ unavailable' = [unavailable EXCEPT ![o] = "expired"]
    /\ Unsettle(o, "unavailable")
    /\ UNCHANGED <<seqNum, callers, evicting>>

\* DeleteExpired of the janitor: under the cache's lock, all expired entries go.
JanitorSweep ==
    /\ evicting = {}
    /\ evicting' = {o \in Offering : unavailable[o] = "expired"}
    /\ evicting' # {}
    /\ RoomFor(Cardinality(evicting'))
    /\ unavailable' = [o \in Offering |->
                          IF unavailable[o] = "expired"
                          THEN "absent" ELSE unavailable[o]]
    /\ UNCHANGED <<seqNum, callers, settled>>

OnEvictedDecrement(o) ==
    /\ o \in evicting
    /\ seqNum' = seqNum - 1
    /\ evicting' = evicting \ {o}
    /\ IF IsUnavailable(o)
       THEN UNCHANGED settled
       ELSE Settle(o, "available", seqNum')
    /\ UNCHANGED <<unavailable, callers>>

\* OnEvicted, called after the lock is released, once per evicted entry.
OnEvicted(o) ==
    /\ o \in evicting
    /\ seqNum' = seqNum + 1
    /\ evicting' = evicting \ {o}
    /\ IF IsUnavailable(o)
       THEN UNCHANGED settled
       ELSE Settle(o, "available", seqNum')
    /\ UNCHANGED <<unavailable, callers>>

UnavailableNext ==
    \/ \E c \in Caller, o \in Offering : MarkSet(c, o)
    \/ \E c \in Caller : MarkBump(c) \/ FlushCache(c) \/ FlushBump(c)
    \/ \E o \in Offering : Expire(o) \/ OnEvicted(o)
    \/ JanitorSweep

=============================================================================
