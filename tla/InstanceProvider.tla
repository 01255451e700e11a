-------------------------- MODULE InstanceProvider --------------------------
(***************************************************************************)
(* The instance provider's cache (pkg/providers/instance/instance.go):     *)
(* List, Get, Delete and CreateTags by concurrent callers, over ECS and a  *)
(* go-cache whose entries live as long as a listing counts as recent.  One *)
(* step is one operation on the cache, one API call or one write of        *)
(* lastUpdateTime.  Time passes in ticks: every entry, and the last        *)
(* listing, has a number of ticks left.                                    *)
(***************************************************************************)
EXTENDS Naturals

CONSTANTS
    Instance,   \* instance ids
    Caller,     \* goroutines that call the provider
    Expiration  \* instanceCacheExpiration, in ticks

ASSUME ExpirationAssumption == Expiration \in Nat \ {0}

VARIABLES
    ecs,            \* the status of each instance in ECS
    instanceCache,
    lastUpdate,     \* ticks until a listing made at lastUpdateTime is too old
    calls           \* the call each caller is in

providerVars == <<ecs, instanceCache, lastUpdate, calls>>

\* "Pending" is an instance that is created and starts for the first time,
\* "Starting" one that is started again, "Stopping" one that stops or has stopped,
\* "Releasing" one whose deletion ECS has accepted; "None" does not exist yet.
Status == {"None", "Pending", "Running", "Stopping", "Starting", "Releasing", "Released"}

Listed == {"Pending", "Running", "Stopping", "Starting", "Releasing"}

\* What DescribeInstances says of an instance in a status.
Described(status) ==
    CASE status = "Releasing" -> "Stopping"
      [] status \in Listed \ {"Releasing"} -> status
      [] OTHER -> "None"

\* An entry of the cache; ttl = 0 if there is none or it has expired.
Entry == [status : Status, ttl : Nat]

NoEntry == [status |-> "None", ttl |-> 0]

\* A call: the method (a "recheck" is the Get of a Delete whose request
\* failed), its next step, its argument, and the instances List gave it.
Call == [op : {"none", "list", "get", "delete", "recheck", "tags"},
         pc : {"idle", "lookup", "list", "items", "describe", "store", "stamp",
               "resync", "reread", "delete", "forget", "tag", "ok", "notFound", "unsupported", "error"},
         id : Instance,
         instances : [Instance -> Status]]

Returned == {"ok", "notFound", "unsupported", "error"}

NoInstances == [i \in Instance |-> "None"]

NoCall(id) == [op |-> "none", pc |-> "idle", id |-> id, instances |-> NoInstances]

ProviderTypeOK ==
    /\ ecs \in [Instance -> Status]
    /\ instanceCache \in [Instance -> Entry]
    /\ lastUpdate \in Nat
    /\ calls \in [Caller -> Call]

ProviderInit ==
    /\ ecs = NoInstances
    /\ instanceCache = [i \in Instance |-> NoEntry]
    /\ lastUpdate = 0
    /\ calls \in [Caller -> {NoCall(i) : i \in Instance}]

-----------------------------------------------------------------------------
\* The call of p moves to pc.
Goto(p, pc) ==
    calls' = [calls EXCEPT ![p] =
        [op |-> @.op, pc |-> pc, id |-> @.id, instances |-> @.instances]]

Idle(p) == calls[p].pc = "idle"

Start(p, op, pc, i) ==
    /\ Idle(p)
    /\ calls' = [calls EXCEPT ![p] =
          [op |-> op, pc |-> pc, id |-> i, instances |-> NoInstances]]
    /\ UNCHANGED <<ecs, instanceCache, lastUpdate>>

StartList(p) == Start(p, "list", "list", calls[p].id)

\* An id is known to callers only once the instance has been launched.
StartGet(p, i) == ecs[i] # "None" /\ Start(p, "get", "lookup", i)

StartDelete(p, i) == ecs[i] # "None" /\ Start(p, "delete", "lookup", i)

StartCreateTags(p, i) == ecs[i] # "None" /\ Start(p, "tags", "tag", i)

\* The caller takes the result.
Return(p) ==
    /\ calls[p].pc \in Returned
    /\ calls' = [calls EXCEPT ![p] = NoCall(@.id)]
    /\ UNCHANGED <<ecs, instanceCache, lastUpdate>>

AfterFoundUnchecked(op, status) ==
    CASE op = "get" -> "ok"
      [] op = "recheck" -> "error"
      [] OTHER -> "delete"

\* What follows when Get has found an instance: Get returns it; a Delete
\* refuses one that is Pending or Starting; one whose request failed returns
\* that error.
AfterFound(op, status) ==
    CASE op = "get" -> "ok"
      [] op = "recheck" -> "error"
      [] op = "delete" /\ status \in {"Pending", "Starting"} -> "unsupported"
      [] OTHER -> "delete"

\* instanceCache.Get(id), the first time and after the listing.
LookupHit(p) ==
    LET c == calls[p]
        entry == instanceCache[c.id]
    IN  /\ c.pc \in {"lookup", "reread"}
        /\ entry.ttl > 0
        /\ calls' = [calls EXCEPT ![p] =
              [op |-> c.op, pc |-> AfterFound(c.op, entry.status), id |-> c.id,
               instances |-> NoInstances]]
        /\ UNCHANGED <<ecs, instanceCache, lastUpdate>>

LookupMiss(p) ==
    /\ calls[p].pc \in {"lookup", "reread"}
    /\ instanceCache[calls[p].id].ttl = 0
    /\ Goto(p, IF calls[p].pc = "lookup" THEN "list" ELSE "notFound")
    /\ UNCHANGED <<ecs, instanceCache, lastUpdate>>

AfterList(op) == IF op = "list" THEN "ok" ELSE "resync"

\* List asks whether the last listing is recent.
List(p) ==
    /\ calls[p].pc = "list"
    /\ Goto(p, IF lastUpdate > 0 THEN "items" ELSE "describe")
    /\ UNCHANGED <<ecs, instanceCache, lastUpdate>>

\* If it is: the items of the cache that are unexpired by now.
ListCached(p) ==
    /\ calls[p].pc = "items"
    /\ calls' = [calls EXCEPT ![p] =
          [op |-> @.op, pc |-> AfterList(@.op), id |-> @.id,
           instances |-> [i \in Instance |-> IF instanceCache[i].ttl > 0
                                             THEN instanceCache[i].status ELSE "None"]]]
    /\ UNCHANGED <<ecs, instanceCache, lastUpdate>>

\* list: DescribeInstances answers (its pages read as one), or fails.
DescribeInstances(p) ==
    /\ calls[p].pc = "describe"
    /\ calls' = [calls EXCEPT ![p] =
          [op |-> @.op, pc |-> "store", id |-> @.id,
           instances |-> [i \in Instance |-> Described(ecs[i])]]]
    /\ UNCHANGED <<ecs, instanceCache, lastUpdate>>

DescribeInstancesFails(p) ==
    /\ calls[p].pc = "describe"
    /\ Goto(p, "error")
    /\ UNCHANGED <<ecs, instanceCache, lastUpdate>>

\* syncAllInstances sets an entry for each instance given, with a full TTL,
\* and removes none.
SyncAllInstances(instances) ==
    instanceCache' = [i \in Instance |->
        IF instances[i] = "None" THEN instanceCache[i]
        ELSE [status |-> instances[i], ttl |-> Expiration]]

ListStore(p) ==
    /\ calls[p].pc = "store"
    /\ SyncAllInstances(calls[p].instances)
    /\ Goto(p, "stamp")
    /\ UNCHANGED <<ecs, lastUpdate>>

ListStamp(p) ==
    /\ calls[p].pc = "stamp"
    /\ lastUpdate' = Expiration
    /\ Goto(p, AfterList(calls[p].op))
    /\ UNCHANGED <<ecs, instanceCache>>

\* The callers of List store what it returned once more.
Resync(p) ==
    /\ calls[p].pc = "resync"
    /\ SyncAllInstances(calls[p].instances)
    /\ calls' = [calls EXCEPT ![p] =
          [op |-> @.op, pc |-> IF @.op = "tags" THEN "ok" ELSE "reread", id |-> @.id,
           instances |-> NoInstances]]
    /\ UNCHANGED <<ecs, lastUpdate>>

\* DeleteInstance is accepted, unless the instance starts: it is on its way out.
DeleteInstance(p) ==
    /\ calls[p].pc = "delete"
    /\ ecs[calls[p].id] \in {"Running", "Stopping", "Releasing"}
    /\ \E s \in {"Releasing", "Released"} : ecs' = [ecs EXCEPT ![calls[p].id] = s]
    /\ Goto(p, "forget")
    /\ UNCHANGED <<instanceCache, lastUpdate>>

DeleteInstanceNotFound(p) ==
    /\ calls[p].pc = "delete"
    /\ ecs[calls[p].id] \in {"None", "Released"}
    /\ Goto(p, "notFound")
    /\ UNCHANGED <<ecs, instanceCache, lastUpdate>>

\* Any other failure: Delete asks Get whether the instance is still there.
DeleteInstanceFails(p) ==
    /\ calls[p].pc = "delete"
    /\ calls' = [calls EXCEPT ![p] =
          [op |-> "recheck", pc |-> "lookup", id |-> @.id,
           instances |-> @.instances]]
    /\ UNCHANGED <<ecs, instanceCache, lastUpdate>>

Forget(p) ==
    /\ calls[p].pc = "forget"
    /\ instanceCache' = [instanceCache EXCEPT ![calls[p].id] = NoEntry]
    /\ Goto(p, "ok")
    /\ UNCHANGED <<ecs, lastUpdate>>

\* CreateTags: AddTags succeeds, finds no instance, or fails.
AddTags(p) ==
    /\ calls[p].pc = "tag"
    /\ \/ ecs[calls[p].id] \in Listed /\ Goto(p, "list")
       \/ ecs[calls[p].id] \notin Listed /\ Goto(p, "notFound")
       \/ Goto(p, "error")
    /\ UNCHANGED <<ecs, instanceCache, lastUpdate>>

ProviderStep(p) ==
    \/ LookupHit(p) \/ LookupMiss(p) \/ List(p) \/ ListCached(p)
    \/ DescribeInstances(p) \/ DescribeInstancesFails(p)
    \/ ListStore(p) \/ ListStamp(p) \/ Resync(p)
    \/ DeleteInstance(p) \/ DeleteInstanceNotFound(p) \/ DeleteInstanceFails(p)
    \/ Forget(p) \/ AddTags(p)

-----------------------------------------------------------------------------
\* ECS: an instance is launched and starts; it may be stopped, started again and
\* rebooted any number of times, and released at any time.
Launch(i) ==
    /\ ecs[i] = "None"
    /\ ecs' = [ecs EXCEPT ![i] = "Pending"]
    /\ UNCHANGED <<instanceCache, lastUpdate, calls>>

Boot(i) ==
    /\ ecs[i] \in {"Pending", "Starting"}
    /\ ecs' = [ecs EXCEPT ![i] = "Running"]
    /\ UNCHANGED <<instanceCache, lastUpdate, calls>>

Stop(i) ==
    /\ ecs[i] = "Running"
    /\ ecs' = [ecs EXCEPT ![i] = "Stopping"]
    /\ UNCHANGED <<instanceCache, lastUpdate, calls>>

\* A stopped instance is started, or a running one rebooted or recovered.
Restart(i) ==
    /\ ecs[i] \in {"Running", "Stopping"}
    /\ ecs' = [ecs EXCEPT ![i] = "Starting"]
    /\ UNCHANGED <<instanceCache, lastUpdate, calls>>

Release(i) ==
    /\ ecs[i] \in Listed
    /\ ecs' = [ecs EXCEPT ![i] = "Released"]
    /\ UNCHANGED <<instanceCache, lastUpdate, calls>>

Elapse(n) == IF n = 0 THEN 0 ELSE n - 1

\* A tick: TTLs run down, and the last listing grows older.
TickCaches ==
    /\ instanceCache' = [i \in Instance |->
          IF instanceCache[i].ttl <= 1 THEN NoEntry
          ELSE [status |-> instanceCache[i].status, ttl |-> instanceCache[i].ttl - 1]]
    /\ lastUpdate' = Elapse(lastUpdate)
    /\ UNCHANGED <<ecs, calls>>

-----------------------------------------------------------------------------
\* ECS rejects the deletion of an instance that is Pending or Starting.  Delete
\* never asks for one that has not run yet, although the status it checks comes from
\* the cache: no call, however late it stores what it read, leaves a status in the
\* cache that is ahead of such an instance.  (Of one that is started again the cache
\* may say that it runs; the error of ECS is then Delete's.)
DeleteNeverSeesPending ==
    \A p \in Caller : calls[p].pc = "delete" => ecs[calls[p].id] # "Pending"

=============================================================================
