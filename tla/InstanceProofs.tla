---------------------------- MODULE InstanceProofs ----------------------------
(***************************************************************************)
(* What the instance provider and its users guarantee, for any instances,  *)
(* callers, delays, tags and restarts.  The first part is about the        *)
(* provider alone; then: the garbage collector spares instances that have  *)
(* a NodeClaim, a NodeClaim that is annotated as tagged has an instance    *)
(* with every tag, and no call asks ECS to delete an instance that has not *)
(* run yet, although instances are stopped, started again and rebooted.    *)
(***************************************************************************)
EXTENDS GarbageCollection, Tagging, TLAPS

\* What was read of an instance that has not run yet does not say that it has.
Behind(status, now) == status # "None" => now # "None" /\ (now = "Pending" => status = "Pending")

\* An instance does not go back to where it was before it first ran.
Forward(before, after) ==
    /\ after = "None" => before = "None"
    /\ after = "Pending" => before \in {"None", "Pending"}

EntryOk(entry, now) ==
    (entry.ttl > 0 => entry.status # "None") /\ Behind(entry.status, now)

\* What a call has read is not ahead, its steps are those of its method, and it
\* deletes an instance that has run.
CallOk(c, now) ==
    /\ \A i \in Instance : Behind(c.instances[i], now[i])
    /\ c.pc \in {"lookup", "reread"} => c.op \in {"get", "delete", "recheck"}
    /\ c.pc \in {"tag", "list", "items", "describe", "store", "stamp"} => c.op # "none"
    /\ c.pc = "resync" => c.op \notin {"none", "list"}
    /\ c.pc = "delete" => now[c.id] \notin {"None", "Pending"}

ProviderInv ==
    /\ \A i \in Instance : EntryOk(instanceCache[i], ecs[i])
    /\ \A p \in Caller : CallOk(calls[p], ecs)

\* No NodeClaim before the launch; while it is launching, the age is accounted for.
ClaimInv ==
    \A i \in Instance :
        /\ claim[i] = "none" <=> ecs[i] = "None"
        /\ claim[i] = "launching" => age[i] + launchLeft[i] <= early[i] + LaunchDelay

\* The core calls for a NodeClaim that is being deleted.
CoreInv == ~Idle("core") => claim[calls["core"].id] \in {"deleting", "terminating"}

\* What the collector holds: managed instances were launched; the ones known when the
\* instances were listed are resolved, unless they are gone since; and one that is
\* not resolved was launching then, so that its age is accounted for.
GcInv ==
    /\ gc.pc \notin {"claims", "nodes", "collect"} => gc.known = {} /\ gc.managed = {}
    /\ \A i \in gc.managed : ecs[i] # "None"
    /\ gc.pc = "claims" => \A i \in gc.known : claim[i] = "gone" \/ i \in Resolved
    /\ gc.pc \in {"nodes", "collect"} => \A i \in gc.known : claim[i] = "gone" \/ i \in gc.resolved
    /\ gc.pc \in {"nodes", "collect"} =>
          \A i \in gc.managed \ gc.resolved :
              claim[i] # "gone" => age[i] + gc.left <= early[i] + LaunchDelay + CollectDelay

\* A worker's instance is its own, and not one to be spared.
WorkerInv ==
    \A i \in Instance : ~Idle(i) =>
        /\ gc.pc = "collect"
        /\ calls[i].id = i
        /\ ecs[i] # "None"
        /\ i \notin gc.known \/ claim[i] = "gone"
        /\ early[i] + LaunchDelay + CollectDelay <= Grace => claim[i] = "gone"

IInv == TypeOK /\ ProviderInv /\ ClaimInv /\ CoreInv /\ GcInv /\ WorkerInv

-----------------------------------------------------------------------------
LEMMA BehindForward ==
    ASSUME NEW status, NEW before, NEW after, Behind(status, before), Forward(before, after)
    PROVE  Behind(status, after)
BY Zenon DEF Behind, Forward

LEMMA EntryForward ==
    ASSUME NEW entry, NEW before, NEW after, EntryOk(entry, before), Forward(before, after)
    PROVE  EntryOk(entry, after)
BY Zenon, BehindForward DEF EntryOk

LEMMA CallForward ==
    ASSUME NEW c \in Call, NEW before, NEW after, CallOk(c, before),
           \A i \in Instance : Forward(before[i], after[i])
    PROVE  CallOk(c, after)
<1>1. \A i \in Instance : Behind(c.instances[i], after[i])
    BY Zenon, BehindForward DEF CallOk
<1>2. c.id \in Instance
    BY Zenon DEF Call
<1>3. c.pc = "delete" => after[c.id] \notin {"None", "Pending"}
    BY Zenon, <1>2 DEF CallOk, Forward
<1> QED
    BY Zenon, <1>1, <1>3 DEF CallOk

Op == {"none", "list", "get", "delete", "recheck", "tags"}

Pc == {"idle", "lookup", "list", "items", "describe", "store", "stamp",
       "resync", "reread", "delete", "forget", "tag", "ok", "notFound", "unsupported", "error"}

\* A call from its fields.
LEMMA CallFields ==
    ASSUME NEW c \in Call
    PROVE  /\ c.op \in Op /\ c.pc \in Pc
           /\ c.id \in Instance /\ c.instances \in [Instance -> Status]
BY Zenon DEF Call, Op, Pc

NewCall(op, pc, id, instances) ==
    [op |-> op, pc |-> pc, id |-> id, instances |-> instances]

LEMMA NewCallType ==
    ASSUME NEW op \in Op, NEW pc \in Pc,
           NEW id \in Instance, NEW instances \in [Instance -> Status]
    PROVE  /\ NewCall(op, pc, id, instances) \in Call
           /\ NewCall(op, pc, id, instances).op = op
           /\ NewCall(op, pc, id, instances).pc = pc
           /\ NewCall(op, pc, id, instances).id = id
           /\ NewCall(op, pc, id, instances).instances = instances
BY Zenon DEF NewCall, Call, Op, Pc

LEMMA NoInstancesType == NoInstances \in [Instance -> Status] /\ \A i \in Instance : NoInstances[i] = "None"
BY Zenon DEF NoInstances, Status

LEMMA NoCallType ==
    ASSUME NEW id \in Instance, NEW now
    PROVE  /\ NoCall(id) \in Call /\ NoCall(id).pc = "idle" /\ NoCall(id).id = id
           /\ CallOk(NoCall(id), now)
<1>1. NoCall(id) = NewCall("none", "idle", id, NoInstances)
    BY Zenon DEF NoCall, NewCall
<1>2. "None" \in Status /\ "idle" \in Pc /\ "none" \in Op
    BY Zenon DEF Status, Pc, Op
<1>3. /\ NoCall(id) \in Call /\ NoCall(id).pc = "idle" /\ NoCall(id).id = id
      /\ NoCall(id).instances = NoInstances
    BY <1>1, <1>2, NewCallType, NoInstancesType
<1> QED
    BY Zenon, <1>3, NoInstancesType DEF CallOk, Behind

\* A call whose instances stay goes on at a step of its method.
LEMMA NewCallOk ==
    ASSUME NEW c \in Call, NEW before, NEW after, CallOk(c, before),
           \A i \in Instance : Forward(before[i], after[i]),
           NEW op \in Op, NEW pc \in Pc \ {"delete"},
           pc \in {"lookup", "reread"} => op \in {"get", "delete", "recheck"},
           pc \in {"tag", "list", "items", "describe", "store", "stamp"} => op # "none",
           pc = "resync" => op \notin {"none", "list"}
    PROVE  LET new == NewCall(op, pc, c.id, c.instances) IN
           new \in Call /\ new.id = c.id /\ new.pc = pc /\ CallOk(new, after)
<1> DEFINE new == NewCall(op, pc, c.id, c.instances)
<1>1. new \in Call /\ new.op = op /\ new.id = c.id /\ new.pc = pc /\ new.instances = c.instances
    BY CallFields, NewCallType
<1>2. \A i \in Instance : Behind(c.instances[i], after[i])
    BY Zenon, BehindForward DEF CallOk
<1> HIDE DEF new
<1>3. CallOk(new, after)
    BY Zenon, <1>1, <1>2 DEF CallOk, Op, Pc
<1> QED
    BY Zenon, <1>1, <1>3 DEF new

\* The shape of every step of a call: one call goes on, the cache changes by entries that
\* are not ahead, ECS moves on.
OneCall(p, c) ==
    /\ c \in Call /\ calls' = [calls EXCEPT ![p] = c]
    /\ CallOk(c, ecs')
    /\ ecs' \in [Instance -> Status] /\ \A i \in Instance : Forward(ecs[i], ecs'[i])
    /\ \A i \in Instance : ecs[i] = "None" => ecs'[i] = "None"
    /\ lastUpdate' \in Nat
    /\ instanceCache' \in [Instance -> Entry]
    /\ \A i \in Instance : EntryOk(instanceCache'[i], ecs'[i])

LEMMA OneCallInv ==
    ASSUME ProviderTypeOK, ProviderInv, NEW p \in Caller, NEW c, OneCall(p, c)
    PROVE  ProviderTypeOK' /\ ProviderInv'
<1>1. ProviderTypeOK'
    BY Zenon DEF OneCall, ProviderTypeOK
<1>2. ASSUME NEW q \in Caller PROVE CallOk(calls'[q], ecs')
    <2>1. CASE q = p
        BY Zenon, <2>1 DEF OneCall, ProviderTypeOK
    <2>2. CASE q # p
        <3>1. calls'[q] = calls[q] /\ calls[q] \in Call
            BY Zenon, <2>2 DEF OneCall, ProviderTypeOK
        <3> QED
            BY Zenon, <3>1, CallForward DEF OneCall, ProviderInv
    <2> QED
        BY Zenon, <2>1, <2>2
<1> QED
    BY Zenon, <1>1, <1>2 DEF OneCall, ProviderInv

LEMMA ForwardSame == ASSUME NEW s PROVE Forward(s, s)
BY Zenon DEF Forward

\* One that only takes the call to pc, with what it has read.
LEMMA GotoOne ==
    ASSUME ProviderTypeOK, ProviderInv, NEW p \in Caller, NEW pc \in Pc \ {"delete"}, Goto(p, pc),
           ecs' \in [Instance -> Status], \A i \in Instance : Forward(ecs[i], ecs'[i]),
           \A i \in Instance : ecs[i] = "None" => ecs'[i] = "None",
           lastUpdate' \in Nat, instanceCache' \in [Instance -> Entry],
           \A i \in Instance : EntryOk(instanceCache'[i], ecs'[i]),
           pc \in {"lookup", "reread"} => calls[p].op \in {"get", "delete", "recheck"},
           pc \in {"tag", "list", "items", "describe", "store", "stamp"} => calls[p].op # "none",
           pc = "resync" => calls[p].op \notin {"none", "list"}
    PROVE  \E c : OneCall(p, c) /\ c.id = calls[p].id /\ c.pc = pc
<1> DEFINE new == NewCall(calls[p].op, pc, calls[p].id, calls[p].instances)
<1>1. calls[p] \in Call /\ CallOk(calls[p], ecs)
    BY Zenon DEF ProviderTypeOK, ProviderInv
<1>2. calls' = [calls EXCEPT ![p] = new]
    BY Zenon DEF Goto, NewCall
<1>3. calls[p].op \in Op
    BY Zenon, <1>1, CallFields
<1>4. new \in Call /\ new.id = calls[p].id /\ new.pc = pc /\ CallOk(new, ecs')
    BY Zenon, <1>1, <1>3, NewCallOk
<1> HIDE DEF new
<1> QED
    BY Zenon, <1>2, <1>4 DEF OneCall

\* A status from the cache or ECS for each instance: it is not ahead.
LEMMA EntryType ==
    ASSUME NEW status \in Status, NEW ttl \in Nat
    PROVE  [status |-> status, ttl |-> ttl] \in Entry
BY Zenon DEF Entry

LEMMA NoEntryOk == NoEntry \in Entry /\ \A now : EntryOk(NoEntry, now)
BY DEF NoEntry, Entry, Status, EntryOk, Behind

LEMMA DescribedBehind ==
    ASSUME NEW now \in Status
    PROVE  Described(now) \in Status /\ Behind(Described(now), now)
<1>1. CASE now = "Releasing"
    BY Zenon, <1>1 DEF Described, Status, Behind
<1>2. CASE now \in Listed \ {"Releasing"}
    BY Zenon, <1>2 DEF Described, Status, Behind, Listed
<1>3. CASE now \notin Listed
    BY Zenon, <1>3 DEF Described, Status, Behind, Listed
<1> QED
    BY Zenon, <1>1, <1>2, <1>3

LEMMA SyncOk ==
    ASSUME ProviderTypeOK, ProviderInv, NEW p \in Caller, SyncAllInstances(calls[p].instances)
    PROVE  /\ instanceCache' \in [Instance -> Entry]
           /\ \A i \in Instance : EntryOk(instanceCache'[i], ecs[i])
<1>1. calls[p].instances \in [Instance -> Status] /\ Expiration \in Nat
    BY Zenon, CallFields, ExpirationAssumption DEF ProviderTypeOK
<1>2. \A i \in Instance : Behind(calls[p].instances[i], ecs[i])
    BY Zenon DEF ProviderInv, CallOk
<1>3. ASSUME NEW i \in Instance
      PROVE  instanceCache'[i] \in Entry /\ EntryOk(instanceCache'[i], ecs[i])
    <2>1. CASE calls[p].instances[i] = "None"
        BY Zenon, <2>1 DEF SyncAllInstances, ProviderTypeOK, ProviderInv
    <2>2. CASE calls[p].instances[i] # "None"
        <3>1. instanceCache'[i] = [status |-> calls[p].instances[i], ttl |-> Expiration]
            BY Zenon, <2>2 DEF SyncAllInstances
        <3>2. instanceCache'[i] \in Entry /\ instanceCache'[i].status = calls[p].instances[i]
            BY <1>1, <3>1, EntryType
        <3> QED
            BY Zenon, <1>2, <2>2, <3>2 DEF EntryOk
    <2> QED
        BY Zenon, <2>1, <2>2
<1> QED
    BY Zenon, <1>3 DEF SyncAllInstances

LEMMA ProviderStepOne ==
    ASSUME ProviderTypeOK, ProviderInv, NEW p \in Caller, ProviderStep(p)
    PROVE  \E c : OneCall(p, c) /\ c.id = calls[p].id /\ c.pc # "idle" /\ calls[p].pc # "idle"
<1> DEFINE Goal == \E c : OneCall(p, c) /\ c.id = calls[p].id /\ c.pc # "idle" /\ calls[p].pc # "idle"
<1>a. calls[p] \in Call /\ CallOk(calls[p], ecs)
    BY Zenon DEF ProviderTypeOK, ProviderInv
<1>b. /\ ecs \in [Instance -> Status] /\ lastUpdate \in Nat /\ instanceCache \in [Instance -> Entry]
      /\ \A i \in Instance : EntryOk(instanceCache[i], ecs[i])
    BY Zenon DEF ProviderTypeOK, ProviderInv
<1>c. calls[p].op \in Op /\ calls[p].id \in Instance
    BY Zenon, <1>a, CallFields
<1>d. ASSUME NEW pc \in Pc \ {"delete", "idle"}, Goto(p, pc), calls[p].pc # "idle",
             UNCHANGED ecs, lastUpdate' \in Nat, instanceCache' \in [Instance -> Entry],
             \A i \in Instance : EntryOk(instanceCache'[i], ecs[i]),
             pc \in {"lookup", "reread"} => calls[p].op \in {"get", "delete", "recheck"},
             pc \in {"tag", "list", "items", "describe", "store", "stamp"} => calls[p].op # "none",
             pc = "resync" => calls[p].op \notin {"none", "list"}
      PROVE  Goal
    BY <1>b, <1>d, GotoOne, ForwardSame
<1>e. ASSUME NEW c \in Call, calls' = [calls EXCEPT ![p] = c], CallOk(c, ecs),
             UNCHANGED <<ecs, instanceCache, lastUpdate>>,
             c.id = calls[p].id, c.pc # "idle", calls[p].pc # "idle"
      PROVE  Goal
    BY Zenon, <1>b, <1>e, ForwardSame DEF OneCall
<1>1. CASE LookupHit(p)
    <2> DEFINE entry == instanceCache[calls[p].id]
               pc == AfterFound(calls[p].op, entry.status)
               new == NewCall(calls[p].op, pc, calls[p].id, NoInstances)
    <2>1. /\ calls[p].pc \in {"lookup", "reread"} /\ entry.ttl > 0
          /\ UNCHANGED <<ecs, instanceCache, lastUpdate>> /\ calls' = [calls EXCEPT ![p] = new]
        BY Zenon, <1>1 DEF LookupHit, NewCall
    <2>2. calls[p].op \in {"get", "delete", "recheck"}
        BY Zenon, <1>a, <2>1 DEF CallOk
    <2>3. entry \in Entry /\ EntryOk(entry, ecs[calls[p].id])
        BY Zenon, <1>b, <1>c
    <2>4. entry.status \in Status /\ entry.status # "None"
        BY Zenon, <2>1, <2>3 DEF Entry, EntryOk
    <2>5. /\ pc \in {"ok", "error", "unsupported", "delete"}
          /\ pc = "delete" => entry.status \notin {"Pending", "Starting"}
        BY Zenon, <2>2 DEF AfterFound
    <2>6. pc = "delete" => ecs[calls[p].id] \notin {"None", "Pending"}
        BY Zenon, <2>3, <2>4, <2>5 DEF EntryOk, Behind
    <2> HIDE DEF pc, entry
    <2>a. pc \in Pc
        BY Zenon, <2>5 DEF Pc
    <2>7. /\ new \in Call /\ new.op = calls[p].op /\ new.pc = pc /\ new.id = calls[p].id
          /\ new.instances = NoInstances
        BY <1>c, <2>4, <2>a, NewCallType, NoInstancesType
    <2> HIDE DEF new
    <2>8. CallOk(new, ecs)
        BY Zenon, <2>5, <2>6, <2>7, NoInstancesType DEF CallOk, Behind
    <2> QED
        BY Zenon, <1>e, <2>1, <2>5, <2>7, <2>8
<1>2. CASE LookupMiss(p)
    <2>1. calls[p].pc \in {"lookup", "reread"} /\ UNCHANGED <<ecs, instanceCache, lastUpdate>>
        BY Zenon, <1>2 DEF LookupMiss
    <2>2. calls[p].op \in {"get", "delete", "recheck"}
        BY Zenon, <1>a, <2>1 DEF CallOk
    <2>3. Goto(p, "list") \/ Goto(p, "notFound")
        BY Zenon, <1>2 DEF LookupMiss
    <2> QED
        BY Zenon, <1>b, <1>d, <2>1, <2>2, <2>3 DEF Pc
<1>14. CASE List(p)
    <2>1. calls[p].pc = "list" /\ UNCHANGED <<ecs, instanceCache, lastUpdate>>
        BY Zenon, <1>14 DEF List
    <2>2. calls[p].op # "none"
        BY Zenon, <1>a, <2>1 DEF CallOk
    <2>3. Goto(p, "items") \/ Goto(p, "describe")
        BY Zenon, <1>14 DEF List
    <2> QED
        BY Zenon, <1>b, <1>d, <2>1, <2>2, <2>3 DEF Pc
<1>3. CASE ListCached(p)
    <2> DEFINE given == [i \in Instance |-> IF instanceCache[i].ttl > 0
                                              THEN instanceCache[i].status ELSE "None"]
               pc == AfterList(calls[p].op)
               new == NewCall(calls[p].op, pc, calls[p].id, given)
    <2>1. /\ calls[p].pc = "items" /\ UNCHANGED <<ecs, instanceCache, lastUpdate>>
          /\ calls' = [calls EXCEPT ![p] = new]
        BY Zenon, <1>3 DEF ListCached, NewCall
    <2>2. calls[p].op # "none"
        BY Zenon, <1>a, <2>1 DEF CallOk
    <2>3. ASSUME NEW i \in Instance
          PROVE  given[i] \in Status /\ Behind(given[i], ecs[i])
        BY Zenon, <1>b DEF Entry, EntryOk, Behind, Status
    <2>4. given \in [Instance -> Status]
        BY Zenon, <2>3
    <2>5. pc \in {"ok", "resync", "store"} /\ (pc = "resync" => calls[p].op # "list")
        BY Zenon DEF AfterList
    <2> HIDE DEF pc, given
    <2>a. pc \in Pc
        BY Zenon, <2>5 DEF Pc
    <2>6. /\ new \in Call /\ new.op = calls[p].op /\ new.pc = pc /\ new.id = calls[p].id
          /\ new.instances = given
        BY <1>c, <2>4, <2>a, NewCallType
    <2> HIDE DEF new
    <2>7. CallOk(new, ecs)
        BY Zenon, <2>2, <2>3, <2>5, <2>6 DEF CallOk
    <2> QED
        BY Zenon, <1>e, <2>1, <2>5, <2>6, <2>7
<1>4. CASE DescribeInstances(p)
    <2> DEFINE given == [i \in Instance |-> Described(ecs[i])]
               pc == "store"
               new == NewCall(calls[p].op, pc, calls[p].id, given)
    <2>1. /\ calls[p].pc = "describe" /\ UNCHANGED <<ecs, instanceCache, lastUpdate>>
          /\ calls' = [calls EXCEPT ![p] = new]
        BY Zenon, <1>4 DEF DescribeInstances, NewCall
    <2>2. calls[p].op # "none"
        BY Zenon, <1>a, <2>1 DEF CallOk
    <2>3. ASSUME NEW i \in Instance
          PROVE  given[i] \in Status /\ Behind(given[i], ecs[i])
        BY Zenon, <1>b, DescribedBehind
    <2>4. given \in [Instance -> Status]
        BY Zenon, <2>3
    <2>5. pc \in {"ok", "resync", "store"} /\ (pc = "resync" => calls[p].op # "list")
        BY Zenon DEF AfterList
    <2> HIDE DEF pc, given
    <2>a. pc \in Pc
        BY Zenon, <2>5 DEF Pc
    <2>6. /\ new \in Call /\ new.op = calls[p].op /\ new.pc = pc /\ new.id = calls[p].id
          /\ new.instances = given
        BY <1>c, <2>4, <2>a, NewCallType
    <2> HIDE DEF new
    <2>7. CallOk(new, ecs)
        BY Zenon, <2>2, <2>3, <2>5, <2>6 DEF CallOk
    <2> QED
        BY Zenon, <1>e, <2>1, <2>5, <2>6, <2>7
<1>5. CASE DescribeInstancesFails(p)
    BY Zenon, <1>5, <1>b, <1>d DEF DescribeInstancesFails, Pc
<1>6. CASE ListStore(p)
    BY Zenon, <1>6, <1>a, <1>b, <1>d, SyncOk DEF ListStore, Pc, CallOk
<1>7. CASE ListStamp(p)
    BY Zenon, <1>7, <1>a, <1>b, <1>d, ExpirationAssumption DEF ListStamp, Pc, CallOk, AfterList
<1>8. CASE Resync(p)
    <2> DEFINE pc == IF calls[p].op = "tags" THEN "ok" ELSE "reread"
               new == NewCall(calls[p].op, pc, calls[p].id, NoInstances)
    <2>1. /\ calls[p].pc = "resync" /\ SyncAllInstances(calls[p].instances)
          /\ UNCHANGED <<ecs, lastUpdate>> /\ calls[p].op \in Op \ {"none", "list"}
          /\ calls' = [calls EXCEPT ![p] = new]
        BY Zenon, <1>8, <1>a, <1>c DEF Resync, CallOk, NewCall
    <2>2. pc \in {"ok", "reread"} /\ (pc = "reread" => calls[p].op \in {"get", "delete", "recheck"})
        BY Zenon, <2>1 DEF Op
    <2> HIDE DEF pc
    <2>a. pc \in Pc
        BY Zenon, <2>2 DEF Pc
    <2>3. /\ new \in Call /\ new.op = calls[p].op /\ new.pc = pc /\ new.id = calls[p].id
          /\ new.instances = NoInstances
        BY <1>c, <2>a, NewCallType, NoInstancesType
    <2> HIDE DEF new
    <2>4. CallOk(new, ecs)
        BY Zenon, <2>2, <2>3, NoInstancesType DEF CallOk, Behind
    <2>5. /\ instanceCache' \in [Instance -> Entry]
          /\ \A i \in Instance : EntryOk(instanceCache'[i], ecs[i])
        BY Zenon, <2>1, SyncOk
    <2>6. OneCall(p, new)
        BY Zenon, <1>b, <2>1, <2>3, <2>4, <2>5, ForwardSame DEF OneCall
    <2> QED
        BY Zenon, <2>1, <2>2, <2>3, <2>6
<1>9. CASE DeleteInstance(p)
    <2>1. PICK s \in {"Releasing", "Released"} : ecs' = [ecs EXCEPT ![calls[p].id] = s]
        BY Zenon, <1>9 DEF DeleteInstance
    <2>2. /\ ecs[calls[p].id] \in {"Running", "Stopping", "Releasing"} /\ Goto(p, "forget")
          /\ UNCHANGED <<instanceCache, lastUpdate>> /\ calls[p].pc = "delete"
        BY Zenon, <1>9 DEF DeleteInstance
    <2>3. ecs' \in [Instance -> Status]
        BY Zenon, <1>b, <2>1 DEF Status
    <2>4. ASSUME NEW i \in Instance
          PROVE  Forward(ecs[i], ecs'[i]) /\ (ecs[i] = "None" => ecs'[i] = "None")
        BY Zenon, <1>b, <2>1, <2>2 DEF Forward
    <2>5. \A i \in Instance : EntryOk(instanceCache'[i], ecs'[i])
        BY Zenon, <1>b, <2>2, <2>4, EntryForward
    <2> QED
        BY <1>b, <2>2, <2>3, <2>4, <2>5, GotoOne DEF Pc
<1>10. CASE DeleteInstanceNotFound(p)
    BY Zenon, <1>10, <1>b, <1>d DEF DeleteInstanceNotFound, Pc
<1>11. CASE DeleteInstanceFails(p)
    <2> DEFINE new == NewCall("recheck", "lookup", calls[p].id, calls[p].instances)
    <2>1. /\ calls' = [calls EXCEPT ![p] = new] /\ calls[p].pc = "delete"
          /\ UNCHANGED <<ecs, instanceCache, lastUpdate>>
        BY Zenon, <1>11 DEF DeleteInstanceFails, NewCall
    <2>2. "recheck" \in Op /\ "lookup" \in Pc \ {"delete"}
        BY Zenon DEF Op, Pc
    <2>3. new \in Call /\ new.id = calls[p].id /\ new.pc = "lookup" /\ CallOk(new, ecs)
        BY Zenon, <1>a, <2>2, NewCallOk, ForwardSame
    <2> HIDE DEF new
    <2> QED
        BY Zenon, <1>e, <2>1, <2>3
<1>12. CASE Forget(p)
    <2>1. /\ instanceCache' = [instanceCache EXCEPT ![calls[p].id] = NoEntry]
          /\ Goto(p, "ok") /\ UNCHANGED <<ecs, lastUpdate>> /\ calls[p].pc = "forget"
        BY Zenon, <1>12 DEF Forget
    <2>2. instanceCache' \in [Instance -> Entry]
        BY Zenon, <1>b, <2>1, NoEntryOk
    <2>3. ASSUME NEW i \in Instance PROVE EntryOk(instanceCache'[i], ecs[i])
        BY Zenon, <1>b, <2>1, NoEntryOk
    <2> QED
        BY Zenon, <1>b, <1>d, <2>1, <2>2, <2>3 DEF Pc
<1>13. CASE AddTags(p)
    <2>1. Goto(p, "list") \/ Goto(p, "notFound") \/ Goto(p, "error")
        BY Zenon, <1>13 DEF AddTags
    <2>2. calls[p].pc = "tag" /\ UNCHANGED <<ecs, instanceCache, lastUpdate>>
        BY Zenon, <1>13 DEF AddTags
    <2>3. calls[p].op # "none"
        BY Zenon, <1>a, <2>2 DEF CallOk
    <2> QED
        BY Zenon, <1>b, <1>d, <2>1, <2>2, <2>3 DEF Pc
<1> QED
    BY Zenon, <1>1, <1>2, <1>3, <1>4, <1>5, <1>6, <1>7, <1>8, <1>9, <1>10, <1>11, <1>12, <1>13,
              <1>14
    DEF ProviderStep

LEMMA StartOne ==
    ASSUME ProviderTypeOK, ProviderInv, NEW p \in Caller, NEW op \in Op \ {"none"}, NEW i \in Instance,
           NEW pc \in {"list", "lookup", "tag"}, pc = "lookup" => op \in {"get", "delete"},
           Start(p, op, pc, i)
    PROVE  /\ ProviderTypeOK' /\ ProviderInv' /\ UNCHANGED ecs
           /\ calls'[p].id = i /\ calls'[p].pc = pc /\ calls'[p].op = op
           /\ \A q \in Caller \ {p} : calls'[q] = calls[q]
<1> DEFINE new == NewCall(op, pc, i, NoInstances)
<1>1. UNCHANGED <<ecs, instanceCache, lastUpdate>> /\ calls' = [calls EXCEPT ![p] = new]
    BY Zenon DEF Start, NewCall
<1>2. pc \in Pc /\ "None" \in Status
    BY Zenon DEF Pc, Status
<1>3. /\ new \in Call /\ new.op = op /\ new.pc = pc /\ new.id = i /\ new.instances = NoInstances
    BY <1>2, NewCallType, NoInstancesType
<1> HIDE DEF new
<1>4. CallOk(new, ecs)
    BY Zenon, <1>3, NoInstancesType DEF CallOk, Behind
<1>5. OneCall(p, new)
    BY Zenon, <1>1, <1>3, <1>4, ForwardSame DEF OneCall, ProviderTypeOK, ProviderInv
<1> QED
    BY Zenon, <1>1, <1>3, <1>5, OneCallInv DEF ProviderTypeOK

LEMMA ReturnOne ==
    ASSUME ProviderTypeOK, ProviderInv, NEW p \in Caller, Return(p)
    PROVE  /\ ProviderTypeOK' /\ ProviderInv' /\ UNCHANGED ecs /\ calls'[p].pc = "idle"
           /\ \A q \in Caller \ {p} : calls'[q] = calls[q]
<1> DEFINE new == NoCall(calls[p].id)
<1>1. UNCHANGED <<ecs, instanceCache, lastUpdate>> /\ calls' = [calls EXCEPT ![p] = new]
    BY Zenon DEF Return
<1>2. calls[p].id \in Instance
    BY Zenon, CallFields DEF ProviderTypeOK
<1>3. new \in Call /\ new.pc = "idle" /\ CallOk(new, ecs)
    BY Zenon, <1>2, NoCallType
<1> HIDE DEF new
<1>4. OneCall(p, new)
    BY Zenon, <1>1, <1>3, ForwardSame DEF OneCall, ProviderTypeOK, ProviderInv
<1> QED
    BY Zenon, <1>1, <1>3, <1>4, OneCallInv DEF ProviderTypeOK

\* ECS alone moves on.
LEMMA EcsMoves ==
    ASSUME ProviderTypeOK, ProviderInv, NEW i \in Instance, NEW s \in Status, Forward(ecs[i], s),
           ecs' = [ecs EXCEPT ![i] = s], UNCHANGED <<instanceCache, lastUpdate, calls>>
    PROVE  /\ ProviderTypeOK' /\ ProviderInv' /\ ecs'[i] = s
           /\ \A j \in Instance \ {i} : ecs'[j] = ecs[j]
<1>1. ecs' \in [Instance -> Status] /\ \A j \in Instance : Forward(ecs[j], ecs'[j])
    BY Zenon, ForwardSame DEF ProviderTypeOK
<1>2. ASSUME NEW p \in Caller PROVE CallOk(calls'[p], ecs')
    BY Zenon, <1>1, CallForward DEF ProviderTypeOK, ProviderInv
<1>3. ASSUME NEW j \in Instance PROVE EntryOk(instanceCache'[j], ecs'[j])
    BY Zenon, <1>1, EntryForward DEF ProviderInv
<1>4. ProviderTypeOK'
    BY Zenon, <1>1 DEF ProviderTypeOK
<1> QED
    BY Zenon, <1>2, <1>3, <1>4 DEF ProviderInv, ProviderTypeOK

\* One tick less.
LEMMA ElapseType ==
    ASSUME NEW n \in Nat
    PROVE  Elapse(n) \in Nat /\ Elapse(n) <= n /\ (n > 0 => Elapse(n) = n - 1)
BY DEF Elapse

\* Entries of the cache that expire are not ahead either.
LEMMA TickCachesOk ==
    ASSUME ProviderTypeOK, ProviderInv, TickCaches
    PROVE  ProviderTypeOK' /\ ProviderInv' /\ UNCHANGED <<ecs, calls>>
<1>b. UNCHANGED <<ecs, calls>>
    BY Zenon DEF TickCaches
<1>1. ASSUME NEW i \in Instance PROVE instanceCache'[i] \in Entry /\ EntryOk(instanceCache'[i], ecs[i])
    <2>1. instanceCache[i] \in Entry /\ EntryOk(instanceCache[i], ecs[i])
        BY Zenon DEF ProviderTypeOK, ProviderInv
    <2>2. instanceCache[i].status \in Status /\ instanceCache[i].ttl \in Nat
        BY Zenon, <2>1 DEF Entry
    <2>3. CASE instanceCache[i].ttl <= 1
        BY Zenon, <2>3, NoEntryOk DEF TickCaches
    <2>4. CASE ~(instanceCache[i].ttl <= 1)
        <3>1. instanceCache'[i] = [status |-> instanceCache[i].status, ttl |-> instanceCache[i].ttl - 1]
            BY Zenon, <2>4 DEF TickCaches
        <3>2. instanceCache[i].ttl - 1 \in Nat /\ instanceCache[i].ttl > 0
            BY <2>2, <2>4
        <3>3. instanceCache'[i] \in Entry /\ instanceCache'[i].status = instanceCache[i].status
            BY <2>2, <3>1, <3>2, EntryType
        <3> QED
            BY Zenon, <2>1, <3>2, <3>3 DEF EntryOk
    <2> QED
        BY Zenon, <2>3, <2>4
<1>2. instanceCache' \in [Instance -> Entry]
    BY Zenon, <1>1 DEF TickCaches
<1>3. lastUpdate' \in Nat
    BY Zenon, ElapseType DEF TickCaches, ProviderTypeOK
<1> QED
    BY Zenon, <1>b, <1>1, <1>2, <1>3 DEF ProviderTypeOK, ProviderInv

\* No instance, no entry and no call at first.
LEMMA ProviderInitInv ==
    ASSUME ProviderInit
    PROVE  /\ ProviderTypeOK /\ ProviderInv
           /\ \A i \in Instance : ecs[i] = "None"
           /\ \A p \in Caller : calls[p].pc = "idle"
<1>1. \A p \in Caller : calls[p] \in Call /\ calls[p].pc = "idle" /\ CallOk(calls[p], ecs)
    BY NoCallType DEF ProviderInit
<1>2. calls \in [Caller -> Call] /\ ecs \in [Instance -> Status] /\ lastUpdate \in Nat
    BY Zenon, <1>1, NoInstancesType DEF ProviderInit
<1>3. instanceCache \in [Instance -> Entry] /\ \A i \in Instance : EntryOk(instanceCache[i], ecs[i])
    BY Zenon, NoEntryOk DEF ProviderInit
<1> QED
    BY Zenon, <1>1, <1>2, <1>3, NoInstancesType DEF ProviderInit, ProviderTypeOK, ProviderInv

-----------------------------------------------------------------------------
LEMMA Callers == "gc" \in Caller /\ "core" \in Caller /\ Instance \subseteq Caller
                 /\ "gc" \notin Instance /\ "core" \notin Instance
BY Zenon, CallerAssumption

LEMMA Delays == /\ Grace \in Nat /\ Granularity \in Nat /\ LaunchDelay \in Nat /\ CollectDelay \in Nat
                /\ MaxCrashes \in Nat
BY Zenon, DelayAssumption

\* How the NodeClaim of an instance changes after the launch.
ClaimMoves(from, to) ==
    \/ from = to
    \/ from = "launching" /\ to \in {"claimed", "gone"}
    \/ from = "claimed" /\ to = "deleting"
    \/ from \in {"deleting", "terminating"} /\ to \in {"terminating", "gone"}

\* As long as the collector takes no step, no instance is launched and no time
\* passes, its invariants stand.
LEMMA CollectorRests ==
    ASSUME TypeOK, ClaimInv, GcInv, WorkerInv, UNCHANGED <<launchLeft, age, early, gc>>,
           \A i \in Instance : ecs'[i] = "None" <=> ecs[i] = "None",
           \A i \in Instance : ClaimMoves(claim[i], claim'[i]),
           \A i \in Instance : calls'[i].pc # "idle" => calls[i].pc # "idle" /\ calls'[i].id = calls[i].id
    PROVE  ClaimInv' /\ GcInv' /\ WorkerInv'
<1>1. ClaimInv'
    BY Zenon DEF ClaimInv, ClaimMoves
<1>2. gc.managed \subseteq Instance /\ gc.known \subseteq Instance
    BY Zenon DEF TypeOK, GcState
<1>3. GcInv'
    BY <1>2 DEF GcInv, ClaimMoves, Resolved
<1>4. WorkerInv'
    BY DEF WorkerInv, Idle, ClaimMoves
<1> QED
    BY Zenon, <1>1, <1>3, <1>4

LEMMA CoreRests ==
    ASSUME CoreInv, calls["core"].id \in Instance, \A i \in Instance : claim'[i] = claim[i],
           calls'["core"].pc # "idle" => calls["core"].pc # "idle" /\ calls'["core"].id = calls["core"].id
    PROVE  CoreInv'
BY Zenon DEF CoreInv, Idle

\* The types that the provider has no part in.
ClaimTypes ==
    /\ claim \in [Instance -> ClaimState]
    /\ launchLeft \in [Instance -> 0 .. LaunchDelay]
    /\ age \in [Instance -> 0 .. Grace + 1]
    /\ early \in [Instance -> 0 .. Granularity]
    /\ nodes \in SUBSET Instance

\* The core's steps.
LEMMA CoreStep == IInv /\ CoreNext => IInv'
<1> SUFFICES ASSUME TypeOK, ProviderInv, ClaimInv, CoreInv, GcInv, WorkerInv, NEW i \in Instance,
                    \/ LaunchInstance(i) \/ RecordProviderID(i) \/ AbandonLaunch(i)
                    \/ RegisterNode(i) \/ DeleteClaim(i) \/ Terminate(i) \/ Terminated(i)
             PROVE  IInv'
    BY Zenon DEF CoreNext, IInv
<1>a. ProviderTypeOK /\ ClaimTypes /\ gc \in GcState /\ crashes \in 0 .. MaxCrashes
    BY Zenon DEF TypeOK, ClaimTypes
<1>b. calls["core"].id \in Instance
    BY Zenon, <1>a, Callers, CallFields DEF ProviderTypeOK
\* a step of the NodeClaim alone
<1>c. ASSUME NEW to \in ClaimState, claim' = [claim EXCEPT ![i] = to], ClaimMoves(claim[i], to),
             claim[i] \in {"launching", "claimed"},
             UNCHANGED <<providerVars, launchLeft, age, early, gc, crashes>>, nodes' \in SUBSET Instance
      PROVE  IInv'
    <2>1. ProviderTypeOK' /\ ProviderInv' /\ UNCHANGED <<ecs, calls>>
        BY Zenon, <1>a, <1>c DEF providerVars, ProviderTypeOK, ProviderInv
    <2>2. \A j \in Instance : claim'[j] = IF j = i THEN to ELSE claim[j]
        BY Zenon, <1>a, <1>c DEF ClaimTypes
    <2>3. \A j \in Instance : ClaimMoves(claim[j], claim'[j])
        BY Zenon, <1>c, <2>2 DEF ClaimMoves
    <2>4. ClaimTypes'
        BY Zenon, <1>a, <1>c DEF ClaimTypes
    <2>5. TypeOK'
        BY Zenon, <1>a, <1>c, <2>1, <2>4 DEF TypeOK, ClaimTypes
    <2>6. CoreInv'
        BY Zenon, <1>b, <1>c, <2>1, <2>2 DEF CoreInv, Idle
    <2>7. ClaimInv' /\ GcInv' /\ WorkerInv'
        BY Zenon, <1>c, <2>1, <2>3, CollectorRests
    <2> QED
        BY Zenon, <2>1, <2>5, <2>6, <2>7 DEF IInv
<1>1. CASE LaunchInstance(i)
    <2>1. PICK n \in 0 .. Granularity : /\ age' = [age EXCEPT ![i] = Cap(n)]
                                        /\ early' = [early EXCEPT ![i] = n]
        BY Zenon, <1>1 DEF LaunchInstance
    <2>2. /\ claim' = [claim EXCEPT ![i] = "launching"] /\ launchLeft' = [launchLeft EXCEPT ![i] = LaunchDelay]
          /\ ecs[i] = "None" /\ ecs' = [ecs EXCEPT ![i] = "Pending"]
          /\ UNCHANGED <<instanceCache, lastUpdate, calls, nodes, gc, crashes>>
        BY Zenon, <1>1 DEF LaunchInstance, Launch
    <2>3. "Pending" \in Status /\ Forward(ecs[i], "Pending")
        BY Zenon, <2>2 DEF Status, Forward
    <2>4. /\ ProviderTypeOK' /\ ProviderInv' /\ ecs'[i] = "Pending"
          /\ \A j \in Instance \ {i} : ecs'[j] = ecs[j]
        BY Zenon, <1>a, <2>2, <2>3, EcsMoves
    <2>5. Cap(n) \in 0 .. Grace + 1 /\ Cap(n) <= n
        BY Delays DEF Cap
    <2>6. LaunchDelay \in 0 .. LaunchDelay /\ "launching" \in ClaimState
        BY Delays DEF ClaimState
    <2>7. ClaimTypes'
        BY Zenon, <1>a, <2>1, <2>2, <2>5, <2>6 DEF ClaimTypes
    <2>8. TypeOK'
        BY Zenon, <1>a, <2>2, <2>4, <2>7 DEF TypeOK, ClaimTypes
    <2>9. /\ claim'[i] = "launching" /\ launchLeft'[i] = LaunchDelay /\ age'[i] = Cap(n) /\ early'[i] = n
          /\ \A j \in Instance \ {i} : /\ claim'[j] = claim[j] /\ launchLeft'[j] = launchLeft[j]
                                        /\ age'[j] = age[j] /\ early'[j] = early[j]
        BY Zenon, <1>a, <2>1, <2>2 DEF ClaimTypes
    <2>10. age'[i] + launchLeft'[i] <= early'[i] + LaunchDelay
        BY <2>5, <2>9, Delays
    <2>11. ClaimInv'
        BY Zenon, <2>4, <2>9, <2>10 DEF ClaimInv
    <2>12. claim[i] = "none"
        BY Zenon, <2>2 DEF ClaimInv
    <2>13. CoreInv'
        BY <1>b, <2>2, <2>9, <2>12 DEF CoreInv, Idle
    <2>14. i \notin gc.managed /\ gc.managed \subseteq Instance /\ gc.known \subseteq Instance
        BY Zenon, <1>a, <2>2 DEF GcInv, GcState
    <2>15. gc.pc \in {"claims", "nodes", "collect"} /\ i \in gc.known => gc.pc # "claims" /\ i \in gc.resolved
        BY Zenon, <2>12 DEF GcInv, Resolved
    <2>16. GcInv'
        <3>1. \A j \in gc.managed : /\ j # i /\ ecs'[j] = ecs[j] /\ claim'[j] = claim[j]
                                    /\ age'[j] = age[j] /\ early'[j] = early[j]
            BY Zenon, <2>4, <2>9, <2>14
        <3>2. gc.pc = "claims" => \A j \in gc.known : j # i /\ claim'[j] = claim[j]
            BY Zenon, <2>9, <2>14, <2>15
        <3>3. gc.pc = "claims" => \A j \in gc.known : claim'[j] = "gone" \/ j \in Resolved'
            BY Zenon, <2>14, <3>2 DEF GcInv, Resolved
        <3>4. gc.pc \in {"nodes", "collect"} => \A j \in gc.known : claim'[j] = "gone" \/ j \in gc.resolved
            BY Zenon, <2>9, <2>14, <2>15 DEF GcInv
        <3>5. gc' = gc
            BY Zenon, <2>2
        <3> QED
            BY <3>1, <3>3, <3>4, <3>5 DEF GcInv
    <2>17. Idle(i)
        BY Zenon, <2>2 DEF WorkerInv
    <2>18. WorkerInv'
        <3> SUFFICES ASSUME NEW j \in Instance, calls[j].pc # "idle"
                     PROVE  /\ gc.pc = "collect" /\ calls[j].id = j /\ ecs'[j] # "None"
                            /\ j \notin gc.known \/ claim'[j] = "gone"
                            /\ early'[j] + LaunchDelay + CollectDelay <= Grace => claim'[j] = "gone"
            BY Zenon, <2>2 DEF WorkerInv, Idle
        <3>1. j # i
            BY Zenon, <2>17 DEF Idle
        <3> QED
            BY <2>4, <2>9, <3>1 DEF WorkerInv, Idle
    <2> QED
        BY Zenon, <2>4, <2>8, <2>11, <2>13, <2>16, <2>18 DEF IInv
<1>2. CASE RecordProviderID(i)
    BY Zenon, <1>2, <1>a, <1>c DEF RecordProviderID, ClaimState, ClaimMoves, ClaimTypes
<1>3. CASE AbandonLaunch(i)
    BY Zenon, <1>3, <1>a, <1>c DEF AbandonLaunch, ClaimState, ClaimMoves, ClaimTypes
<1>4. CASE RegisterNode(i)
    <2>1. /\ UNCHANGED <<ecs, instanceCache, lastUpdate, calls, claim, launchLeft, age, early, gc, crashes>>
          /\ nodes' \in SUBSET Instance
        BY Zenon, <1>4, <1>a DEF RegisterNode, providerVars, ClaimTypes
    <2>2. ProviderTypeOK' /\ ProviderInv' /\ ClaimTypes'
        BY Zenon, <1>a, <2>1 DEF ProviderTypeOK, ProviderInv, ClaimTypes
    <2>3. TypeOK'
        BY Zenon, <1>a, <2>1, <2>2 DEF TypeOK, ClaimTypes
    <2>4. ClaimInv' /\ CoreInv' /\ GcInv' /\ WorkerInv'
        BY Zenon, <2>1 DEF ClaimInv, CoreInv, GcInv, WorkerInv, Idle, Resolved
    <2> QED
        BY Zenon, <2>2, <2>3, <2>4 DEF IInv
<1>5. CASE DeleteClaim(i)
    BY Zenon, <1>5, <1>a, <1>c DEF DeleteClaim, ClaimState, ClaimMoves, ClaimTypes
<1>6. CASE Terminate(i)
    <2>1. UNCHANGED <<claim, launchLeft, age, early, nodes, gc, crashes>> /\ claim[i] \in {"deleting", "terminating"}
        BY Zenon, <1>6 DEF Terminate, claimVars
    <2>2. /\ ProviderTypeOK' /\ ProviderInv' /\ UNCHANGED ecs /\ calls'["core"].id = i
          /\ \A q \in Caller \ {"core"} : calls'[q] = calls[q]
        <3>1. Start("core", "delete", "lookup", i) \/ Start("core", "get", "lookup", i)
            BY Zenon, <1>6 DEF Terminate, StartDelete, StartGet
        <3>2. "delete" \in Op \ {"none"} /\ "get" \in Op \ {"none"}
            BY Zenon DEF Op
        <3> QED
            BY Zenon, <1>a, <3>1, <3>2, StartOne, Callers
    <2>3. ClaimTypes' /\ TypeOK'
        BY Zenon, <1>a, <2>1, <2>2 DEF TypeOK, ClaimTypes
    <2>4. CoreInv'
        BY Zenon, <2>1, <2>2 DEF CoreInv
    <2>5. ClaimInv' /\ GcInv' /\ WorkerInv'
        BY Zenon, <2>1, <2>2, CollectorRests, Callers DEF ClaimMoves
    <2> QED
        BY Zenon, <2>2, <2>3, <2>4, <2>5 DEF IInv
<1>7. CASE Terminated(i)
    <2> DEFINE to == IF calls["core"].pc = "notFound" THEN "gone"
                     ELSE IF calls["core"].pc = "ok" THEN "terminating" ELSE claim[i]
    <2>1. /\ UNCHANGED <<launchLeft, age, early, nodes, gc, crashes>> /\ calls["core"].id = i
          /\ Return("core") /\ claim' = [claim EXCEPT ![i] = to]
        BY Zenon, <1>7 DEF Terminated
    <2>2. /\ ProviderTypeOK' /\ ProviderInv' /\ UNCHANGED ecs /\ calls'["core"].pc = "idle"
          /\ \A q \in Caller \ {"core"} : calls'[q] = calls[q]
        BY Zenon, <1>a, <2>1, ReturnOne, Callers
    <2>3. claim[i] \in {"deleting", "terminating"}
        BY Zenon, <2>1 DEF Return, Returned, CoreInv, Idle
    <2>4. to \in ClaimState /\ ClaimMoves(claim[i], to)
        BY Zenon, <2>3 DEF ClaimState, ClaimMoves
    <2> HIDE DEF to
    <2>5. \A j \in Instance : claim'[j] = IF j = i THEN to ELSE claim[j]
        BY Zenon, <1>a, <2>1 DEF ClaimTypes
    <2>6. \A j \in Instance : ClaimMoves(claim[j], claim'[j])
        BY Zenon, <2>4, <2>5 DEF ClaimMoves
    <2>7. ClaimTypes'
        BY Zenon, <1>a, <2>1, <2>4 DEF ClaimTypes
    <2>8. TypeOK'
        BY Zenon, <1>a, <2>1, <2>2, <2>7 DEF TypeOK, ClaimTypes
    <2>9. CoreInv'
        BY Zenon, <2>2 DEF CoreInv, Idle
    <2>10. ClaimInv' /\ GcInv' /\ WorkerInv'
        BY Zenon, <2>1, <2>2, <2>6, CollectorRests, Callers
    <2> QED
        BY Zenon, <2>2, <2>8, <2>9, <2>10 DEF IInv
<1> QED
    BY Zenon, <1>1, <1>2, <1>3, <1>4, <1>5, <1>6, <1>7

\* The steps of calls, and of ECS by itself.
LEMMA OthersStep == IInv /\ (CallNext \/ EnvironmentNext) => IInv'
<1> SUFFICES ASSUME TypeOK, ProviderInv, ClaimInv, CoreInv, GcInv, WorkerInv, CallNext \/ EnvironmentNext
             PROVE  IInv'
    BY Zenon DEF IInv
<1>a. ProviderTypeOK /\ ClaimTypes /\ gc \in GcState /\ crashes \in 0 .. MaxCrashes
    BY Zenon DEF TypeOK, ClaimTypes
<1>b. UNCHANGED <<claim, launchLeft, age, early, nodes, gc, crashes>>
    BY Zenon DEF CallNext, EnvironmentNext, claimVars
<1>1. /\ ProviderTypeOK' /\ ProviderInv'
      /\ \A i \in Instance : ecs'[i] = "None" <=> ecs[i] = "None"
      /\ \A q \in Caller : /\ calls'[q].pc # "idle" => calls[q].pc # "idle"
                           /\ calls'[q].id = calls[q].id
    <2>1. CASE CallNext
        <3>1. PICK p \in Caller : ProviderStep(p)
            BY Zenon, <2>1 DEF CallNext
        <3>2. PICK c : OneCall(p, c) /\ c.id = calls[p].id /\ c.pc # "idle" /\ calls[p].pc # "idle"
            BY Zenon, <1>a, <3>1, ProviderStepOne
        <3>3. ProviderTypeOK' /\ ProviderInv'
            BY Zenon, <1>a, <3>2, OneCallInv
        <3>4. \A i \in Instance : ecs'[i] = "None" <=> ecs[i] = "None"
            BY Zenon, <3>2 DEF OneCall, Forward
        <3>5. calls' = [calls EXCEPT ![p] = c]
            BY Zenon, <3>2 DEF OneCall
        <3> QED
            BY Zenon, <1>a, <3>2, <3>3, <3>4, <3>5 DEF ProviderTypeOK
    <2>2. CASE EnvironmentNext
        <3>1. PICK i \in Instance : Boot(i) \/ Stop(i) \/ Restart(i) \/ Release(i)
            BY Zenon, <2>2 DEF EnvironmentNext
        <3>2. PICK s \in {"Running", "Stopping", "Starting", "Released"} :
                  ecs' = [ecs EXCEPT ![i] = s] /\ ecs[i] # "None"
            BY Zenon, <3>1 DEF Boot, Stop, Restart, Release, Listed
        <3>3. UNCHANGED <<instanceCache, lastUpdate, calls>>
            BY Zenon, <3>1 DEF Boot, Stop, Restart, Release
        <3>4. s \in Status /\ Forward(ecs[i], s)
            BY Zenon DEF Status, Forward
        <3> QED
            BY Zenon, <1>a, <3>2, <3>3, <3>4, EcsMoves
    <2> QED
        BY Zenon, <2>1, <2>2
<1>2. TypeOK'
    BY Zenon, <1>a, <1>b, <1>1 DEF TypeOK, ClaimTypes
<1>3. CoreInv'
    BY Zenon, <1>a, <1>b, <1>1, CoreRests, Callers, CallFields DEF ProviderTypeOK
<1>4. ClaimInv' /\ GcInv' /\ WorkerInv'
    BY Zenon, <1>b, <1>1, CollectorRests, Callers DEF ClaimMoves
<1> QED
    BY Zenon, <1>1, <1>2, <1>3, <1>4 DEF IInv

\* The collector's records.
LEMMA GcFields ==
    ASSUME NEW g \in GcState
    PROVE  /\ g.pc \in {"idle", "list", "claims", "nodes", "collect", "requeued"} /\ g.left \in Nat
           /\ g.managed \subseteq Instance /\ g.resolved \subseteq Instance
           /\ g.nodes \subseteq Instance /\ g.known \subseteq Instance
BY Zenon DEF GcState

LEMMA NotCollectingType ==
    /\ NotCollecting \in GcState /\ NotCollecting.pc = "idle"
    /\ NotCollecting.known = {} /\ NotCollecting.managed = {}
BY Zenon DEF NotCollecting, GcState

LEMMA RequeuedType ==
    /\ Requeued \in GcState /\ Requeued.pc = "requeued" /\ Requeued.known = {} /\ Requeued.managed = {}
BY Zenon, NotCollectingType DEF Requeued, GcState

\* A collector that holds nothing, and whose workers are idle.
LEMMA GcRests ==
    ASSUME gc'.pc \notin {"claims", "nodes", "collect"}, gc'.known = {}, gc'.managed = {},
           \A i \in Instance : calls'[i].pc = "idle"
    PROVE  GcInv' /\ WorkerInv'
BY Zenon DEF GcInv, WorkerInv, Idle

\* The collector's own steps.
LEMMA GcStep == IInv /\ GcNext => IInv'
<1> SUFFICES ASSUME TypeOK, ProviderInv, ClaimInv, CoreInv, GcInv, WorkerInv, GcNext
             PROVE  IInv'
    BY Zenon DEF IInv
<1>a. ProviderTypeOK /\ ClaimTypes /\ gc \in GcState /\ crashes \in 0 .. MaxCrashes
    BY Zenon DEF TypeOK, ClaimTypes
<1>b. calls["core"].id \in Instance /\ calls["gc"].id \in Instance
    BY Zenon, <1>a, Callers, CallFields DEF ProviderTypeOK
\* what is left to show when neither the NodeClaims nor the core takes part
<1>c. ASSUME ProviderTypeOK', ProviderInv', UNCHANGED <<ecs, claim, launchLeft, age, early, crashes>>,
             calls'["core"] = calls["core"], nodes' \in SUBSET Instance, gc' \in GcState, GcInv', WorkerInv'
      PROVE  IInv'
    <2>1. TypeOK'
        BY Zenon, <1>a, <1>c DEF TypeOK, ClaimTypes
    <2>2. ClaimInv'
        BY Zenon, <1>c DEF ClaimInv
    <2>3. CoreInv'
        BY Zenon, <1>b, <1>c, CoreRests
    <2> QED
        BY Zenon, <1>c, <2>1, <2>2, <2>3 DEF IInv
\* and when the provider does not either
<1>d. ASSUME UNCHANGED <<providerVars, claimVars, crashes>>, gc' \in GcState, GcInv', WorkerInv'
      PROVE  IInv'
    <2>1. UNCHANGED <<ecs, instanceCache, lastUpdate, calls, claim, launchLeft, age, early, nodes, crashes>>
        BY Zenon, <1>d DEF providerVars, claimVars
    <2>2. ProviderTypeOK' /\ ProviderInv' /\ nodes' \in SUBSET Instance
        BY Zenon, <1>a, <2>1 DEF ProviderTypeOK, ProviderInv, ClaimTypes
    <2> QED
        BY Zenon, <1>c, <1>d, <2>1, <2>2
<1>e. gc.pc # "collect" => \A i \in Instance : calls[i].pc = "idle"
    BY Zenon DEF WorkerInv, Idle
<1>f. /\ gc.pc \in {"idle", "list", "claims", "nodes", "collect", "requeued"} /\ gc.left \in Nat
      /\ gc.managed \subseteq Instance /\ gc.resolved \subseteq Instance
      /\ gc.nodes \subseteq Instance /\ gc.known \subseteq Instance
    BY Zenon, <1>a, GcFields
<1>1. CASE GcStart
    <2>1. Start("gc", "list", "list", calls["gc"].id) /\ "list" \in Op \ {"none"}
        BY Zenon, <1>1 DEF GcStart, StartList, Op
    <2>2. /\ ProviderTypeOK' /\ ProviderInv' /\ UNCHANGED ecs
          /\ \A q \in Caller \ {"gc"} : calls'[q] = calls[q]
        BY Zenon, <1>a, <1>b, <2>1, StartOne, Callers
    <2>3. /\ gc.pc = "idle" /\ gc' = [NotCollecting EXCEPT !.pc = "list"]
          /\ UNCHANGED <<claim, launchLeft, age, early, nodes, crashes>>
        BY Zenon, <1>1 DEF GcStart, claimVars
    <2>4. gc' \in GcState /\ gc'.pc = "list" /\ gc'.known = {} /\ gc'.managed = {}
        BY Zenon, <2>3, NotCollectingType DEF GcState
    <2>5. GcInv' /\ WorkerInv'
        BY Zenon, <1>e, <2>2, <2>3, <2>4, GcRests, Callers
    <2> QED
        BY Zenon, <1>a, <1>c, <2>2, <2>3, <2>4, <2>5, Callers DEF ClaimTypes
<1>2. CASE GcListed
    <2> DEFINE managed == {i \in ListedInstances : ~Deleting(i)}
    <2>1. /\ gc.pc = "list" /\ Return("gc") /\ UNCHANGED <<claim, launchLeft, age, early, nodes, crashes>>
          /\ gc' = [gc EXCEPT !.pc = "claims", !.known = Resolved, !.managed = managed]
        BY Zenon, <1>2 DEF GcListed, claimVars
    <2>2. /\ ProviderTypeOK' /\ ProviderInv' /\ UNCHANGED ecs
          /\ \A q \in Caller \ {"gc"} : calls'[q] = calls[q]
        BY Zenon, <1>a, <2>1, ReturnOne, Callers
    <2>3. managed \subseteq Instance /\ Resolved \subseteq Instance
        BY Zenon DEF ListedInstances, Resolved
    <2>4. \A i \in managed : ecs[i] # "None"
        BY Zenon, Callers DEF ListedInstances, ProviderInv, CallOk, Behind
    <2> HIDE DEF managed
    <2>5. gc' \in GcState /\ gc'.pc = "claims" /\ gc'.known = Resolved /\ gc'.managed = managed
        BY Zenon, <1>a, <2>1, <2>3 DEF GcState
    <2>6. GcInv'
        BY Zenon, <2>1, <2>2, <2>4, <2>5 DEF GcInv, Resolved
    <2>7. WorkerInv'
        BY Zenon, <1>e, <2>1, <2>2, Callers DEF WorkerInv, Idle
    <2> QED
        BY Zenon, <1>a, <1>c, <2>1, <2>2, <2>5, <2>6, <2>7, Callers DEF ClaimTypes
<1>3. CASE GcListFails
    <2>1. /\ gc.pc = "list" /\ Return("gc") /\ UNCHANGED <<claim, launchLeft, age, early, nodes, crashes>>
          /\ gc' = Requeued
        BY Zenon, <1>3 DEF GcListFails, claimVars
    <2>2. /\ ProviderTypeOK' /\ ProviderInv' /\ UNCHANGED ecs
          /\ \A q \in Caller \ {"gc"} : calls'[q] = calls[q]
        BY Zenon, <1>a, <2>1, ReturnOne, Callers
    <2>3. GcInv' /\ WorkerInv'
        BY Zenon, <1>e, <2>1, <2>2, GcRests, RequeuedType, Callers
    <2> QED
        BY Zenon, <1>a, <1>c, <2>1, <2>2, <2>3, RequeuedType, Callers DEF ClaimTypes
<1>4. CASE GcListClaims
    <2>1. /\ gc.pc = "claims" /\ UNCHANGED <<providerVars, claimVars, crashes>>
          /\ gc' = [gc EXCEPT !.pc = "nodes", !.resolved = Resolved, !.left = CollectDelay]
        BY Zenon, <1>4 DEF GcListClaims
    <2>2. Resolved \subseteq Instance /\ CollectDelay \in Nat
        BY Zenon, Delays DEF Resolved
    <2>3. /\ gc' \in GcState /\ gc'.pc = "nodes" /\ gc'.known = gc.known /\ gc'.managed = gc.managed
          /\ gc'.resolved = Resolved /\ gc'.left = CollectDelay
        BY Zenon, <1>a, <2>1, <2>2 DEF GcState
    <2>4. UNCHANGED <<ecs, calls, claim, launchLeft, age, early>>
        BY Zenon, <2>1 DEF providerVars, claimVars
    <2>5. ASSUME NEW i \in gc.managed \ Resolved, claim[i] # "gone"
          PROVE  age[i] + CollectDelay <= early[i] + LaunchDelay + CollectDelay
        <3>1. i \in Instance /\ ecs[i] # "None"
            BY Zenon, <1>f DEF GcInv
        <3>2. claim[i] = "launching"
            BY Zenon, <1>a, <2>5, <3>1 DEF ClaimTypes, ClaimState, Resolved, ClaimInv
        <3>3. age[i] + launchLeft[i] <= early[i] + LaunchDelay
            BY Zenon, <3>1, <3>2 DEF ClaimInv
        <3>4. age[i] \in Nat /\ early[i] \in Nat /\ launchLeft[i] \in Nat
            BY <1>a, <3>1, Delays DEF ClaimTypes
        <3> QED
            BY <3>3, <3>4, Delays
    <2>6. GcInv'
        BY Zenon, <2>1, <2>3, <2>4, <2>5 DEF GcInv
    <2>7. WorkerInv'
        BY Zenon, <1>e, <2>1, <2>4 DEF WorkerInv, Idle
    <2> QED
        BY Zenon, <1>d, <2>1, <2>3, <2>6, <2>7
<1>10. CASE GcListNodes
    <2>1. /\ gc.pc = "nodes" /\ UNCHANGED <<providerVars, claimVars, crashes>>
          /\ gc' = [gc EXCEPT !.pc = "collect", !.nodes = nodes]
        BY Zenon, <1>10 DEF GcListNodes
    <2>2. nodes \subseteq Instance
        BY Zenon, <1>a DEF ClaimTypes
    <2>3. /\ gc' \in GcState /\ gc'.pc = "collect" /\ gc'.known = gc.known /\ gc'.managed = gc.managed
          /\ gc'.resolved = gc.resolved /\ gc'.left = gc.left
        BY Zenon, <1>a, <2>1, <2>2 DEF GcState
    <2>4. UNCHANGED <<ecs, calls, claim, age, early>>
        BY Zenon, <2>1 DEF providerVars, claimVars
    <2>5. GcInv'
        BY Zenon, <2>1, <2>3, <2>4 DEF GcInv
    <2>6. WorkerInv'
        BY Zenon, <1>e, <2>1, <2>4 DEF WorkerInv, Idle
    <2> QED
        BY Zenon, <1>d, <2>1, <2>3, <2>5, <2>6
<1>5. CASE GcKubeListFails
    <2>1. /\ gc.pc \in {"claims", "nodes"} /\ UNCHANGED <<providerVars, claimVars, crashes>>
          /\ gc' = Requeued
        BY Zenon, <1>5 DEF GcKubeListFails
    <2>2. GcInv' /\ WorkerInv'
        BY Zenon, <1>e, <2>1, GcRests, RequeuedType DEF providerVars
    <2> QED
        BY Zenon, <1>d, <2>1, <2>2, RequeuedType
<1>6. CASE GcDone
    <2>1. /\ UNCHANGED <<providerVars, claimVars, crashes>> /\ gc' = Requeued
          /\ \A i \in Instance : calls[i].pc = "idle"
        BY Zenon, <1>6 DEF GcDone, Idle
    <2>2. GcInv' /\ WorkerInv'
        BY Zenon, <2>1, GcRests, RequeuedType DEF providerVars
    <2> QED
        BY Zenon, <1>d, <2>1, <2>2, RequeuedType
<1>g. ASSUME NEW i \in Instance, gc' = [gc EXCEPT !.managed = gc.managed \ {i}],
             UNCHANGED <<ecs, claim, age, early>>
      PROVE  /\ gc' \in GcState /\ gc'.pc = gc.pc /\ gc'.known = gc.known /\ gc'.left = gc.left
             /\ GcInv'
    <2>1. /\ gc' \in GcState /\ gc'.pc = gc.pc /\ gc'.known = gc.known /\ gc'.resolved = gc.resolved
          /\ gc'.managed = gc.managed \ {i} /\ gc'.left = gc.left
        BY Zenon, <1>a, <1>f, <1>g DEF GcState
    <2> QED
        BY Zenon, <1>g, <2>1 DEF GcInv, Resolved
<1>7. ASSUME NEW i \in Instance, GcSkip(i) PROVE IInv'
    <2>1. UNCHANGED <<providerVars, claimVars, crashes>> /\ gc' = [gc EXCEPT !.managed = gc.managed \ {i}]
        BY Zenon, <1>7 DEF GcSkip
    <2>2. UNCHANGED <<ecs, calls, claim, age, early>>
        BY Zenon, <2>1 DEF providerVars, claimVars
    <2>3. gc' \in GcState /\ GcInv' /\ gc'.pc = gc.pc /\ gc'.known = gc.known
        BY Zenon, <1>g, <2>1, <2>2
    <2>4. WorkerInv'
        BY Zenon, <2>2, <2>3 DEF WorkerInv, Idle
    <2> QED
        BY Zenon, <1>d, <2>1, <2>3, <2>4
<1>8. ASSUME NEW i \in Instance, GcCollect(i) PROVE IInv'
    <2>1. /\ gc.pc = "collect" /\ i \in gc.managed /\ i \notin gc.resolved /\ age[i] > Grace
          /\ UNCHANGED <<claim, launchLeft, age, early, nodes, crashes>>
          /\ gc' = [gc EXCEPT !.managed = gc.managed \ {i}]
        BY Zenon, <1>8 DEF GcCollect, claimVars
    <2>2. Start(i, "delete", "lookup", i) /\ ecs[i] # "None" /\ "delete" \in Op \ {"none"}
        BY Zenon, <1>8 DEF GcCollect, StartDelete, Op
    <2>3. /\ ProviderTypeOK' /\ ProviderInv' /\ UNCHANGED ecs /\ calls'[i].id = i
          /\ \A q \in Caller \ {i} : calls'[q] = calls[q]
        BY Zenon, <1>a, <2>2, StartOne, Callers
    <2>4. gc' \in GcState /\ GcInv' /\ gc'.pc = gc.pc /\ gc'.known = gc.known
        BY Zenon, <1>g, <2>1, <2>3
    <2>5. i \notin gc.known \/ claim[i] = "gone"
        BY Zenon, <2>1 DEF GcInv
    <2>6. early[i] + LaunchDelay + CollectDelay <= Grace => claim[i] = "gone"
        <3>1. claim[i] # "gone" => age[i] + gc.left <= early[i] + LaunchDelay + CollectDelay
            BY Zenon, <2>1 DEF GcInv
        <3>2. age[i] \in Nat /\ early[i] \in Nat
            BY <1>a, Delays DEF ClaimTypes
        <3> QED
            BY <1>f, <2>1, <3>1, <3>2, Delays
    <2>7. WorkerInv'
        BY <2>1, <2>2, <2>3, <2>4, <2>5, <2>6, Callers DEF WorkerInv, Idle
    <2> QED
        BY Zenon, <1>a, <1>c, <2>1, <2>3, <2>4, <2>7, Callers DEF ClaimTypes
<1>9. ASSUME NEW i \in Instance, GcCollected(i) PROVE IInv'
    <2>1. Return(i) /\ UNCHANGED <<claim, launchLeft, age, early, gc, crashes>>
        BY Zenon, <1>9 DEF GcCollected
    <2>2. nodes' \in SUBSET Instance
        BY Zenon, <1>9, <1>a DEF GcCollected, ClaimTypes
    <2>3. /\ ProviderTypeOK' /\ ProviderInv' /\ UNCHANGED ecs /\ calls'[i].pc = "idle"
          /\ \A q \in Caller \ {i} : calls'[q] = calls[q]
        BY Zenon, <1>a, <2>1, ReturnOne, Callers
    <2>4. GcInv'
        BY Zenon, <2>1, <2>3 DEF GcInv, Resolved
    <2>5. WorkerInv'
        BY <2>1, <2>3, Callers DEF WorkerInv, Idle
    <2> QED
        BY Zenon, <1>a, <1>c, <2>1, <2>2, <2>3, <2>4, <2>5, Callers
<1> QED
    BY Zenon, <1>1, <1>2, <1>3, <1>4, <1>5, <1>6, <1>7, <1>8, <1>9, <1>10 DEF GcNext

LEMMA CrashStep == IInv /\ Crash => IInv'
<1> SUFFICES ASSUME TypeOK, ProviderInv, ClaimInv, Crash PROVE IInv'
    BY Zenon DEF IInv
<1>a. ProviderTypeOK /\ ClaimTypes /\ crashes \in 0 .. MaxCrashes
    BY Zenon DEF TypeOK, ClaimTypes
<1>1. \A p \in Caller : /\ calls'[p] \in Call /\ calls'[p].pc = "idle" /\ CallOk(calls'[p], ecs)
    BY Zenon, <1>a, CallFields, NoCallType DEF Crash, ProviderTypeOK
<1>2. calls' \in [Caller -> Call] /\ UNCHANGED <<ecs, launchLeft, age, early, nodes>>
    BY Zenon, <1>1 DEF Crash
<1>3. instanceCache' \in [Instance -> Entry] /\ \A i \in Instance : EntryOk(instanceCache'[i], ecs[i])
    BY Zenon, NoEntryOk DEF Crash
<1>4. lastUpdate' \in Nat /\ gc' = NotCollecting
    BY Zenon DEF Crash
<1>5. ProviderTypeOK' /\ ProviderInv'
    BY Zenon, <1>a, <1>1, <1>2, <1>3, <1>4 DEF ProviderTypeOK, ProviderInv
<1>6. \A i \in Instance : claim'[i] = IF claim[i] = "launching" THEN "gone" ELSE claim[i]
    BY Zenon DEF Crash
<1>7. claim' \in [Instance -> ClaimState]
    BY Zenon, <1>a DEF Crash, ClaimTypes, ClaimState
<1>8. crashes' \in 0 .. MaxCrashes
    BY <1>a, Delays DEF Crash
<1>9. TypeOK'
    BY Zenon, <1>a, <1>2, <1>4, <1>5, <1>7, <1>8, NotCollectingType DEF TypeOK, ClaimTypes
<1>10. ClaimInv'
    BY Zenon, <1>2, <1>6 DEF ClaimInv
<1>11. CoreInv' /\ GcInv' /\ WorkerInv'
    BY Zenon, <1>1, <1>4, NotCollectingType, GcRests, Callers DEF CoreInv, Idle
<1> QED
    BY Zenon, <1>5, <1>9, <1>10, <1>11 DEF IInv

LEMMA TickStep == IInv /\ Tick => IInv'
<1> SUFFICES ASSUME TypeOK, ProviderInv, ClaimInv, CoreInv, GcInv, WorkerInv, Tick PROVE IInv'
    BY Zenon DEF IInv
<1>a. ProviderTypeOK /\ ClaimTypes /\ gc \in GcState /\ crashes \in 0 .. MaxCrashes
    BY Zenon DEF TypeOK, ClaimTypes
<1>b. UNCHANGED <<ecs, calls, claim, early, nodes, crashes>>
    BY Zenon DEF Tick, TickCaches
<1>4. ProviderTypeOK' /\ ProviderInv'
    BY Zenon, <1>a, TickCachesOk DEF Tick
<1>5. ASSUME NEW i \in Instance
      PROVE  /\ launchLeft[i] \in 0 .. LaunchDelay /\ launchLeft'[i] = Elapse(launchLeft[i])
             /\ launchLeft'[i] \in 0 .. LaunchDelay
             /\ age[i] \in Nat /\ age'[i] \in 0 .. Grace + 1 /\ age'[i] <= age[i] + 1
             /\ early[i] \in Nat
    <2>1. launchLeft[i] \in 0 .. LaunchDelay /\ age[i] \in 0 .. Grace + 1 /\ early[i] \in 0 .. Granularity
        BY Zenon, <1>a DEF ClaimTypes
    <2>2. /\ launchLeft'[i] = Elapse(launchLeft[i])
          /\ age'[i] = IF ecs[i] = "None" THEN 0 ELSE Cap(age[i] + 1)
        BY Zenon DEF Tick
    <2>3. launchLeft'[i] \in 0 .. LaunchDelay
        BY <2>1, <2>2, Delays DEF Elapse
    <2>4. age'[i] \in 0 .. Grace + 1 /\ age'[i] <= age[i] + 1
        BY <2>1, <2>2, Delays DEF Cap
    <2> QED
        BY <2>1, <2>2, <2>3, <2>4, Delays
<1>6. ClaimTypes'
    BY Zenon, <1>a, <1>b, <1>5 DEF ClaimTypes, Tick
<1>7. ClaimInv'
    <2>1. ASSUME NEW i \in Instance, claim[i] = "launching"
          PROVE  age'[i] + launchLeft'[i] <= early[i] + LaunchDelay
        <3>1. launchLeft[i] > 0 /\ age[i] + launchLeft[i] <= early[i] + LaunchDelay
            BY Zenon, <2>1 DEF Tick, ClaimInv
        <3>2. launchLeft'[i] = launchLeft[i] - 1
            BY <1>5, <3>1, ElapseType, Delays
        <3> QED
            BY <1>5, <3>1, <3>2, Delays
    <2> QED
        BY Zenon, <1>b, <2>1 DEF ClaimInv
<1>8. CoreInv'
    BY Zenon, <1>b DEF CoreInv, Idle
<1>f. /\ gc.pc \in {"idle", "list", "claims", "nodes", "collect", "requeued"} /\ gc.left \in Nat
      /\ gc.managed \subseteq Instance /\ gc.known \subseteq Instance
    BY Zenon, <1>a, GcFields
<1>9. gc' \in GcState /\ GcInv' /\ WorkerInv'
    <2>1. CASE gc.pc = "requeued"
        <3>1. gc' = NotCollecting
            BY Zenon, <2>1 DEF Tick
        <3>2. \A i \in Instance : calls'[i].pc = "idle"
            BY Zenon, <1>b, <2>1 DEF WorkerInv, Idle
        <3> QED
            BY Zenon, <3>1, <3>2, NotCollectingType, GcRests
    <2>2. CASE gc.pc # "requeued"
        <3>1. gc' = [gc EXCEPT !.left = Elapse(gc.left)] /\ Elapse(gc.left) \in Nat
            BY Zenon, <1>f, <2>2, ElapseType DEF Tick
        <3>2. /\ gc' \in GcState /\ gc'.pc = gc.pc /\ gc'.known = gc.known /\ gc'.managed = gc.managed
              /\ gc'.resolved = gc.resolved /\ gc'.left = Elapse(gc.left)
            BY Zenon, <1>a, <3>1 DEF GcState
        <3>3. ASSUME gc.pc \in {"nodes", "collect"}, NEW i \in gc.managed \ gc.resolved, claim[i] # "gone"
              PROVE  age'[i] + gc'.left <= early[i] + LaunchDelay + CollectDelay
            <4>1. gc.left > 0 /\ age[i] + gc.left <= early[i] + LaunchDelay + CollectDelay
                BY Zenon, <3>3 DEF Tick, GcInv
            <4>2. gc'.left = gc.left - 1
                BY Zenon, <1>f, <3>2, <4>1, ElapseType
            <4>3. i \in Instance
                BY Zenon, <1>f
            <4> QED
                BY <1>5, <1>f, <4>1, <4>2, <4>3, Delays
        <3>4. GcInv'
            BY Zenon, <1>b, <3>2, <3>3 DEF GcInv, Resolved
        <3>5. WorkerInv'
            BY Zenon, <1>b, <3>2 DEF WorkerInv, Idle
        <3> QED
            BY Zenon, <3>2, <3>4, <3>5
    <2> QED
        BY Zenon, <2>1, <2>2
<1>10. TypeOK'
    BY Zenon, <1>a, <1>b, <1>4, <1>6, <1>9 DEF TypeOK, ClaimTypes
<1> QED
    BY Zenon, <1>4, <1>7, <1>8, <1>9, <1>10 DEF IInv

-----------------------------------------------------------------------------
LEMMA InitInv == Init => IInv
<1> SUFFICES ASSUME Init PROVE IInv
    OBVIOUS
<1>1. /\ ProviderTypeOK /\ ProviderInv
      /\ \A i \in Instance : ecs[i] = "None"
      /\ \A p \in Caller : calls[p].pc = "idle"
    BY Zenon, ProviderInitInv DEF Init
<1>5. \A i \in Instance : claim[i] = "none" /\ ecs[i] = "None"
    BY Zenon, <1>1 DEF Init
<1>6. ClaimTypes /\ crashes \in 0 .. MaxCrashes
    BY Delays DEF Init, ClaimTypes, ClaimState
<1>7. TypeOK
    BY Zenon, <1>1, <1>6, NotCollectingType DEF Init, TypeOK, ClaimTypes
<1>8. ClaimInv /\ CoreInv
    BY Zenon, <1>1, <1>5, Callers DEF ClaimInv, CoreInv, Idle
<1>9. GcInv /\ WorkerInv
    BY Zenon, <1>1, NotCollectingType, Callers DEF Init, GcInv, WorkerInv, Idle
<1> QED
    BY Zenon, <1>1, <1>7, <1>8, <1>9 DEF IInv

LEMMA InvStep == IInv /\ [Next]_vars => IInv'
<1> SUFFICES ASSUME IInv, [Next]_vars PROVE IInv'
    OBVIOUS
<1>1. CASE UNCHANGED vars
    <2>1. UNCHANGED <<ecs, instanceCache, lastUpdate, calls, claim, launchLeft, age, early, nodes, gc, crashes>>
        BY Zenon, <1>1 DEF vars, providerVars, claimVars
    <2> QED
        BY Zenon, <2>1 DEF IInv, TypeOK, ProviderTypeOK, ProviderInv, ClaimInv, CoreInv, GcInv, WorkerInv,
                           Idle, Resolved
<1> QED
    BY Zenon, <1>1, CoreStep, OthersStep, GcStep, CrashStep, TickStep DEF Next

\* The types hold, whatever the instances, delays and restarts.
THEOREM CollectorTypes == Spec => []TypeOK
<1>1. IInv => TypeOK
    BY Zenon DEF IInv
<1> QED
    BY <1>1, InitInv, InvStep, PTL DEF Spec

\* No call, of the collector or the core, asks ECS to delete an instance that has not
\* run yet, although the status that Delete checks comes from the cache and instances
\* are started again and rebooted.
THEOREM PendingIsNotDeleted == Spec => []DeleteNeverSeesPending
<1>1. IInv => DeleteNeverSeesPending
    BY Zenon DEF IInv, ProviderInv, CallOk, DeleteNeverSeesPending
<1> QED
    BY <1>1, InitInv, InvStep, PTL DEF Spec

\* Listing the NodeClaims after the instances spares every instance that had a
\* NodeClaim when the instances were listed and still has it.
THEOREM KnownSpared == Spec => []KnownInstancesAreSpared
<1>1. IInv => KnownInstancesAreSpared
    BY Zenon DEF IInv, WorkerInv, Idle, KnownInstancesAreSpared
<1> QED
    BY <1>1, InitInv, InvStep, PTL DEF Spec

\* The grace period protects a launch whose provider id is recorded late, for every
\* combination of delays that it covers.
THEOREM GraceSuffices == Spec => []GraceCoversLaunches
<1>1. IInv => GraceCoversLaunches
    BY Zenon DEF IInv, WorkerInv, Idle, GraceCoversLaunches, Resolved
<1> QED
    BY <1>1, InitInv, InvStep, PTL DEF Spec

-----------------------------------------------------------------------------
\* What is known of tags is what ECS has: no tag is ever removed.
TagsSound ==
    /\ \A i \in Instance : ecs[i] = "None" => tags[i] = {}
    /\ \A i \in Instance : cachedTags[i] \subseteq tags[i]
    /\ \A p \in Caller : \A i \in Instance : callTags[p][i] \subseteq tags[i]

\* The steps of CreateTags after AddTags.
Listing == {"list", "items", "describe", "store", "stamp", "resync"}

\* CreateTags is for the instance of Reconcile, and from the moment AddTags has
\* succeeded it has every tag.
CreatingTags ==
    LET c == calls["tagging"] IN
    /\ c.op = "tags" /\ c.id = tagger.id
    /\ c.pc \in {"tag", "ok", "notFound", "error"} \cup Listing
    /\ c.pc \in Listing \cup {"ok"} => tags[tagger.id] = Tag

\* The tags that Reconcile found missing make up for those the instance has, and
\* only its CreateTags adds tags.
TaggerInv ==
    /\ \A p \in Caller : calls[p].pc = "tag" => p = "tagging" /\ tagger.pc = "tags"
    /\ tagger.pc # "idle" => ecs[tagger.id] # "None"
    /\ tagger.pc \in {"create", "tags"} => Tag \subseteq tags[tagger.id] \cup tagger.missing
    /\ tagger.pc = "tags" => CreatingTags
    /\ tagger.pc = "patch" => tags[tagger.id] = Tag

AnnotatedInv ==
    \A i \in Instance : claims[i].annotated => ecs[i] # "None" /\ tags[i] = Tag

TagInv == TaggingTypeOK /\ ProviderInv /\ TagsSound /\ TaggerInv /\ AnnotatedInv

TaggerPc == {"idle", "get", "create", "tags", "patch"}

TagTypes ==
    /\ tags \in [Instance -> SUBSET Tag] /\ cachedTags \in [Instance -> SUBSET Tag]
    /\ callTags \in [Caller -> [Instance -> SUBSET Tag]]
    /\ claims \in [Instance -> TaggedClaim]
    /\ queue \subseteq Instance
    /\ tagger.pc \in TaggerPc /\ tagger.id \in Instance /\ tagger.missing \subseteq Tag

LEMMA TypesOfTags == TaggingTypeOK => ProviderTypeOK /\ TagTypes
BY Zenon DEF TaggingTypeOK, TagTypes, TaggerPc

\* A step of the provider keeps its method, except for a Delete that failed, never
\* leads to AddTags, and CreateTags lists and stores after AddTags.
LEMMA StepOfMethod ==
    ASSUME ProviderTypeOK, ProviderInv, NEW p \in Caller, ProviderStep(p)
    PROVE  LET c == calls[p] new == calls'[p] IN
           /\ new.pc # "tag"
           /\ c.pc = "tag" => new.op = c.op /\ new.pc \in {"list", "notFound", "error"}
           /\ c.op = "tags" /\ c.pc \in Listing =>
                new.op = "tags" /\ new.pc \in Listing \cup {"ok", "error"}
           /\ c.pc \notin {"ok", "notFound", "unsupported", "error", "idle"}
<1>a. calls \in [Caller -> Call] /\ calls[p] \in Call /\ CallOk(calls[p], ecs)
    BY Zenon DEF ProviderTypeOK, ProviderInv
<1>b. ASSUME NEW pc \in Pc, Goto(p, pc)
      PROVE  calls'[p].pc = pc /\ calls'[p].op = calls[p].op
    BY <1>a, <1>b DEF Goto
<1>1. CASE LookupHit(p)
    <2>1. calls'[p].pc = AfterFound(calls[p].op, instanceCache[calls[p].id].status)
        BY <1>a, <1>1 DEF LookupHit
    <2>2. calls[p].pc \in {"lookup", "reread"} /\ calls[p].op # "tags"
        BY Zenon, <1>1, <1>a DEF LookupHit, CallOk
    <2> QED
        BY Zenon, <2>1, <2>2 DEF AfterFound
<1>2. CASE LookupMiss(p)
    <2>1. calls[p].pc \in {"lookup", "reread"} /\ calls[p].op # "tags"
        BY Zenon, <1>2, <1>a DEF LookupMiss, CallOk
    <2>2. Goto(p, "list") \/ Goto(p, "notFound")
        BY Zenon, <1>2 DEF LookupMiss
    <2> QED
        BY Zenon, <1>b, <2>1, <2>2 DEF Pc
<1>14. CASE List(p)
    <2>1. calls[p].pc = "list" /\ (Goto(p, "items") \/ Goto(p, "describe"))
        BY Zenon, <1>14 DEF List
    <2> QED
        BY Zenon, <1>b, <2>1 DEF Pc, Listing
<1>3. CASE ListCached(p)
    <2>1. calls'[p].pc = AfterList(calls[p].op) /\ calls'[p].op = calls[p].op /\ calls[p].pc = "items"
        BY <1>a, <1>3 DEF ListCached
    <2> QED
        BY Zenon, <2>1 DEF AfterList, Listing
<1>4. CASE DescribeInstances(p)
    <2>1. calls'[p].pc = "store" /\ calls'[p].op = calls[p].op /\ calls[p].pc = "describe"
        BY <1>a, <1>4 DEF DescribeInstances
    <2> QED
        BY Zenon, <2>1 DEF Listing
<1>5. CASE DescribeInstancesFails(p)
    BY Zenon, <1>b, <1>5 DEF DescribeInstancesFails, Pc, Listing
<1>6. CASE ListStore(p)
    BY Zenon, <1>b, <1>6 DEF ListStore, Pc, Listing
<1>7. CASE ListStamp(p)
    <2>1. Goto(p, AfterList(calls[p].op)) /\ calls[p].pc = "stamp"
        BY Zenon, <1>7 DEF ListStamp
    <2> QED
        BY Zenon, <1>b, <2>1 DEF AfterList, Pc, Listing
<1>8. CASE Resync(p)
    <2>1. /\ calls[p].pc = "resync" /\ calls'[p].op = calls[p].op
          /\ calls'[p].pc = IF calls[p].op = "tags" THEN "ok" ELSE "reread"
        BY <1>a, <1>8 DEF Resync
    <2> QED
        BY Zenon, <2>1
<1>9. CASE DeleteInstance(p)
    BY Zenon, <1>b, <1>9 DEF DeleteInstance, Pc, Listing
<1>10. CASE DeleteInstanceNotFound(p)
    BY Zenon, <1>b, <1>10 DEF DeleteInstanceNotFound, Pc, Listing
<1>11. CASE DeleteInstanceFails(p)
    <2>1. calls'[p].pc = "lookup" /\ calls[p].pc = "delete"
        BY <1>a, <1>11 DEF DeleteInstanceFails
    <2> QED
        BY Zenon, <2>1 DEF Listing
<1>12. CASE Forget(p)
    BY Zenon, <1>b, <1>12 DEF Forget, Pc, Listing
<1>13. CASE AddTags(p)
    <2>1. calls[p].pc = "tag" /\ (Goto(p, "list") \/ Goto(p, "notFound") \/ Goto(p, "error"))
        BY Zenon, <1>13 DEF AddTags
    <2> QED
        BY Zenon, <1>b, <2>1 DEF Pc, Listing
<1> QED
    BY Zenon, <1>1, <1>2, <1>3, <1>4, <1>5, <1>6, <1>7, <1>8, <1>9, <1>10, <1>11, <1>12, <1>13,
              <1>14
    DEF ProviderStep

\* Tags that only grow, within Tag, stay complete where they were.
LEMMA CompleteTags ==
    ASSUME NEW before, NEW after, before \subseteq after, after \subseteq Tag, before = Tag
    PROVE  after = Tag
BY Zenon

\* A step of a call: the cache and the call get tags that ECS has, and AddTags adds
\* what is missing.
LEMMA CallStepTags == TagInv /\ (\E p \in Caller : CallStep(p)) => TagInv'
<1> SUFFICES ASSUME TaggingTypeOK, ProviderInv, TagsSound, TaggerInv, AnnotatedInv,
                    NEW p \in Caller, CallStep(p)
             PROVE  TagInv'
    BY Zenon DEF TagInv
<1>a. ProviderTypeOK /\ TagTypes
    BY Zenon, TypesOfTags
<1>b. ProviderStep(p) /\ CarryTags(p) /\ UNCHANGED <<claims, queue, tagger>>
    BY Zenon DEF CallStep
<1>1. PICK c : OneCall(p, c) /\ c.id = calls[p].id /\ c.pc # "idle" /\ calls[p].pc # "idle"
    BY Zenon, <1>a, <1>b, ProviderStepOne
<1>2. ProviderTypeOK' /\ ProviderInv'
    BY Zenon, <1>1, <1>a, OneCallInv
<1>3. /\ calls'[p] = c /\ calls'[p].id = calls[p].id /\ \A q \in Caller \ {p} : calls'[q] = calls[q]
      /\ \A i \in Instance : ecs'[i] = "None" <=> ecs[i] = "None"
    BY Zenon, <1>1, <1>a DEF OneCall, ProviderTypeOK, Forward
<1> DEFINE added == [tags EXCEPT ![calls[p].id] = @ \cup tagger.missing]
<1>4. calls[p].id \in Instance /\ added \in [Instance -> SUBSET Tag]
    <2>1. calls[p].id \in Instance
        BY Zenon, <1>a, CallFields DEF ProviderTypeOK
    <2> QED
        BY Zenon, <2>1, <1>a DEF TagTypes
<1>5. tags' \in {tags, added} /\ (calls[p].pc # "tag" => tags' = tags)
      /\ (calls[p].pc = "tag" /\ calls'[p].pc = "list" => tags' = added)
    <2>1. tags' \in CASE calls[p].pc = "tag" /\ calls'[p].pc = "list" -> {added}
                      [] calls[p].pc = "tag" /\ calls'[p].pc = "error" -> {tags, added}
                      [] OTHER -> {tags}
        BY Zenon, <1>b DEF CarryTags
    <2> HIDE DEF added
    <2>2. CASE calls[p].pc = "tag" /\ calls'[p].pc = "list"
        BY Zenon, <2>1, <2>2
    <2>3. CASE calls[p].pc = "tag" /\ calls'[p].pc = "error"
        BY Zenon, <2>1, <2>3
    <2>4. CASE ~(calls[p].pc = "tag" /\ calls'[p].pc \in {"list", "error"})
        BY Zenon, <2>1, <2>4
    <2> QED
        BY Zenon, <2>2, <2>3, <2>4
<1>6. tags' \in [Instance -> SUBSET Tag]
    BY Zenon, <1>4, <1>5, <1>a DEF TagTypes
<1>7. ASSUME NEW i \in Instance
      PROVE  tags[i] \subseteq tags'[i] /\ tags'[i] \subseteq Tag
    BY Zenon, <1>4, <1>5, <1>6, <1>a DEF TagTypes
<1>8. ASSUME NEW i \in Instance, ecs'[i] = "None" PROVE tags'[i] = {}
    <2>1. ecs[i] = "None" /\ tags[i] = {}
        BY Zenon, <1>3, <1>8 DEF TagsSound
    <2>2. CASE calls[p].pc = "tag"
        <3>1. calls[p].id # i
            BY Zenon, <2>1, <2>2, <1>b DEF TaggerInv, CreatingTags
        <3> QED
            BY Zenon, <2>1, <3>1, <1>4, <1>5, <1>a DEF TagTypes
    <2> QED
        BY Zenon, <2>1, <2>2, <1>5
<1> HIDE DEF added
<1>9. cachedTags' \in [Instance -> SUBSET Tag] /\ \A i \in Instance : cachedTags'[i] \subseteq tags'[i]
    <2>1. cachedTags' = [i \in Instance |->
              CASE calls[p].pc \in {"store", "resync"} /\ calls[p].instances[i] # "None" -> callTags[p][i]
                [] calls[p].pc = "forget" /\ i = calls[p].id -> {}
                [] OTHER -> cachedTags[i]]
        BY Zenon, <1>b DEF CarryTags
    <2>2. ASSUME NEW i \in Instance PROVE cachedTags'[i] \in {callTags[p][i], {}, cachedTags[i]}
        <3>1. CASE calls[p].pc \in {"store", "resync"} /\ calls[p].instances[i] # "None"
            BY Zenon, <2>1, <3>1
        <3>2. CASE calls[p].pc = "forget" /\ i = calls[p].id
            BY Zenon, <2>1, <3>2
        <3>3. CASE ~(calls[p].pc \in {"store", "resync"} /\ calls[p].instances[i] # "None")
                   /\ ~(calls[p].pc = "forget" /\ i = calls[p].id)
            BY Zenon, <2>1, <3>3
        <3> QED
            BY Zenon, <3>1, <3>2, <3>3
    <2>3. ASSUME NEW i \in Instance PROVE cachedTags'[i] \subseteq tags[i]
        BY Zenon, <2>2 DEF TagsSound
    <2>4. ASSUME NEW i \in Instance PROVE cachedTags'[i] \subseteq tags'[i] /\ cachedTags'[i] \in SUBSET Tag
        BY Zenon, <2>3, <1>7
    <2> QED
        BY Zenon, <2>1, <2>4
<1>10. /\ callTags' \in [Caller -> [Instance -> SUBSET Tag]]
       /\ \A q \in Caller : \A i \in Instance : callTags'[q][i] \subseteq tags'[i]
    <2>1. PICK view \in {cachedTags, tags, callTags[p], NoTags} : callTags' = [callTags EXCEPT ![p] = view]
        <3> DEFINE items == calls[p].pc = "items"
                   listed == calls[p].pc = "describe" /\ calls'[p].pc # "error"
                   hit == calls[p].pc \in {"lookup", "reread"} /\ calls'[p].pc = "ok"
                   stored == calls[p].pc = "resync"
                   view == CASE items -> cachedTags
                             [] listed -> tags
                             [] hit -> cachedTags
                             [] stored -> NoTags
                             [] OTHER -> callTags[p]
        <3>1. callTags' = [callTags EXCEPT ![p] = view]
            BY Zenon, <1>b DEF CarryTags
        <3>a. /\ items => ~listed /\ ~hit /\ ~stored
              /\ listed => ~hit /\ ~stored
              /\ hit => ~stored
            BY Zenon
        <3> HIDE DEF items, listed, hit, stored
        <3>2. view \in {cachedTags, tags, callTags[p], NoTags}
            <4>1. CASE items
                BY Zenon, <3>a, <4>1
            <4>2. CASE listed
                BY Zenon, <3>a, <4>2
            <4>3. CASE hit
                BY Zenon, <3>a, <4>3
            <4>4. CASE stored
                BY Zenon, <3>a, <4>4
            <4>5. CASE ~items /\ ~listed /\ ~hit /\ ~stored
                BY Zenon, <4>5
            <4> QED
                BY Zenon, <4>1, <4>2, <4>3, <4>4, <4>5
        <3> HIDE DEF view
        <3> QED
            BY Zenon, <3>1, <3>2
    <2>2. view \in [Instance -> SUBSET Tag] /\ \A i \in Instance : view[i] \subseteq tags[i]
        BY Zenon, <1>a, <2>1 DEF TagTypes, TagsSound, NoTags
    <2>3. callTags' \in [Caller -> [Instance -> SUBSET Tag]]
        BY Zenon, <1>a, <2>1, <2>2 DEF TagTypes
    <2>4. ASSUME NEW q \in Caller, NEW i \in Instance PROVE callTags'[q][i] \subseteq tags[i]
        BY Zenon, <1>a, <2>1, <2>2 DEF TagTypes, TagsSound
    <2> QED
        BY Zenon, <2>3, <2>4, <1>7
<1>11. TagsSound'
    BY Zenon, <1>8, <1>9, <1>10 DEF TagsSound
<1>12. AnnotatedInv'
    BY Zenon, <1>b, <1>3, <1>7, CompleteTags DEF AnnotatedInv
<1>13. TaggerInv'
    <2>1. ASSUME NEW q \in Caller, calls'[q].pc = "tag" PROVE q = "tagging" /\ tagger.pc = "tags"
        BY Zenon, <1>3, <1>a, <1>b, <2>1, StepOfMethod DEF TaggerInv
    <2>2. tagger.pc # "idle" => ecs'[tagger.id] # "None"
        BY Zenon, <1>3, <1>a DEF TaggerInv, TagTypes
    <2>3. tagger.pc \in {"create", "tags"} => Tag \subseteq tags'[tagger.id] \cup tagger.missing
        BY Zenon, <1>7, <1>a DEF TaggerInv, TagTypes
    <2>4. tagger.pc = "patch" => tags'[tagger.id] = Tag
        <3>1. tags[tagger.id] \subseteq tags'[tagger.id] /\ tags'[tagger.id] \subseteq Tag
            BY Zenon, <1>7, <1>a DEF TagTypes
        <3> QED
            BY Zenon, <3>1, CompleteTags DEF TaggerInv
    <2>5. ASSUME tagger.pc = "tags" PROVE CreatingTags'
        <3>1. CreatingTags /\ Tag \subseteq tags[tagger.id] \cup tagger.missing
            BY Zenon, <2>5 DEF TaggerInv
        <3>2. CASE p # "tagging"
            <4>1. calls'["tagging"] = calls["tagging"]
                BY Zenon, <1>3, <3>2, TaggingAssumption
            <4>2. tags[tagger.id] = Tag => tags'[tagger.id] = Tag
                BY Zenon, <1>7, <1>a, CompleteTags DEF TagTypes
            <4> QED
                BY Zenon, <1>b, <3>1, <4>1, <4>2 DEF CreatingTags
        <3>3. CASE p = "tagging"
            <4>1. calls[p].op = "tags" /\ calls[p].id = tagger.id
                BY Zenon, <3>1, <3>3 DEF CreatingTags
            <4>2. CASE calls[p].pc = "tag"
                <5>1. calls'[p].op = "tags" /\ calls'[p].pc \in {"list", "notFound", "error"}
                    BY Zenon, <1>a, <1>b, <4>1, <4>2, StepOfMethod
                <5>2. calls'[p].pc = "list" => tags'[tagger.id] = tags[tagger.id] \cup tagger.missing
                    BY Zenon, <1>4, <1>5, <1>a, <4>1, <4>2 DEF added, TagTypes
                <5>3. calls'[p].pc = "list" => tags'[tagger.id] = Tag
                    BY Zenon, <1>7, <1>a, <3>1, <5>2 DEF TagTypes
                <5> QED
                    BY Zenon, <1>b, <1>3, <3>3, <4>1, <5>1, <5>3 DEF CreatingTags, Listing
            <4>3. CASE calls[p].pc # "tag"
                <5>1. calls[p].pc \in Listing
                    BY Zenon, <1>a, <1>b, <3>1, <3>3, <4>3, StepOfMethod DEF CreatingTags
                <5>2. calls'[p].op = "tags" /\ calls'[p].pc \in Listing \cup {"ok", "error"}
                    BY Zenon, <1>a, <1>b, <4>1, <5>1, StepOfMethod
                <5>3. tags'[tagger.id] = Tag
                    BY Zenon, <1>5, <3>1, <3>3, <4>3, <5>1 DEF CreatingTags
                <5> QED
                    BY Zenon, <1>b, <1>3, <3>3, <4>1, <5>2, <5>3 DEF CreatingTags
            <4> QED
                BY Zenon, <4>2, <4>3
        <3> QED
            BY Zenon, <3>2, <3>3
    <2> QED
        BY Zenon, <1>b, <2>1, <2>2, <2>3, <2>4, <2>5 DEF TaggerInv
<1>14. TaggingTypeOK'
    BY Zenon, <1>b, <1>2, <1>6, <1>9, <1>10 DEF TaggingTypeOK
<1> QED
    BY Zenon, <1>2, <1>11, <1>12, <1>13, <1>14 DEF TagInv

TaggerState == [pc : TaggerPc, id : Instance, missing : SUBSET Tag]

\* The three ways in which a step changes Reconcile.
LEMMA TaggerGoesTo ==
    ASSUME TaggingTypeOK, NEW pc \in TaggerPc, tagger' = [tagger EXCEPT !.pc = pc]
    PROVE  /\ tagger' \in TaggerState /\ tagger'.pc = pc
           /\ tagger'.id = tagger.id /\ tagger'.missing = tagger.missing
<1>1. tagger \in TaggerState
    BY Zenon DEF TaggingTypeOK, TaggerState, TaggerPc
<1> QED
    BY <1>1 DEF TaggerState

LEMMA TaggerStarts ==
    ASSUME TaggingTypeOK, NEW pc \in TaggerPc, NEW i \in Instance,
           tagger' = [tagger EXCEPT !.pc = pc, !.id = i]
    PROVE  tagger' \in TaggerState /\ tagger'.pc = pc /\ tagger'.id = i
<1>1. tagger \in TaggerState
    BY Zenon DEF TaggingTypeOK, TaggerState, TaggerPc
<1> QED
    BY <1>1 DEF TaggerState

LEMMA TaggerGoesOn ==
    ASSUME TaggingTypeOK, NEW pc \in TaggerPc, NEW missing \in SUBSET Tag,
           tagger' = [tagger EXCEPT !.pc = pc, !.missing = missing]
    PROVE  /\ tagger' \in TaggerState /\ tagger'.pc = pc
           /\ tagger'.id = tagger.id /\ tagger'.missing = missing
<1>1. tagger \in TaggerState
    BY Zenon DEF TaggingTypeOK, TaggerState, TaggerPc
<1> QED
    BY <1>1 DEF TaggerState

\* What a step of Reconcile leaves alone, and what it has to establish.
LEMMA TaggerFrame ==
    ASSUME TagInv, ProviderTypeOK', ProviderInv', UNCHANGED <<ecs, tags, cachedTags>>,
           callTags' \in [Caller -> [Instance -> SUBSET Tag]],
           \A p \in Caller : \A i \in Instance : callTags'[p][i] \subseteq tags[i],
           tagger' \in TaggerState, queue' \subseteq Instance, TaggerInv',
           claims' \in [Instance -> TaggedClaim],
           \A i \in Instance : claims'[i].annotated =>
               claims[i].annotated \/ (ecs[i] # "None" /\ tags[i] = Tag)
    PROVE  TagInv'
<1>1. TagsSound'
    BY Zenon DEF TagInv, TagsSound
<1>2. AnnotatedInv'
    BY Zenon DEF TagInv, AnnotatedInv
<1>3. TaggingTypeOK'
    BY Zenon DEF TagInv, TaggingTypeOK, TaggerState, TaggerPc
<1> QED
    BY Zenon, <1>1, <1>2, <1>3 DEF TagInv

LEMMA ReconcileTags == TagInv /\ (\E i \in Instance : Reconcile(i)) => TagInv'
<1> SUFFICES ASSUME TagInv, NEW i \in Instance, Reconcile(i) PROVE TagInv'
    OBVIOUS
<1>a. TaggingTypeOK /\ ProviderTypeOK /\ ProviderInv /\ TagTypes /\ TaggerInv /\ TagsSound
    BY Zenon, TypesOfTags DEF TagInv
<1>b. /\ UNCHANGED <<tags, cachedTags, callTags, claims>> /\ queue' \subseteq Instance
      /\ tagger.pc = "idle"
    BY Zenon, <1>a DEF Reconcile, tagVars, TagTypes
<1>c. tagger \in TaggerState
    BY Zenon, <1>a DEF TaggingTypeOK, TaggerState, TaggerPc
<1>1. CASE IsTaggable(i)
    <2>1. ecs[i] # "None" /\ Start("tagging", "get", "lookup", i)
        BY Zenon, <1>1 DEF Reconcile, StartGet
    <2>2. "get" \in Op \ {"none"} /\ "get" \in TaggerPc
        BY Zenon DEF Op, TaggerPc
    <2>3. /\ ProviderTypeOK' /\ ProviderInv' /\ UNCHANGED ecs /\ calls'["tagging"].pc = "lookup"
          /\ \A q \in Caller \ {"tagging"} : calls'[q] = calls[q]
        BY Zenon, <1>a, <2>1, <2>2, StartOne, TaggingAssumption
    <2>4. tagger' \in TaggerState /\ tagger'.pc = "get" /\ tagger'.id = i
        <3>1. tagger' = [tagger EXCEPT !.pc = "get", !.id = i]
            BY Zenon, <1>1 DEF Reconcile
        <3> QED
            BY Zenon, <1>a, <2>2, <3>1, TaggerStarts
    <2>5. TaggerInv'
        BY Zenon, <1>a, <1>b, <2>1, <2>3, <2>4 DEF TaggerInv
    <2> QED
        BY Zenon, <1>a, <1>b, <2>3, <2>4, <2>5, TaggerFrame DEF TagTypes, TagsSound
<1>2. CASE ~IsTaggable(i)
    <2>1. UNCHANGED <<ecs, instanceCache, lastUpdate, calls, tagger>>
        BY Zenon, <1>2 DEF Reconcile, providerVars
    <2>2. ProviderTypeOK' /\ ProviderInv'
        BY Zenon, <1>a, <2>1 DEF ProviderTypeOK, ProviderInv
    <2>3. TaggerInv'
        BY Zenon, <1>a, <1>b, <2>1 DEF TaggerInv
    <2> QED
        BY Zenon, <1>a, <1>b, <1>c, <2>1, <2>2, <2>3, TaggerFrame DEF TagTypes, TagsSound
<1> QED
    BY Zenon, <1>1, <1>2

\* A call of Reconcile returns; what its next step needs is known then.
LEMMA ReturnsTags ==
    ASSUME TagInv, NEW pc \in {"get", "tags"}, NEW next \in {"create", "patch"},
           NEW missing \in SUBSET Tag, Returns(pc, next, missing),
           calls["tagging"].pc = "ok" =>
               IF next = "patch" THEN tags[tagger.id] = Tag
               ELSE Tag \subseteq tags[tagger.id] \cup missing
    PROVE  TagInv'
<1>a. TaggingTypeOK /\ ProviderTypeOK /\ ProviderInv /\ TagTypes /\ TaggerInv /\ TagsSound
    BY Zenon, TypesOfTags DEF TagInv
<1>b. /\ UNCHANGED <<tags, cachedTags, claims>> /\ tagger.pc = pc /\ Return("tagging")
      /\ callTags' = [callTags EXCEPT !["tagging"] = NoTags]
      /\ queue' \subseteq Instance
    BY Zenon, <1>a DEF Returns, TagTypes
<1>1. /\ ProviderTypeOK' /\ ProviderInv' /\ UNCHANGED ecs /\ calls'["tagging"].pc = "idle"
      /\ \A q \in Caller \ {"tagging"} : calls'[q] = calls[q]
    BY Zenon, <1>a, <1>b, ReturnOne, TaggingAssumption
<1>2. NoTags \in [Instance -> SUBSET Tag] /\ \A i \in Instance : NoTags[i] = {}
    BY Zenon DEF NoTags
<1>3. /\ callTags' \in [Caller -> [Instance -> SUBSET Tag]]
      /\ \A p \in Caller : \A i \in Instance : callTags'[p][i] \subseteq tags[i]
    BY Zenon, <1>a, <1>b, <1>2 DEF TagTypes, TagsSound
<1>4. "idle" \in TaggerPc /\ next \in TaggerPc /\ {} \in SUBSET Tag
    BY Zenon DEF TaggerPc
<1>5. ASSUME NEW q \in Caller PROVE calls'[q].pc # "tag"
    BY Zenon, <1>a, <1>1 DEF TaggerInv
<1>6. CASE calls["tagging"].pc = "ok"
    <2>1. tagger' = [tagger EXCEPT !.pc = next, !.missing = missing]
        BY Zenon, <1>6 DEF Returns
    <2>2. tagger' \in TaggerState /\ tagger'.pc = next /\ tagger'.id = tagger.id /\ tagger'.missing = missing
        BY Zenon, <1>4, <1>a, <2>1, TaggerGoesOn
    <2>3. TaggerInv'
        BY Zenon, <1>1, <1>5, <1>6, <1>a, <1>b, <2>2 DEF TaggerInv
    <2> QED
        BY Zenon, <1>1, <1>3, <1>a, <1>b, <2>2, <2>3, TaggerFrame DEF TagTypes
<1>7. CASE calls["tagging"].pc # "ok"
    <2>1. tagger' = [tagger EXCEPT !.pc = "idle", !.missing = {}]
        BY Zenon, <1>7 DEF Returns
    <2>2. tagger' \in TaggerState /\ tagger'.pc = "idle"
        BY Zenon, <1>4, <1>a, <2>1, TaggerGoesOn
    <2>3. TaggerInv'
        BY Zenon, <1>5, <2>2 DEF TaggerInv
    <2> QED
        BY Zenon, <1>1, <1>3, <1>a, <1>b, <2>2, <2>3, TaggerFrame DEF TagTypes
<1> QED
    BY Zenon, <1>6, <1>7

LEMMA TaggerNextTags == TagInv /\ TaggerNext => TagInv'
<1> SUFFICES ASSUME TagInv, TaggerNext PROVE TagInv'
    OBVIOUS
<1>a. TaggingTypeOK /\ ProviderTypeOK /\ ProviderInv /\ TagTypes /\ TaggerInv /\ TagsSound
    BY Zenon, TypesOfTags DEF TagInv
<1>1. CASE \E i \in Instance : Reconcile(i)
    BY Zenon, <1>1, ReconcileTags
<1>2. CASE GotInstance
    <2> DEFINE missing == Tag \ callTags["tagging"][tagger.id]
    <2>1. missing \in SUBSET Tag /\ callTags["tagging"][tagger.id] \subseteq tags[tagger.id]
        BY Zenon, <1>a, TaggingAssumption DEF TagTypes, TagsSound
    <2>2. tags[tagger.id] \subseteq Tag
        BY Zenon, <1>a DEF TagTypes
    <2>3. Tag \subseteq tags[tagger.id] \cup missing
        BY Zenon, <2>1
    <2>4. missing = {} => tags[tagger.id] = Tag
        BY Zenon, <2>1, <2>2
    <2>5. Returns("get", IF missing = {} THEN "patch" ELSE "create", missing)
        BY Zenon, <1>2 DEF GotInstance
    <2> HIDE DEF missing
    <2>6. CASE missing = {}
        <3>1. Returns("get", "patch", missing)
            BY Zenon, <2>5, <2>6
        <3> QED
            BY Zenon, <2>1, <2>4, <2>6, <3>1, ReturnsTags
    <2>7. CASE missing # {}
        <3>1. Returns("get", "create", missing)
            BY Zenon, <2>5, <2>7
        <3> QED
            BY Zenon, <2>1, <2>3, <3>1, ReturnsTags
    <2> QED
        BY Zenon, <2>6, <2>7
<1>3. CASE CreateTags
    <2>1. /\ tagger.pc = "create" /\ ecs[tagger.id] # "None"
          /\ Start("tagging", "tags", "tag", tagger.id)
          /\ tagger' = [tagger EXCEPT !.pc = "tags"]
          /\ UNCHANGED <<tags, cachedTags, callTags, claims, queue>>
        BY Zenon, <1>3 DEF CreateTags, StartCreateTags, tagVars
    <2>2. "tags" \in Op \ {"none"} /\ "tags" \in TaggerPc /\ tagger.id \in Instance
        BY Zenon, <1>a DEF Op, TaggerPc, TagTypes
    <2>3. /\ ProviderTypeOK' /\ ProviderInv' /\ UNCHANGED ecs
          /\ calls'["tagging"].id = tagger.id /\ calls'["tagging"].pc = "tag" /\ calls'["tagging"].op = "tags"
          /\ \A q \in Caller \ {"tagging"} : calls'[q] = calls[q]
        BY Zenon, <1>a, <2>1, <2>2, StartOne, TaggingAssumption
    <2>4. /\ tagger' \in TaggerState /\ tagger'.pc = "tags"
          /\ tagger'.id = tagger.id /\ tagger'.missing = tagger.missing
        BY Zenon, <1>a, <2>1, <2>2, TaggerGoesTo
    <2>5. CreatingTags'
        BY Zenon, <2>3, <2>4 DEF CreatingTags, Listing
    <2>6. TaggerInv'
        BY Zenon, <1>a, <2>1, <2>3, <2>4, <2>5 DEF TaggerInv
    <2> QED
        BY Zenon, <1>a, <2>1, <2>3, <2>4, <2>6, TaggerFrame DEF TagTypes, TagsSound
<1>4. CASE CreatedTags
    <2>1. Returns("tags", "patch", {})
        BY Zenon, <1>4 DEF CreatedTags
    <2>2. tagger.pc = "tags"
        BY Zenon, <2>1 DEF Returns
    <2>3. calls["tagging"].pc = "ok" => tags[tagger.id] = Tag
        BY Zenon, <1>a, <2>2 DEF TaggerInv, CreatingTags
    <2>4. {} \in SUBSET Tag
        BY Zenon
    <2> QED
        BY Zenon, <2>1, <2>3, <2>4, ReturnsTags
<1>5. CASE PatchAnnotations \/ PatchAnnotationsFails
    <2>1. /\ tagger.pc = "patch" /\ tagger' = [tagger EXCEPT !.pc = "idle"]
          /\ UNCHANGED <<ecs, instanceCache, lastUpdate, calls, tags, cachedTags, callTags>>
          /\ queue' \in {queue, queue \cup {tagger.id}}
          /\ claims' \in {claims, [claims EXCEPT ![tagger.id].annotated = TRUE]}
        BY Zenon, <1>5 DEF PatchAnnotations, PatchAnnotationsFails, tagVars, providerVars
    <2>2. ProviderTypeOK' /\ ProviderInv'
        BY Zenon, <1>a, <2>1 DEF ProviderTypeOK, ProviderInv
    <2>3. "idle" \in TaggerPc
        BY Zenon DEF TaggerPc
    <2>4. tagger' \in TaggerState /\ tagger'.pc = "idle"
        BY Zenon, <1>a, <2>1, <2>3, TaggerGoesTo
    <2>5. TaggerInv'
        BY Zenon, <1>a, <2>1, <2>4 DEF TaggerInv
    <2>6. tagger.id \in Instance /\ ecs[tagger.id] # "None" /\ tags[tagger.id] = Tag
        BY Zenon, <1>a, <2>1 DEF TaggerInv, TagTypes
    <2>7. ASSUME NEW i \in Instance
          PROVE  /\ claims'[i] \in TaggedClaim
                 /\ claims'[i].annotated => claims[i].annotated \/ (ecs[i] # "None" /\ tags[i] = Tag)
        <3>1. claims[i] \in TaggedClaim
            BY Zenon, <1>a DEF TagTypes
        <3>2. CASE claims'[i] = claims[i]
            BY Zenon, <3>1, <3>2
        <3>3. CASE claims'[i] # claims[i]
            <4>1. i = tagger.id /\ claims'[i] = [claims[i] EXCEPT !.annotated = TRUE]
                BY <1>a, <2>1, <3>3 DEF TagTypes
            <4>2. claims'[i] \in TaggedClaim
                BY <3>1, <4>1 DEF TaggedClaim
            <4> QED
                BY Zenon, <2>6, <4>1, <4>2
        <3> QED
            BY Zenon, <3>2, <3>3
    <2>8. claims' \in [Instance -> TaggedClaim]
        BY <1>a, <2>1, <2>7 DEF TagTypes
    <2>9. queue' \subseteq Instance
        BY Zenon, <1>a, <2>1, <2>6 DEF TagTypes
    <2> QED
        BY Zenon, <1>a, <2>1, <2>2, <2>4, <2>5, <2>7, <2>8, <2>9, TaggerFrame DEF TagTypes, TagsSound
<1> QED
    BY Zenon, <1>1, <1>2, <1>3, <1>4, <1>5 DEF TaggerNext

\* A launch sets the tags of an instance that nobody has seen.
LEMMA LaunchTags == TagInv /\ (\E i \in Instance : LaunchTagged(i)) => TagInv'
<1> SUFFICES ASSUME TagInv, NEW i \in Instance, LaunchTagged(i) PROVE TagInv'
    OBVIOUS
<1>a. /\ TaggingTypeOK /\ ProviderTypeOK /\ ProviderInv /\ TagTypes
      /\ TaggerInv /\ TagsSound /\ AnnotatedInv
    BY Zenon, TypesOfTags DEF TagInv
<1>b. PICK t \in SUBSET Tag : tags' = [tags EXCEPT ![i] = t]
    BY Zenon DEF LaunchTagged
<1>c. /\ UNCHANGED <<instanceCache, lastUpdate, calls, cachedTags, callTags, claims, queue, tagger>>
      /\ ecs[i] = "None" /\ ecs' = [ecs EXCEPT ![i] = "Pending"]
    BY Zenon DEF LaunchTagged, Launch
<1>1. "Pending" \in Status /\ Forward(ecs[i], "Pending")
    BY Zenon, <1>c DEF Status, Forward
<1>2. /\ ProviderTypeOK' /\ ProviderInv' /\ ecs'[i] = "Pending"
      /\ \A j \in Instance \ {i} : ecs'[j] = ecs[j]
    BY Zenon, <1>a, <1>c, <1>1, EcsMoves
<1>3. tags' \in [Instance -> SUBSET Tag] /\ \A j \in Instance \ {i} : tags'[j] = tags[j]
    BY Zenon, <1>a, <1>b DEF TagTypes
<1>4. tags[i] = {}
    BY Zenon, <1>a, <1>c DEF TagsSound
<1>5. TagsSound'
    <2>1. ASSUME NEW j \in Instance PROVE tags[j] \subseteq tags'[j]
        BY Zenon, <1>3, <1>4
    <2>2. ASSUME NEW j \in Instance, ecs'[j] = "None" PROVE tags'[j] = {}
        <3>1. j # i
            BY Zenon, <1>2, <2>2
        <3> QED
            BY Zenon, <1>a, <1>2, <1>3, <2>2, <3>1 DEF TagsSound
    <2>3. ASSUME NEW j \in Instance PROVE cachedTags'[j] \subseteq tags'[j]
        BY Zenon, <1>a, <1>c, <2>1 DEF TagsSound
    <2>4. ASSUME NEW p \in Caller, NEW j \in Instance PROVE callTags'[p][j] \subseteq tags'[j]
        BY Zenon, <1>a, <1>c, <2>1 DEF TagsSound
    <2> QED
        BY Zenon, <2>2, <2>3, <2>4 DEF TagsSound
<1>6. tagger.pc # "idle" => tagger.id \in Instance \ {i}
    BY Zenon, <1>a, <1>c DEF TaggerInv, TagTypes
<1>7. TaggerInv'
    <2>1. tagger.pc # "idle" => tags'[tagger.id] = tags[tagger.id] /\ ecs'[tagger.id] = ecs[tagger.id]
        BY Zenon, <1>2, <1>3, <1>6
    <2>2. tagger.pc = "tags" => CreatingTags'
        BY Zenon, <1>a, <1>c, <2>1 DEF TaggerInv, CreatingTags
    <2> QED
        BY Zenon, <1>a, <1>c, <2>1, <2>2 DEF TaggerInv
<1>8. AnnotatedInv'
    BY Zenon, <1>a, <1>c, <1>2, <1>3 DEF AnnotatedInv
<1>9. TaggingTypeOK'
    BY Zenon, <1>a, <1>c, <1>2, <1>3 DEF TaggingTypeOK
<1> QED
    BY Zenon, <1>2, <1>5, <1>7, <1>8, <1>9 DEF TagInv

\* Steps that change no tags and no step of Reconcile or of its calls.
LEMMA TagsRest ==
    ASSUME TagInv, ProviderTypeOK', ProviderInv', UNCHANGED <<tags, callTags, tagger>>,
           \A i \in Instance : ecs'[i] = "None" <=> ecs[i] = "None",
           calls'["tagging"] = calls["tagging"],
           \A p \in Caller : calls'[p].pc = "tag" => calls[p].pc = "tag",
           cachedTags' \in [Instance -> SUBSET Tag],
           \A i \in Instance : cachedTags'[i] \subseteq cachedTags[i],
           queue' \subseteq Instance, claims' \in [Instance -> TaggedClaim],
           \A i \in Instance : claims'[i].annotated = claims[i].annotated
    PROVE  TagInv'
<1>a. TaggingTypeOK /\ TagTypes /\ TaggerInv /\ TagsSound /\ AnnotatedInv
    BY Zenon, TypesOfTags DEF TagInv
<1>1. TagsSound'
    BY Zenon, <1>a DEF TagsSound
<1>2. AnnotatedInv'
    BY Zenon, <1>a DEF AnnotatedInv
<1>3. CreatingTags => CreatingTags'
    BY Zenon DEF CreatingTags
<1>4. TaggerInv'
    BY Zenon, <1>a, <1>3 DEF TaggerInv, TagTypes
<1>5. TaggingTypeOK'
    BY Zenon, <1>a DEF TaggingTypeOK
<1> QED
    BY Zenon, <1>1, <1>2, <1>4, <1>5 DEF TagInv

\* NodeClaims change, and their events arrive.
LEMMA ClaimTags ==
    ASSUME TagInv, NEW i \in Instance, NEW from,
           NEW to \in {"launched", "registered", "deleting", "gone"},
           ClaimEvent(i) \/ ClaimBecomes(i, from, to)
    PROVE  TagInv'
<1>a. TaggingTypeOK /\ ProviderTypeOK /\ ProviderInv /\ TagTypes
    BY Zenon, TypesOfTags DEF TagInv
<1>b. /\ UNCHANGED <<ecs, instanceCache, lastUpdate, calls, tags, cachedTags, callTags, tagger>>
      /\ queue' \in {queue, queue \cup {i}}
      /\ claims' \in {claims, [claims EXCEPT ![i].phase = to]}
    BY Zenon DEF ClaimEvent, ClaimBecomes, tagVars, providerVars
<1>1. ProviderTypeOK' /\ ProviderInv'
    BY Zenon, <1>a, <1>b DEF ProviderTypeOK, ProviderInv
<1>2. ASSUME NEW j \in Instance
      PROVE  claims'[j] \in TaggedClaim /\ claims'[j].annotated = claims[j].annotated
    <2>1. claims[j] \in TaggedClaim
        BY Zenon, <1>a DEF TagTypes
    <2>2. CASE claims'[j] = claims[j]
        BY Zenon, <2>1, <2>2
    <2>3. CASE claims'[j] # claims[j]
        <3>1. claims'[j] = [claims[j] EXCEPT !.phase = to]
            BY <1>a, <1>b, <2>3 DEF TagTypes
        <3> QED
            BY <2>1, <3>1 DEF TaggedClaim
    <2> QED
        BY Zenon, <2>2, <2>3
<1>3. claims' \in [Instance -> TaggedClaim]
    BY <1>a, <1>b, <1>2 DEF TagTypes
<1>4. queue' \subseteq Instance
    BY Zenon, <1>a, <1>b DEF TagTypes
<1> QED
    BY Zenon, <1>a, <1>b, <1>1, <1>2, <1>3, <1>4, TagsRest DEF TagTypes

\* The other users of the provider call it and return from it.
LEMMA OtherCallTags == TagInv /\ (\E p \in Caller : OtherCall(p)) => TagInv'
<1> SUFFICES ASSUME TagInv, NEW p \in Caller, OtherCall(p) PROVE TagInv'
    OBVIOUS
<1>a. TaggingTypeOK /\ ProviderTypeOK /\ ProviderInv /\ TagTypes /\ TagsSound
    BY Zenon, TypesOfTags DEF TagInv
<1>b. UNCHANGED <<tags, cachedTags, claims, queue, tagger>> /\ p # "tagging"
    BY Zenon DEF OtherCall
<1>c. calls[p].id \in Instance
    BY Zenon, <1>a, CallFields DEF ProviderTypeOK
<1>1. CASE UNCHANGED callTags /\ \E i \in Instance, op \in {"list", "get", "delete"} :
               Start(p, op, IF op = "list" THEN "list" ELSE "lookup", i)
    <2>1. PICK i \in Instance, op \in {"list", "get", "delete"} :
              Start(p, op, IF op = "list" THEN "list" ELSE "lookup", i)
        BY Zenon, <1>1
    <2> DEFINE pc == IF op = "list" THEN "list" ELSE "lookup"
    <2>2. op \in Op \ {"none"} /\ pc \in {"list", "lookup", "tag"} /\ pc # "tag"
          /\ (pc = "lookup" => op \in {"get", "delete"})
        BY Zenon DEF Op
    <2> HIDE DEF pc
    <2>3. Start(p, op, pc, i)
        BY Zenon, <2>1 DEF pc
    <2>4. /\ ProviderTypeOK' /\ ProviderInv' /\ UNCHANGED ecs /\ calls'[p].pc = pc
          /\ \A q \in Caller \ {p} : calls'[q] = calls[q]
        <3>1. CASE pc = "list"
            BY Zenon, <1>a, <2>2, <2>3, <3>1, StartOne
        <3>2. CASE pc = "lookup"
            BY Zenon, <1>a, <2>2, <2>3, <3>2, StartOne
        <3> QED
            BY Zenon, <2>2, <3>1, <3>2
    <2>5. calls'["tagging"] = calls["tagging"] /\ \A q \in Caller : calls'[q].pc = "tag" => calls[q].pc = "tag"
        BY Zenon, <1>b, <2>2, <2>4, TaggingAssumption
    <2> QED
        BY Zenon, <1>1, <1>a, <1>b, <2>4, <2>5, TagsRest DEF TagTypes
<1>2. CASE Return(p) /\ callTags' = [callTags EXCEPT ![p] = NoTags]
    <2>1. /\ ProviderTypeOK' /\ ProviderInv' /\ UNCHANGED ecs /\ calls'[p].pc = "idle"
          /\ \A q \in Caller \ {p} : calls'[q] = calls[q]
        BY Zenon, <1>2, <1>a, ReturnOne
    <2>2. calls'["tagging"] = calls["tagging"] /\ \A q \in Caller : calls'[q].pc = "tag" => calls[q].pc = "tag"
        BY Zenon, <1>b, <2>1, TaggingAssumption
    <2>3. NoTags \in [Instance -> SUBSET Tag] /\ \A i \in Instance : NoTags[i] = {}
        BY Zenon DEF NoTags
    <2>4. /\ callTags' \in [Caller -> [Instance -> SUBSET Tag]]
          /\ \A q \in Caller : \A i \in Instance : callTags'[q][i] \subseteq tags[i]
        BY Zenon, <1>2, <1>a, <2>3 DEF TagTypes, TagsSound
    <2>5. tagger' \in TaggerState
        BY Zenon, <1>a, <1>b DEF TaggingTypeOK, TaggerState, TaggerPc
    <2>6. TaggerInv'
        BY Zenon, <1>b, <2>1, <2>2 DEF TagInv, TaggerInv, CreatingTags
    <2> QED
        BY Zenon, <1>a, <1>b, <2>1, <2>4, <2>5, <2>6, TaggerFrame DEF TagTypes
<1> QED
    BY Zenon, <1>1, <1>2, <1>c DEF OtherCall, StartList, StartGet, StartDelete

\* Entries expire, and instances boot, stop and are released.
LEMMA TickAndEcsTags ==
    ASSUME TagInv,
           TickTags \/ \E i \in Instance : (Boot(i) \/ Stop(i) \/ Restart(i) \/ Release(i)) /\ UNCHANGED controllerVars
    PROVE  TagInv'
<1>a. TaggingTypeOK /\ ProviderTypeOK /\ ProviderInv /\ TagTypes
    BY Zenon, TypesOfTags DEF TagInv
<1>1. CASE TickTags
    <2>1. /\ TickCaches /\ UNCHANGED <<tags, callTags, claims, queue, tagger>>
          /\ cachedTags' = [i \in Instance |-> IF instanceCache'[i].ttl = 0 THEN {} ELSE cachedTags[i]]
        BY Zenon, <1>1 DEF TickTags
    <2>2. ProviderTypeOK' /\ ProviderInv' /\ UNCHANGED <<ecs, calls>>
        BY Zenon, <1>a, <2>1, TickCachesOk
    <2>3. ASSUME NEW i \in Instance
          PROVE  cachedTags'[i] \subseteq cachedTags[i] /\ cachedTags'[i] \in SUBSET Tag
        <3>1. cachedTags'[i] \in {{}, cachedTags[i]}
            BY Zenon, <2>1
        <3> QED
            BY Zenon, <1>a, <3>1 DEF TagTypes
    <2>4. cachedTags' \in [Instance -> SUBSET Tag]
        BY Zenon, <2>1, <2>3
    <2> QED
        BY Zenon, <1>a, <2>1, <2>2, <2>3, <2>4, TagsRest DEF TagTypes
<1>2. ASSUME NEW i \in Instance, Boot(i) \/ Stop(i) \/ Restart(i) \/ Release(i), UNCHANGED controllerVars
      PROVE  TagInv'
    <2>1. UNCHANGED <<instanceCache, lastUpdate, calls, tags, cachedTags, callTags, claims, queue, tagger>>
        BY Zenon, <1>2 DEF Boot, Stop, Restart, Release, controllerVars, tagVars
    <2>2. PICK s \in {"Running", "Stopping", "Starting", "Released"} :
              ecs' = [ecs EXCEPT ![i] = s] /\ ecs[i] \in Listed
        BY Zenon, <1>2 DEF Boot, Stop, Restart, Release, Listed
    <2>3. s \in Status /\ Forward(ecs[i], s) /\ ecs[i] # "None"
        BY Zenon, <2>2 DEF Status, Forward, Listed
    <2>4. /\ ProviderTypeOK' /\ ProviderInv' /\ ecs'[i] = s
          /\ \A j \in Instance \ {i} : ecs'[j] = ecs[j]
        BY Zenon, <1>a, <2>1, <2>2, <2>3, EcsMoves
    <2>5. \A j \in Instance : ecs'[j] = "None" <=> ecs[j] = "None"
        BY Zenon, <2>3, <2>4
    <2> QED
        BY Zenon, <1>a, <2>1, <2>4, <2>5, TagsRest DEF TagTypes
<1> QED
    BY Zenon, <1>1, <1>2

LEMMA TagInitInv == TaggingInit => TagInv
<1> SUFFICES ASSUME TaggingInit PROVE TagInv
    OBVIOUS
<1>1. /\ ProviderTypeOK /\ ProviderInv /\ \A i \in Instance : ecs[i] = "None"
      /\ \A p \in Caller : calls[p].pc = "idle"
    BY Zenon, ProviderInitInv DEF TaggingInit
<1>2. NoTags \in [Instance -> SUBSET Tag] /\ \A i \in Instance : NoTags[i] = {}
    BY Zenon DEF NoTags
<1>3. TagsSound
    BY Zenon, <1>2 DEF TaggingInit, TagsSound
<1>4. PICK i \in Instance : tagger = [pc |-> "idle", id |-> i, missing |-> {}]
    BY Zenon DEF TaggingInit
<1>5. tagger \in TaggerState /\ tagger.pc = "idle"
    BY <1>4 DEF TaggerState, TaggerPc
<1>6. TaggerInv
    BY Zenon, <1>1, <1>5 DEF TaggerInv
<1>7. claims \in [Instance -> TaggedClaim] /\ \A j \in Instance : ~claims[j].annotated
    BY DEF TaggingInit, TaggedClaim
<1>8. AnnotatedInv
    BY Zenon, <1>7 DEF AnnotatedInv
<1>9. TaggingTypeOK
    <2>1. callTags \in [Caller -> [Instance -> SUBSET Tag]] /\ queue \subseteq Instance
        BY Zenon, <1>2 DEF TaggingInit
    <2> QED
        BY Zenon, <1>1, <1>2, <1>5, <1>7, <2>1 DEF TaggingInit, TaggingTypeOK, TaggerState, TaggerPc
<1> QED
    BY Zenon, <1>1, <1>3, <1>6, <1>8, <1>9 DEF TagInv

LEMMA TagInvStep == TagInv /\ [TaggingNext]_taggingVars => TagInv'
<1> SUFFICES ASSUME TagInv, [TaggingNext]_taggingVars PROVE TagInv'
    OBVIOUS
<1>1. CASE UNCHANGED taggingVars
    <2>1. UNCHANGED <<ecs, instanceCache, lastUpdate, calls, tags, cachedTags, callTags, claims, queue, tagger>>
        BY Zenon, <1>1 DEF taggingVars, providerVars, controllerVars, tagVars
    <2> QED
        BY Zenon, <2>1 DEF TagInv, TaggingTypeOK, ProviderTypeOK, ProviderInv, TagsSound, TaggerInv,
                           CreatingTags, AnnotatedInv
<1>2. ASSUME NEW i \in Instance,
             \/ ClaimEvent(i) \/ ClaimBecomes(i, {"launched"}, "registered")
             \/ ClaimBecomes(i, {"launched", "registered"}, "deleting")
             \/ ClaimBecomes(i, {"deleting"}, "gone")
      PROVE  TagInv'
    BY Zenon, <1>2, ClaimTags
<1> QED
    BY Zenon, <1>1, <1>2, TaggerNextTags, CallStepTags, OtherCallTags, LaunchTags, TickAndEcsTags
    DEF TaggingNext

\* A NodeClaim is annotated as tagged only when its instance has every tag, for any
\* tags, instances, other users of the provider and failures of its calls, although
\* Reconcile compares with tags from the cache and every request may fail halfway.
THEOREM AnnotatedTagged == TaggingSpec => []AnnotatedIsTagged
<1>1. TagInv => AnnotatedIsTagged
    BY Zenon DEF TagInv, AnnotatedInv, AnnotatedIsTagged
<1> QED
    BY <1>1, TagInitInv, TagInvStep, PTL DEF TaggingSpec

\* Beside the tagging controller, too, no user of the provider asks ECS to delete an
\* instance that has not run yet, whoever calls Get, List, Delete and CreateTags
\* concurrently.
THEOREM PendingIsNotDeletedByOthers == TaggingSpec => []DeleteNeverSeesPending
<1>1. TagInv => DeleteNeverSeesPending
    BY Zenon DEF TagInv, ProviderInv, CallOk, DeleteNeverSeesPending
<1> QED
    BY <1>1, TagInitInv, TagInvStep, PTL DEF TaggingSpec

=============================================================================
