------------------------ MODULE InstanceTypesProofs -------------------------
(***************************************************************************)
(* The instance type cache, for any number of types, zones, callers,       *)
(* listers and NodeClasses: its types are right, a List honours the marks  *)
(* and evictions completed before it began, and it reports the types and   *)
(* the on-demand stock of the last refresh.                                *)
(***************************************************************************)
EXTENDS InstanceTypes, TLAPS

\* Every step of the unavailable offerings preserves their types.
LEMMA UnavailableTypeStep ==
    UnavailableTypeOK /\ UnavailableNext => UnavailableTypeOK'
<1> SUFFICES ASSUME UnavailableTypeOK, UnavailableNext
             PROVE  UnavailableTypeOK'
  OBVIOUS
<1> USE DEF UnavailableTypeOK, EntryState, CallerState, Idle, Settlement
<1>1. ASSUME NEW c \in Caller, NEW o \in Offering, MarkSet(c, o)
      PROVE  UnavailableTypeOK'
  BY Zenon, <1>1 DEF MarkSet, Unsettle
<1>2. ASSUME NEW c \in Caller, MarkBump(c)
      PROVE  UnavailableTypeOK'
  BY <1>2 DEF MarkBump, Settle
<1>3. ASSUME NEW c \in Caller, FlushCache(c)
      PROVE  UnavailableTypeOK'
  BY Zenon, <1>3 DEF FlushCache
<1>4. ASSUME NEW c \in Caller, FlushBump(c)
      PROVE  UnavailableTypeOK'
  BY <1>4 DEF FlushBump
<1>5. ASSUME NEW o \in Offering, Expire(o)
      PROVE  UnavailableTypeOK'
  BY Zenon, <1>5 DEF Expire, Unsettle
<1>6. ASSUME NEW o \in Offering, OnEvicted(o)
      PROVE  UnavailableTypeOK'
  BY <1>6 DEF OnEvicted, Settle
<1>7. CASE JanitorSweep
  BY Zenon, <1>7 DEF JanitorSweep
<1>8. QED
  BY Zenon, <1>1, <1>2, <1>3, <1>4, <1>5, <1>6, <1>7 DEF UnavailableNext

\* The key and the record of a List in progress have their types.
LEMMA CacheKeyType ==
    ASSUME TypeOK, NEW nc \in NodeClass
    PROVE  CacheKey(nc) \in Key
BY Zenon, NodeClassAssumption DEF TypeOK, UnavailableTypeOK, CacheKey, Key

\* By the step a List is at, the shape of its record.
LEMMA ListShape ==
    ASSUME TypeOK, NEW l \in Lister
    PROVE  /\ lists[l] # NotListing <=> lists[l].pc \in {"lookup", "build", "done"}
           /\ lists[l].pc = "lookup" => lists[l] \in
                 [pc : {"lookup"}, nodeClass : NodeClass, key : Key,
                  before : [Offering -> Settlement]]
           /\ lists[l].pc = "build" => lists[l] \in
                 [pc : {"build"}, nodeClass : NodeClass, key : Key,
                  before : [Offering -> Settlement],
                  todo : SUBSET Offering, result : Result]
           /\ lists[l].pc = "done" => lists[l] \in
                 [pc : {"done"}, nodeClass : NodeClass, key : Key,
                  before : [Offering -> Settlement], result : Result]
BY DEF TypeOK, ListState, NotListing

\* A record that List builds or returns has its type.
LEMMA BuildingType ==
    ASSUME NEW nc \in NodeClass, NEW k \in Key, NEW b \in [Offering -> Settlement],
           NEW L, L.nodeClass = nc, L.key = k, L.before = b,
           NEW todo \in SUBSET Offering, NEW r \in Result
    PROVE  /\ Building(L, todo, r) \in ListState
           /\ Done(L, r) \in ListState
BY Zenon DEF Building, Done, ListState

\* Reading an offering into a result keeps its type.
LEMMA ReadOfferingType ==
    ASSUME NEW r \in Result, NEW o \in Offering, NEW nc \in NodeClass
    PROVE  ReadOffering(r, o, nc) \in Result
<1>1. o.type \in Types
  BY Zenon DEF Offering
<1>2. QED
  BY Zenon, <1>1 DEF ReadOffering, Result

\* Every step preserves the type invariant.
LEMMA TypeStep == TypeOK /\ [Next]_vars => TypeOK'
<1> SUFFICES ASSUME TypeOK, [Next]_vars
             PROVE  TypeOK'
  OBVIOUS
<1>1. ASSUME NEW l \in Lister, NEW nc \in NodeClass, ListStart(l, nc)
      PROVE  TypeOK'
  <2>1. Listing(nc, CacheKey(nc), settled) \in ListState
    BY Zenon, CacheKeyType DEF Listing, ListState, TypeOK, UnavailableTypeOK
  <2>2. QED
    BY Zenon, <1>1, <2>1 DEF ListStart, TypeOK, UnavailableTypeOK, unavailableVars,
                      dataVars, priceVars
<1>2. ASSUME NEW l \in Lister, ListHit(l)
      PROVE  TypeOK'
  <2>1. PICK e \in instanceTypesCache :
            lists' = [lists EXCEPT ![l] = Done(lists[l], e.result)]
    BY Zenon, <1>2 DEF ListHit
  <2>2. e.result \in Result
    BY Zenon DEF TypeOK
  <2>3. Done(lists[l], e.result) \in ListState
    BY Zenon, <1>2, <2>2, ListShape, BuildingType DEF ListHit
  <2>4. QED
    BY Zenon, <1>2, <2>1, <2>3 DEF ListHit, TypeOK, UnavailableTypeOK, unavailableVars,
                            dataVars, priceVars
<1>3. ASSUME NEW l \in Lister, ListMiss(l)
      PROVE  TypeOK'
  <2> DEFINE r == [types |-> {},
                   systemDisk |-> lists[l].nodeClass.systemDisk,
                   base |-> {}, hidden |-> {}]
  <2>1. lists[l] \in [pc : {"lookup"}, nodeClass : NodeClass, key : Key,
                      before : [Offering -> Settlement]]
    BY Zenon, <1>3, ListShape DEF ListMiss
  <2>2. r \in Result
    BY Zenon, <2>1 DEF Result, TypeOK
  <2>3. Building(lists[l], Offering, r) \in ListState
    BY Zenon, <2>1, <2>2, BuildingType
  <2>4. QED
    BY Zenon, <1>3, <2>3 DEF ListMiss, TypeOK, UnavailableTypeOK, unavailableVars,
                      dataVars, priceVars
<1>4. ASSUME NEW l \in Lister, ListCNIError(l) \/ ListReturn(l)
      PROVE  TypeOK'
  BY Zenon, <1>4 DEF ListCNIError, ListReturn, ListState, TypeOK, UnavailableTypeOK,
              unavailableVars, dataVars, priceVars
<1>5. ASSUME NEW l \in Lister, NEW o \in Offering, CreateOffering(l, o)
      PROVE  TypeOK'
  <2>1. lists[l] \in [pc : {"build"}, nodeClass : NodeClass, key : Key,
                      before : [Offering -> Settlement],
                      todo : SUBSET Offering, result : Result]
    BY Zenon, <1>5, ListShape DEF CreateOffering
  <2>2. Building(lists[l], lists[l].todo \ {o},
                 ReadOffering(lists[l].result, o, lists[l].nodeClass)) \in ListState
    BY Zenon, <2>1, ReadOfferingType, BuildingType
  <2>3. QED
    BY Zenon, <1>5, <2>2 DEF CreateOffering, TypeOK, UnavailableTypeOK, unavailableVars,
                      dataVars, priceVars
<1>6. ASSUME NEW l \in Lister, ListStore(l)
      PROVE  TypeOK'
  <2>1. lists[l] \in [pc : {"build"}, nodeClass : NodeClass, key : Key,
                      before : [Offering -> Settlement],
                      todo : SUBSET Offering, result : Result]
    BY Zenon, <1>6, ListShape DEF ListStore
  <2>2. Done(lists[l], lists[l].result) \in ListState
    <3>1. /\ lists[l].nodeClass \in NodeClass /\ lists[l].key \in Key
          /\ lists[l].before \in [Offering -> Settlement]
          /\ lists[l].todo \in SUBSET Offering /\ lists[l].result \in Result
      BY Zenon, <2>1
    <3>2. QED
      BY Zenon, <3>1, BuildingType
  <2>3. instanceTypesCache' \in SUBSET [key : Key, result : Result]
    BY <1>6, <2>1 DEF ListStore, CacheSet, TypeOK
  <2>4. QED
    BY Zenon, <1>6, <2>2, <2>3 DEF ListStore, TypeOK, UnavailableTypeOK, unavailableVars,
                            dataVars, priceVars
<1>7. CASE CacheExpire
  BY Zenon, <1>7 DEF CacheExpire, TypeOK, UnavailableTypeOK, unavailableVars, dataVars,
              priceVars
<1>8. CASE UpdateInstanceTypes
  BY <1>8 DEF UpdateInstanceTypes, MayReportChange, Count, TypeOK, UnavailableTypeOK,
              unavailableVars, priceVars
<1>9. CASE UpdateInstanceTypeOfferings
  BY <1>9 DEF UpdateInstanceTypeOfferings, MayReportChange, Count, TypeOK,
              UnavailableTypeOK, unavailableVars, priceVars
<1>10. CASE UpdateOnDemandPricing \/ UpdateSpotPricing
  <2>1. /\ onDemandPrices' \in SUBSET Types
        /\ spotPrices' \in SUBSET (Types \X Zones)
        /\ spotPricingUpdated' \in BOOLEAN
    BY Zenon, <1>10 DEF UpdateOnDemandPricing, UpdateSpotPricing, TypeOK
  <2>2. \E changed \in BOOLEAN : Count("prices", changed)
    BY Zenon, <1>10 DEF UpdateOnDemandPricing, UpdateSpotPricing
  <2>3. updates' \in [{"types", "offerings", "prices"} -> Nat]
    BY <2>2 DEF Count, TypeOK
  <2>4. QED
    BY Zenon, <1>10, <2>1, <2>3 DEF UpdateOnDemandPricing, UpdateSpotPricing, TypeOK,
                             UnavailableTypeOK, unavailableVars, dataVars
<1>11. CASE OfferingsNext
  BY Zenon, <1>11, UnavailableTypeStep DEF OfferingsNext, TypeOK, dataVars, priceVars
<1>12. CASE UNCHANGED vars
  BY Zenon, <1>12 DEF vars, TypeOK, UnavailableTypeOK, unavailableVars, dataVars, priceVars
<1>13. QED
  BY Zenon, <1>1, <1>2, <1>3, <1>4, <1>5, <1>6, <1>7, <1>8, <1>9, <1>10, <1>11, <1>12
  DEF Next, ListNext, RefreshNext

\* The type invariant holds initially.
LEMMA TypeInit == Init => TypeOK
<1> SUFFICES ASSUME Init PROVE TypeOK
  OBVIOUS
<1>1. UnavailableTypeOK
  BY Zenon DEF Init, UnavailableInit, UnavailableTypeOK, EntryState, CallerState, Settlement
<1>2. lists \in [Lister -> ListState]
  BY Zenon DEF Init, ListState
<1>3. QED
  BY Zenon, <1>1, <1>2, StaticTypesAssumption DEF Init, TypeOK

\* The variables of the instance type provider keep their types in every
\* execution: keys hold counters, cached and returned results hold known types
\* and offerings.
THEOREM TypeCorrect == Spec => []TypeOK
BY TypeInit, TypeStep, PTL DEF Spec

\* The history never runs ahead of the counter, and agrees with the entries.
SettledSound ==
    \A o \in Offering :
        /\ settled[o].since <= seqNum
        /\ settled[o].state = "unavailable" => unavailable[o] = "live"
        /\ settled[o].state = "available" => unavailable[o] # "live"

\* A result built under the counter value s agrees, on every offering outside
\* todo, with what was settled no later than s.
Reflects(r, todo, s) ==
    \A o \in Offering \ todo : settled[o].since <= s =>
        /\ settled[o].state = "unavailable" => o \notin Available(r)
        /\ settled[o].state = "available" => o \notin r.hidden

\* The offerings still to be read have left no trace in the result.
Unread(r, todo) == todo \cap (r.base \cup r.hidden) = {}

\* Every cached result reflects its key.
CacheReflects ==
    \A e \in instanceTypesCache :
        /\ e.key.unavailable <= seqNum
        /\ Reflects(e.result, {}, e.key.unavailable)

\* So does every result being built, on the offerings already read, and every
\* result about to be returned.
ListReflects(l) ==
    lists[l] # NotListing =>
        /\ lists[l].key.unavailable <= seqNum
        /\ \A o \in Offering : lists[l].before[o].since <= lists[l].key.unavailable
        /\ lists[l].pc = "build" =>
              /\ Unread(lists[l].result, lists[l].todo)
              /\ Reflects(lists[l].result, lists[l].todo, lists[l].key.unavailable)
        /\ lists[l].pc = "done" =>
              Reflects(lists[l].result, {}, lists[l].key.unavailable)

\* The inductive invariant.
HiddenInv ==
    /\ TypeOK
    /\ SettledSound
    /\ CacheReflects
    /\ \A l \in Lister : ListReflects(l)

-----------------------------------------------------------------------------
\* What a step of the unavailable offerings may do to the history: leave an
\* offering alone, unsettle it, or settle it at a counter value not seen before.
SettledMoves ==
    /\ seqNum' \in {seqNum, seqNum + 1}
    /\ \A o \in Offering : \/ settled'[o] = settled[o]
                           \/ settled'[o].state = "unsettled"
                           \/ settled'[o].since = seqNum + 1

\* Steps move the history in these ways only, and keep it sound.
LEMMA SettledStep ==
    ASSUME UnavailableTypeOK, SettledSound, UnavailableNext
    PROVE  SettledMoves /\ SettledSound'
<1> USE DEF UnavailableTypeOK, SettledSound, SettledMoves, EntryState, Settlement
<1>1. ASSUME NEW c \in Caller, NEW o \in Offering, MarkSet(c, o)
      PROVE  SettledMoves /\ SettledSound'
  BY Zenon, <1>1 DEF MarkSet, Unsettle
<1>2. ASSUME NEW c \in Caller, MarkBump(c)
      PROVE  SettledMoves /\ SettledSound'
  <2>1. callers[c].offering \in Offering
    BY <1>2 DEF MarkBump, CallerState, Idle
  <2>2. QED
    BY <1>2, <2>1 DEF MarkBump, Settle, IsUnavailable
<1>3. ASSUME NEW c \in Caller, FlushCache(c)
      PROVE  SettledMoves /\ SettledSound'
  BY Zenon, <1>3 DEF FlushCache
<1>4. ASSUME NEW c \in Caller, FlushBump(c)
      PROVE  SettledMoves /\ SettledSound'
  BY <1>4 DEF FlushBump, IsUnavailable
<1>5. ASSUME NEW o \in Offering, Expire(o)
      PROVE  SettledMoves /\ SettledSound'
  BY Zenon, <1>5 DEF Expire, Unsettle
<1>6. ASSUME NEW o \in Offering, OnEvicted(o)
      PROVE  SettledMoves /\ SettledSound'
  BY <1>6 DEF OnEvicted, Settle, IsUnavailable
<1>7. CASE JanitorSweep
  BY Zenon, <1>7 DEF JanitorSweep
<1>8. QED
  BY Zenon, <1>1, <1>2, <1>3, <1>4, <1>5, <1>6, <1>7 DEF UnavailableNext

\* A result that reflects an old counter value goes on doing so.
LEMMA ReflectsStable ==
    ASSUME UnavailableTypeOK, SettledMoves,
           NEW r, NEW todo, NEW s \in Nat, s <= seqNum, Reflects(r, todo, s)
    PROVE  Reflects(r, todo, s)'
BY DEF UnavailableTypeOK, SettledMoves, Reflects, Settlement, Available

\* Reading one more offering extends what a result being built reflects.
LEMMA ReadReflects ==
    ASSUME SettledSound, NEW r \in Result, NEW o \in Offering,
           NEW nc \in NodeClass, NEW todo, NEW s \in Nat, Reflects(r, todo, s),
           o \in todo, Unread(r, todo)
    PROVE  /\ Reflects(ReadOffering(r, o, nc), todo \ {o}, s)
           /\ Unread(ReadOffering(r, o, nc), todo \ {o})
<1> DEFINE q == ReadOffering(r, o, nc)
<1>0. Unread(q, todo \ {o})
  BY Zenon DEF Unread, ReadOffering
<1> SUFFICES ASSUME NEW x \in Offering \ (todo \ {o}), settled[x].since <= s
             PROVE  /\ settled[x].state = "unavailable" => x \notin Available(q)
                    /\ settled[x].state = "available" => x \notin q.hidden
  BY Zenon, <1>0 DEF Reflects
<1>1. /\ q.base = r.base \cup (IF Created(o) /\ ZoneAvailable(o, nc) THEN {o} ELSE {})
      /\ q.hidden = r.hidden \cup (IF Created(o) /\ IsUnavailable(o) THEN {o} ELSE {})
  BY Zenon DEF ReadOffering
<1>2. CASE x \notin todo
  <2>1. /\ settled[x].state = "unavailable" => x \notin Available(r)
        /\ settled[x].state = "available" => x \notin r.hidden
    BY Zenon, <1>2 DEF Reflects
  <2>2. x = o => (IsUnavailable(o) <=> unavailable[x] = "live")
    BY Zenon DEF IsUnavailable
  <2>3. QED
    BY Zenon, <1>1, <2>1, <2>2 DEF SettledSound, Available
<1>3. CASE x = o
  BY Zenon, <1>1, <1>3 DEF SettledSound, Available, IsUnavailable, Unread
<1>4. QED
  BY Zenon, <1>2, <1>3

\* While the history, the counter and the cache stay, a step of List l has to
\* establish only what concerns l.
LEMMA HiddenFrame ==
    ASSUME HiddenInv, TypeOK', UNCHANGED unavailableVars, NEW l \in Lister,
           NEW v, lists' = [lists EXCEPT ![l] = v],
           CacheReflects', ListReflects(l)'
    PROVE  HiddenInv'
<1>1. ASSUME NEW k \in Lister
      PROVE  ListReflects(k)'
  <2>1. CASE k # l
    <3>1. lists'[k] = lists[k]
      BY Zenon, <2>1 DEF HiddenInv, TypeOK
    <3>2. ListReflects(k)
      BY Zenon DEF HiddenInv
    <3>3. QED
      BY Zenon, <3>1, <3>2 DEF ListReflects, Reflects, unavailableVars
  <2>2. QED
    BY Zenon, <2>1
<1>2. SettledSound'
  BY Zenon DEF HiddenInv, SettledSound, unavailableVars
<1>3. QED
  BY Zenon, <1>1, <1>2 DEF HiddenInv

\* Every step preserves the inductive invariant.
LEMMA HiddenStep == HiddenInv /\ [Next]_vars => HiddenInv'
<1> SUFFICES ASSUME HiddenInv, [Next]_vars
             PROVE  HiddenInv'
  OBVIOUS
<1>0. TypeOK /\ TypeOK' /\ SettledSound /\ CacheReflects
  BY Zenon, TypeStep DEF HiddenInv
<1>1. ASSUME NEW l \in Lister, NEW nc \in NodeClass, ListStart(l, nc)
      PROVE  HiddenInv'
  <2> DEFINE L == Listing(nc, CacheKey(nc), settled)
  <2>1. UNCHANGED unavailableVars /\ lists' = [lists EXCEPT ![l] = L]
    BY Zenon, <1>1 DEF ListStart
  <2>2. CacheReflects'
    BY Zenon, <1>0, <1>1 DEF ListStart, CacheReflects, Reflects, unavailableVars
  <2>3. lists'[l] = L
    BY Zenon, <1>0, <2>1 DEF TypeOK
  <2>4. ListReflects(l)'
    BY <1>0, <2>1, <2>3 DEF ListReflects, Listing, CacheKey, SettledSound,
                            unavailableVars, TypeOK, UnavailableTypeOK
  <2>5. QED
    BY Zenon, <1>0, <2>1, <2>2, <2>4, HiddenFrame
<1>2. ASSUME NEW l \in Lister, ListHit(l)
      PROVE  HiddenInv'
  <2>1. PICK e \in instanceTypesCache :
            /\ e.key = lists[l].key
            /\ lists' = [lists EXCEPT ![l] = Done(lists[l], e.result)]
    BY Zenon, <1>2 DEF ListHit
  <2>2. UNCHANGED unavailableVars /\ CacheReflects'
    BY Zenon, <1>0, <1>2 DEF ListHit, CacheReflects, Reflects, unavailableVars
  <2>3. lists'[l] = Done(lists[l], e.result)
    BY Zenon, <1>0, <2>1 DEF TypeOK
  <2>4. lists[l] # NotListing /\ ListReflects(l)
    BY Zenon, <1>0, <1>2, ListShape DEF ListHit, HiddenInv
  <2>5. Reflects(e.result, {}, e.key.unavailable)
    BY Zenon, <1>0 DEF CacheReflects
  <2>6. ListReflects(l)'
    BY <2>1, <2>2, <2>3, <2>4, <2>5
    DEF ListReflects, Done, Reflects, unavailableVars
  <2>7. QED
    BY Zenon, <1>0, <2>1, <2>2, <2>6, HiddenFrame
<1>3. ASSUME NEW l \in Lister, ListMiss(l)
      PROVE  HiddenInv'
  <2> DEFINE r == [types |-> {},
                   systemDisk |-> lists[l].nodeClass.systemDisk,
                   base |-> {}, hidden |-> {}]
  <2>1. lists' = [lists EXCEPT ![l] = Building(lists[l], Offering, r)]
    BY Zenon, <1>3 DEF ListMiss
  <2>2. UNCHANGED unavailableVars /\ CacheReflects'
    BY Zenon, <1>0, <1>3 DEF ListMiss, CacheReflects, Reflects, unavailableVars
  <2>3. lists'[l] = Building(lists[l], Offering, r)
    BY Zenon, <1>0, <2>1 DEF TypeOK
  <2>4. lists[l] # NotListing /\ ListReflects(l)
    BY Zenon, <1>0, <1>3, ListShape DEF ListMiss, HiddenInv
  <2>5. ListReflects(l)'
    BY <2>2, <2>3, <2>4 DEF ListReflects, Building, Reflects, Unread, unavailableVars
  <2>6. QED
    BY Zenon, <1>0, <2>1, <2>2, <2>5, HiddenFrame
<1>4. ASSUME NEW l \in Lister, ListCNIError(l) \/ ListReturn(l)
      PROVE  HiddenInv'
  <2>1. UNCHANGED unavailableVars /\ lists' = [lists EXCEPT ![l] = NotListing]
    BY Zenon, <1>4 DEF ListCNIError, ListReturn
  <2>2. CacheReflects'
    BY Zenon, <1>0, <1>4 DEF ListCNIError, ListReturn, CacheReflects, Reflects,
                      unavailableVars
  <2>3. ListReflects(l)'
    BY Zenon, <1>0, <2>1 DEF ListReflects, TypeOK
  <2>4. QED
    BY Zenon, <1>0, <2>1, <2>2, <2>3, HiddenFrame
<1>5. ASSUME NEW l \in Lister, NEW o \in Offering, CreateOffering(l, o)
      PROVE  HiddenInv'
  <2> DEFINE r == ReadOffering(lists[l].result, o, lists[l].nodeClass)
             L == Building(lists[l], lists[l].todo \ {o}, r)
  <2>1. lists' = [lists EXCEPT ![l] = L]
    BY Zenon, <1>5 DEF CreateOffering
  <2>2. UNCHANGED unavailableVars /\ CacheReflects'
    BY Zenon, <1>0, <1>5 DEF CreateOffering, CacheReflects, Reflects, unavailableVars
  <2>3. lists'[l] = L
    BY Zenon, <1>0, <2>1 DEF TypeOK
  <2>4. /\ lists[l] # NotListing /\ ListReflects(l)
        /\ lists[l].result \in Result /\ lists[l].nodeClass \in NodeClass
        /\ lists[l].key.unavailable \in Nat
    BY Zenon, <1>0, <1>5, ListShape DEF CreateOffering, HiddenInv, Key
  <2>5. /\ Reflects(r, lists[l].todo \ {o}, lists[l].key.unavailable)
        /\ Unread(r, lists[l].todo \ {o})
    BY Zenon, <1>0, <1>5, <2>4, ReadReflects DEF ListReflects, CreateOffering
  <2>6. ListReflects(l)'
    BY <2>2, <2>3, <2>4, <2>5 DEF ListReflects, Building, Reflects, unavailableVars
  <2>7. QED
    BY Zenon, <1>0, <2>1, <2>2, <2>6, HiddenFrame
<1>6. ASSUME NEW l \in Lister, ListStore(l)
      PROVE  HiddenInv'
  <2>1. /\ UNCHANGED unavailableVars
        /\ lists' = [lists EXCEPT ![l] = Done(lists[l], lists[l].result)]
    BY Zenon, <1>6 DEF ListStore
  <2>2. lists'[l] = Done(lists[l], lists[l].result)
    BY Zenon, <1>0, <2>1 DEF TypeOK
  <2>3. lists[l] # NotListing /\ ListReflects(l)
    BY Zenon, <1>0, <1>6, ListShape DEF ListStore, HiddenInv
  <2>4. Reflects(lists[l].result, {}, lists[l].key.unavailable)
    BY Zenon, <1>6, <2>3 DEF ListReflects, ListStore
  <2>5. CacheReflects'
    <3>1. settled' = settled /\ seqNum' = seqNum
      BY Zenon, <2>1 DEF unavailableVars
    <3>2. lists[l].key.unavailable <= seqNum
      BY Zenon, <2>3 DEF ListReflects
    <3>3. SUFFICES ASSUME NEW e \in instanceTypesCache'
                   PROVE  /\ e.key.unavailable <= seqNum
                          /\ Reflects(e.result, {}, e.key.unavailable)
      BY Zenon, <3>1 DEF CacheReflects, Reflects
    <3>4. e \in instanceTypesCache \/ e = [key |-> lists[l].key, result |-> lists[l].result]
      BY Zenon, <1>6, <3>3 DEF ListStore, CacheSet
    <3>5. CASE e \in instanceTypesCache
      BY Zenon, <1>0, <3>5 DEF HiddenInv, CacheReflects
    <3>6. CASE e = [key |-> lists[l].key, result |-> lists[l].result]
      <4>1. e.key = lists[l].key /\ e.result = lists[l].result
        BY Zenon, <3>6
      <4>2. QED
        BY Zenon, <4>1, <3>2, <2>4
    <3>7. QED
      BY Zenon, <3>4, <3>5, <3>6
  <2>6. ListReflects(l)'
    BY <2>1, <2>2, <2>3, <2>4 DEF ListReflects, Done, Reflects, unavailableVars
  <2>7. QED
    BY Zenon, <1>0, <2>1, <2>5, <2>6, HiddenFrame
<1>7. CASE CacheExpire \/ RefreshNext \/ UNCHANGED vars
  <2>1. /\ UNCHANGED <<unavailableVars, lists>>
        /\ instanceTypesCache' \subseteq instanceTypesCache
    BY Zenon, <1>7 DEF CacheExpire, RefreshNext, UpdateInstanceTypes,
                UpdateInstanceTypeOfferings, UpdateOnDemandPricing,
                UpdateSpotPricing, vars
  <2>2. QED
    BY <1>0, <2>1 DEF HiddenInv, SettledSound, CacheReflects, ListReflects, Reflects,
                      unavailableVars
<1>8. CASE OfferingsNext
  <2>1. SettledMoves /\ SettledSound' /\ UNCHANGED <<instanceTypesCache, lists>>
    BY Zenon, <1>0, <1>8, SettledStep DEF OfferingsNext, TypeOK
  <2>2. seqNum' >= seqNum
    BY <1>0, <2>1 DEF SettledMoves, TypeOK, UnavailableTypeOK
  <2>3. CacheReflects'
    <3> SUFFICES ASSUME NEW e \in instanceTypesCache
                 PROVE  /\ e.key.unavailable <= seqNum'
                        /\ Reflects(e.result, {}, e.key.unavailable)'
      BY Zenon, <2>1 DEF CacheReflects
    <3>1. e.key.unavailable \in Nat /\ seqNum \in Nat /\ seqNum' \in Nat
      BY Zenon, <1>0 DEF TypeOK, UnavailableTypeOK, Key
    <3>2. e.key.unavailable <= seqNum /\ Reflects(e.result, {}, e.key.unavailable)
      BY Zenon, <1>0 DEF CacheReflects
    <3>3. QED
      BY <1>0, <2>1, <2>2, <3>1, <3>2, ReflectsStable DEF TypeOK
  <2>4. ASSUME NEW l \in Lister
        PROVE  ListReflects(l)'
    <3> SUFFICES ASSUME lists[l] # NotListing
                 PROVE  ListReflects(l)'
      BY Zenon, <2>1 DEF ListReflects
    <3>0. UnavailableTypeOK /\ seqNum \in Nat /\ seqNum' \in Nat
      BY Zenon, <1>0 DEF TypeOK, UnavailableTypeOK
    <3>1. lists[l].key.unavailable \in Nat /\ ListReflects(l)
      <4>1. lists[l].key \in Key
        BY Zenon, <1>0, ListShape
      <4>2. QED
        BY Zenon, <4>1 DEF Key, HiddenInv
    <3>2. lists[l].pc = "build" =>
            Reflects(lists[l].result, lists[l].todo, lists[l].key.unavailable)'
      BY Zenon, <2>1, <3>0, <3>1, ReflectsStable DEF ListReflects
    <3>3. lists[l].pc = "done" =>
            Reflects(lists[l].result, {}, lists[l].key.unavailable)'
      BY Zenon, <2>1, <3>0, <3>1, ReflectsStable DEF ListReflects
    <3>4. QED
      BY <2>1, <2>2, <3>0, <3>1, <3>2, <3>3 DEF ListReflects
  <2>5. QED
    BY Zenon, <1>0, <2>1, <2>3, <2>4 DEF HiddenInv
<1>9. QED
  BY Zenon, <1>1, <1>2, <1>3, <1>4, <1>5, <1>6, <1>7, <1>8 DEF Next, ListNext

\* The inductive invariant holds in every execution.
LEMMA HiddenInvariant == Spec => []HiddenInv
<1>1. Init => HiddenInv
  <2> SUFFICES ASSUME Init PROVE HiddenInv
    OBVIOUS
  <2>1. SettledSound
    BY DEF Init, UnavailableInit, SettledSound
  <2>2. QED
    BY Zenon, <2>1, TypeInit DEF Init, HiddenInv, CacheReflects, ListReflects
<1>2. QED
  BY <1>1, HiddenStep, PTL DEF Spec

\* A result about to be returned honours what was settled before its List began.
LEMMA HiddenInvImplies ==
    HiddenInv => MarkedOfferingsStayHidden /\ EvictedOfferingsComeBack
<1> SUFFICES ASSUME HiddenInv, NEW l \in Lister, lists[l].pc = "done",
                    NEW o \in Offering, lists[l].before[o] = settled[o]
             PROVE  /\ settled[o].state = "unavailable"
                          => o \notin Available(lists[l].result)
                    /\ settled[o].state = "available"
                          => o \notin lists[l].result.hidden
  BY Zenon DEF MarkedOfferingsStayHidden, EvictedOfferingsComeBack, SettledThroughout
<1>1. lists[l] # NotListing /\ ListReflects(l)
  BY Zenon, ListShape DEF HiddenInv
<1>2. QED
  BY Zenon, <1>1 DEF ListReflects, Reflects

\* Once MarkUnavailable has returned, no List that starts later reports the
\* offering as available while its entry lives.
THEOREM MarkedOfferingsHidden == Spec => []MarkedOfferingsStayHidden
BY HiddenInvariant, HiddenInvImplies, PTL

\* Once the eviction of an offering has been announced, no List that starts
\* later still hides it.
THEOREM EvictedOfferingsReturn == Spec => []EvictedOfferingsComeBack
BY HiddenInvariant, HiddenInvImplies, PTL

\* The on-demand offerings of a result are in stock, in the zones of its key.
StockOf(r, zones) ==
    \A o \in r.base : o.cap = "on-demand" =>
        <<o.type, o.zone>> \in instanceTypesOfferings /\ o.zone \in zones

\* A cached result under the current counters was built from the current data.
CacheIsCurrent ==
    \A e \in instanceTypesCache :
        /\ e.key.types <= instanceTypesSeqNum
        /\ e.key.offerings <= instanceTypesOfferingsSeqNum
        /\ e.key.types = instanceTypesSeqNum => e.result.types \subseteq instanceTypesInfo
        /\ e.key.offerings = instanceTypesOfferingsSeqNum =>
              StockOf(e.result, e.key.zones)

\* A List in progress holds the current counters in its key.
ListIsCurrent(l) ==
    lists[l] # NotListing =>
        /\ lists[l].key.types = instanceTypesSeqNum
        /\ lists[l].key.offerings = instanceTypesOfferingsSeqNum
        /\ lists[l].key.zones = lists[l].nodeClass.vSwitchZones
        /\ lists[l].pc \in {"build", "done"} =>
              /\ lists[l].result.types \subseteq instanceTypesInfo
              /\ StockOf(lists[l].result, lists[l].key.zones)

\* The inductive invariant.
DataInv ==
    /\ TypeOK
    /\ CacheIsCurrent
    /\ \A l \in Lister : ListIsCurrent(l)

-----------------------------------------------------------------------------
\* While the data stays, a step of List l has to establish only what concerns l.
LEMMA DataFrame ==
    ASSUME DataInv, TypeOK', UNCHANGED dataVars, NEW l \in Lister,
           NEW v, lists' = [lists EXCEPT ![l] = v],
           CacheIsCurrent', ListIsCurrent(l)'
    PROVE  DataInv'
<1>1. ASSUME NEW k \in Lister
      PROVE  ListIsCurrent(k)'
  <2>1. CASE k # l
    <3>1. lists'[k] = lists[k] /\ ListIsCurrent(k)
      BY Zenon, <2>1 DEF DataInv, TypeOK
    <3>2. QED
      BY Zenon, <3>1 DEF ListIsCurrent, StockOf, dataVars
  <2>2. QED
    BY Zenon, <2>1
<1>2. QED
  BY Zenon, <1>1 DEF DataInv

\* Every step preserves the inductive invariant.
LEMMA DataStep == DataInv /\ [Next]_vars => DataInv'
<1> SUFFICES ASSUME DataInv, [Next]_vars
             PROVE  DataInv'
  OBVIOUS
<1>0. TypeOK /\ TypeOK' /\ CacheIsCurrent
  BY Zenon, TypeStep DEF DataInv
<1>a. ASSUME UNCHANGED <<dataVars, instanceTypesCache>>
      PROVE  CacheIsCurrent'
  BY Zenon, <1>0, <1>a DEF CacheIsCurrent, StockOf, dataVars
<1>1. ASSUME NEW l \in Lister, NEW nc \in NodeClass, ListStart(l, nc)
      PROVE  DataInv'
  <2> DEFINE L == Listing(nc, CacheKey(nc), settled)
  <2>1. UNCHANGED <<dataVars, instanceTypesCache>> /\ lists' = [lists EXCEPT ![l] = L]
    BY Zenon, <1>1 DEF ListStart
  <2>2. lists'[l] = L
    BY Zenon, <1>0, <2>1 DEF TypeOK
  <2>3. ListIsCurrent(l)'
    BY <2>1, <2>2 DEF ListIsCurrent, Listing, CacheKey, dataVars
  <2>4. QED
    BY Zenon, <1>0, <1>a, <2>1, <2>3, DataFrame
<1>2. ASSUME NEW l \in Lister, ListHit(l)
      PROVE  DataInv'
  <2>1. PICK e \in instanceTypesCache :
            /\ e.key = lists[l].key
            /\ lists' = [lists EXCEPT ![l] = Done(lists[l], e.result)]
    BY Zenon, <1>2 DEF ListHit
  <2>2. UNCHANGED <<dataVars, instanceTypesCache>>
    BY Zenon, <1>2 DEF ListHit
  <2>3. lists'[l] = Done(lists[l], e.result)
    BY Zenon, <1>0, <2>1 DEF TypeOK
  <2>4. lists[l] # NotListing /\ ListIsCurrent(l)
    BY Zenon, <1>0, <1>2, ListShape DEF ListHit, DataInv
  <2>5. e.result.types \subseteq instanceTypesInfo /\ StockOf(e.result, e.key.zones)
    BY Zenon, <1>0, <2>1, <2>4 DEF CacheIsCurrent, ListIsCurrent
  <2>6. ListIsCurrent(l)'
    BY <2>1, <2>2, <2>3, <2>4, <2>5 DEF ListIsCurrent, Done, StockOf, dataVars
  <2>7. QED
    BY Zenon, <1>0, <1>a, <2>1, <2>2, <2>6, DataFrame
<1>3. ASSUME NEW l \in Lister, ListMiss(l)
      PROVE  DataInv'
  <2> DEFINE r == [types |-> {},
                   systemDisk |-> lists[l].nodeClass.systemDisk,
                   base |-> {}, hidden |-> {}]
  <2>1. /\ lists' = [lists EXCEPT ![l] = Building(lists[l], Offering, r)]
        /\ UNCHANGED <<dataVars, instanceTypesCache>>
    BY Zenon, <1>3 DEF ListMiss
  <2>2. lists'[l] = Building(lists[l], Offering, r)
    BY Zenon, <1>0, <2>1 DEF TypeOK
  <2>3. lists[l] # NotListing /\ ListIsCurrent(l)
    BY Zenon, <1>0, <1>3, ListShape DEF ListMiss, DataInv
  <2>4. ListIsCurrent(l)'
    BY <2>1, <2>2, <2>3 DEF ListIsCurrent, Building, StockOf, dataVars
  <2>5. QED
    BY Zenon, <1>0, <1>a, <2>1, <2>4, DataFrame
<1>4. ASSUME NEW l \in Lister, ListCNIError(l) \/ ListReturn(l)
      PROVE  DataInv'
  <2>1. /\ UNCHANGED <<dataVars, instanceTypesCache>>
        /\ lists' = [lists EXCEPT ![l] = NotListing]
    BY Zenon, <1>4 DEF ListCNIError, ListReturn
  <2>2. ListIsCurrent(l)'
    BY Zenon, <1>0, <2>1 DEF ListIsCurrent, TypeOK
  <2>3. QED
    BY Zenon, <1>0, <1>a, <2>1, <2>2, DataFrame
<1>5. ASSUME NEW l \in Lister, NEW o \in Offering, CreateOffering(l, o)
      PROVE  DataInv'
  <2> DEFINE r == ReadOffering(lists[l].result, o, lists[l].nodeClass)
             L == Building(lists[l], lists[l].todo \ {o}, r)
  <2>1. /\ lists' = [lists EXCEPT ![l] = L]
        /\ UNCHANGED <<dataVars, instanceTypesCache>>
    BY Zenon, <1>5 DEF CreateOffering
  <2>2. lists'[l] = L
    BY Zenon, <1>0, <2>1 DEF TypeOK
  <2>3. /\ lists[l] # NotListing /\ ListIsCurrent(l)
        /\ lists[l].pc \in {"build", "done"}
    BY Zenon, <1>0, <1>5, ListShape DEF CreateOffering, DataInv
  <2>4. r.types \subseteq instanceTypesInfo /\ StockOf(r, lists[l].key.zones)
    BY Zenon, <2>3 DEF ListIsCurrent, ReadOffering, StockOf, ZoneAvailable, Created
  <2>5. ListIsCurrent(l)'
    BY <2>1, <2>2, <2>3, <2>4 DEF ListIsCurrent, Building, StockOf, dataVars
  <2>6. QED
    BY Zenon, <1>0, <1>a, <2>1, <2>5, DataFrame
<1>6. ASSUME NEW l \in Lister, ListStore(l)
      PROVE  DataInv'
  <2>1. /\ lists' = [lists EXCEPT ![l] = Done(lists[l], lists[l].result)]
        /\ UNCHANGED dataVars
    BY Zenon, <1>6 DEF ListStore
  <2>2. lists'[l] = Done(lists[l], lists[l].result)
    BY Zenon, <1>0, <2>1 DEF TypeOK
  <2>3. /\ lists[l] # NotListing /\ ListIsCurrent(l)
        /\ lists[l].pc \in {"build", "done"}
    BY Zenon, <1>0, <1>6, ListShape DEF ListStore, DataInv
  <2>4. CacheIsCurrent'
    BY <1>0, <1>6, <2>1, <2>3
    DEF ListStore, CacheSet, CacheIsCurrent, ListIsCurrent, StockOf, dataVars, TypeOK
  <2>5. ListIsCurrent(l)'
    BY <2>1, <2>2, <2>3 DEF ListIsCurrent, Done, StockOf, dataVars
  <2>6. QED
    BY Zenon, <1>0, <2>1, <2>4, <2>5, DataFrame
<1>7. CASE CacheExpire \/ UpdateOnDemandPricing \/ UpdateSpotPricing
           \/ OfferingsNext \/ UNCHANGED vars
  <2>1. /\ UNCHANGED <<dataVars, lists>>
        /\ instanceTypesCache' \subseteq instanceTypesCache
    BY Zenon, <1>7 DEF CacheExpire, UpdateOnDemandPricing, UpdateSpotPricing,
                OfferingsNext, vars
  <2>2. QED
    BY Zenon, <1>0, <2>1 DEF DataInv, CacheIsCurrent, ListIsCurrent, StockOf, dataVars
<1>8. CASE UpdateInstanceTypes
  <2>1. /\ NoListInProgress /\ UNCHANGED <<lists, instanceTypesCache,
                  instanceTypesOfferings, instanceTypesOfferingsSeqNum>>
        /\ \/ instanceTypesSeqNum' = instanceTypesSeqNum
                  /\ instanceTypesInfo' = instanceTypesInfo
           \/ instanceTypesSeqNum' = instanceTypesSeqNum + 1
    <3>1. PICK types \in SUBSET Types :
              \E changed \in MayReportChange(instanceTypesInfo, types) :
                 /\ NoListInProgress
                 /\ instanceTypesSeqNum' = instanceTypesSeqNum + (IF changed THEN 1 ELSE 0)
                 /\ instanceTypesInfo' = types
                 /\ UNCHANGED <<lists, instanceTypesCache, instanceTypesOfferings,
                                instanceTypesOfferingsSeqNum>>
      BY Zenon, <1>8 DEF UpdateInstanceTypes
    <3>2. PICK changed \in MayReportChange(instanceTypesInfo, types) :
                 instanceTypesSeqNum' = instanceTypesSeqNum + (IF changed THEN 1 ELSE 0)
      BY Zenon, <3>1
    <3>3. CASE changed
      BY Zenon, <3>1, <3>2, <3>3
    <3>4. CASE ~changed
      <4>1. instanceTypesInfo = types
        BY <3>2, <3>4, Zenon DEF MayReportChange
      <4>2. instanceTypesSeqNum' = instanceTypesSeqNum
        BY <1>0, <3>2, <3>4 DEF TypeOK
      <4>3. QED
        BY Zenon, <3>1, <4>1, <4>2
    <3>5. QED
      BY Zenon, <3>3, <3>4
  <2>2. CacheIsCurrent'
    BY <1>0, <2>1 DEF CacheIsCurrent, StockOf, TypeOK, Key
  <2>3. QED
    BY Zenon, <1>0, <2>1, <2>2 DEF DataInv, ListIsCurrent, NoListInProgress
<1>9. CASE UpdateInstanceTypeOfferings
  <2>1. /\ NoListInProgress /\ UNCHANGED <<lists, instanceTypesCache,
                  instanceTypesInfo, instanceTypesSeqNum>>
        /\ \/ instanceTypesOfferingsSeqNum' = instanceTypesOfferingsSeqNum
                  /\ instanceTypesOfferings' = instanceTypesOfferings
           \/ instanceTypesOfferingsSeqNum' = instanceTypesOfferingsSeqNum + 1
    <3>1. PICK offerings \in SUBSET (Types \X Zones) :
              \E changed \in MayReportChange(instanceTypesOfferings, offerings) :
                 /\ NoListInProgress
                 /\ instanceTypesOfferingsSeqNum' =
                       instanceTypesOfferingsSeqNum + (IF changed THEN 1 ELSE 0)
                 /\ instanceTypesOfferings' = offerings
                 /\ UNCHANGED <<lists, instanceTypesCache, instanceTypesInfo,
                                instanceTypesSeqNum>>
      BY Zenon, <1>9 DEF UpdateInstanceTypeOfferings
    <3>2. PICK changed \in MayReportChange(instanceTypesOfferings, offerings) :
                 instanceTypesOfferingsSeqNum' =
                       instanceTypesOfferingsSeqNum + (IF changed THEN 1 ELSE 0)
      BY Zenon, <3>1
    <3>3. CASE changed
      BY Zenon, <3>1, <3>2, <3>3
    <3>4. CASE ~changed
      <4>1. instanceTypesOfferings = offerings
        BY <3>2, <3>4, Zenon DEF MayReportChange
      <4>2. instanceTypesOfferingsSeqNum' = instanceTypesOfferingsSeqNum
        BY <1>0, <3>2, <3>4 DEF TypeOK
      <4>3. QED
        BY Zenon, <3>1, <4>1, <4>2
    <3>5. QED
      BY Zenon, <3>3, <3>4
  <2>2. CacheIsCurrent'
    BY <1>0, <2>1 DEF CacheIsCurrent, StockOf, TypeOK, Key
  <2>3. QED
    BY Zenon, <1>0, <2>1, <2>2 DEF DataInv, ListIsCurrent, NoListInProgress
<1>10. QED
  BY Zenon, <1>1, <1>2, <1>3, <1>4, <1>5, <1>6, <1>7, <1>8, <1>9
  DEF Next, ListNext, RefreshNext

\* The inductive invariant holds in every execution.
LEMMA DataInvariant == Spec => []DataInv
<1>1. Init => DataInv
  BY Zenon, TypeInit DEF Init, DataInv, CacheIsCurrent, ListIsCurrent
<1>2. QED
  BY <1>1, DataStep, PTL DEF Spec

\* A result about to be returned is of the current data.
LEMMA DataInvImplies == DataInv => TypesAreCurrent /\ OnDemandStockIsCurrent
<1> SUFFICES ASSUME DataInv, NEW l \in Lister, lists[l].pc = "done"
             PROVE  /\ lists[l].result.types \subseteq instanceTypesInfo
                    /\ StockOf(lists[l].result, lists[l].nodeClass.vSwitchZones)
  BY Zenon DEF TypesAreCurrent, OnDemandStockIsCurrent, StockOf, Available
<1>1. lists[l] # NotListing /\ ListIsCurrent(l)
  BY Zenon, ListShape DEF DataInv
<1>2. QED
  BY Zenon, <1>1 DEF ListIsCurrent

\* No List returns an instance type that the last UpdateInstanceTypes did not find.
THEOREM TypesCurrent == Spec => []TypesAreCurrent
BY DataInvariant, DataInvImplies, PTL

\* A List reports no on-demand offering as available that the last
\* UpdateInstanceTypeOfferings found without stock.
THEOREM OnDemandStockCurrent == Spec => []OnDemandStockIsCurrent
BY DataInvariant, DataInvImplies, PTL

-----------------------------------------------------------------------------
(* The system disk, which is not in the key. *)

\* The NodeClass is one that the key is of.
OfKey(nc, key) == key.zones = nc.vSwitchZones /\ key.kubelet = nc.kubelet

\* The result is built from the system disk of a NodeClass that the key is of.
DiskOfKey(r, key) == \E nc \in NodeClass : OfKey(nc, key) /\ r.systemDisk = nc.systemDisk

ListDisk(L) ==
    L # NotListing =>
        /\ L.nodeClass \in NodeClass /\ OfKey(L.nodeClass, L.key)
        /\ L.pc = "build" => L.result.systemDisk = L.nodeClass.systemDisk
        /\ L.pc = "done" => DiskOfKey(L.result, L.key)

DiskInv ==
    /\ TypeOK
    /\ \A e \in instanceTypesCache : DiskOfKey(e.result, e.key)
    /\ \A l \in Lister : ListDisk(lists[l])

LEMMA DiskStep == DiskInv /\ [Next]_vars => DiskInv'
<1> SUFFICES ASSUME DiskInv, [Next]_vars
             PROVE  DiskInv'
  OBVIOUS
<1>0. TypeOK /\ TypeOK'
  BY Zenon, TypeStep DEF DiskInv
\* A step of List moves one call, and keeps the cache or stores in it.
<1>a. ASSUME NEW l \in Lister, NEW L, ListDisk(L), lists' = [lists EXCEPT ![l] = L],
             \A e \in instanceTypesCache' : DiskOfKey(e.result, e.key)
      PROVE  DiskInv'
  <2>1. \A k \in Lister : lists'[k] = IF k = l THEN L ELSE lists[k]
    BY Zenon, <1>0, <1>a DEF TypeOK
  <2>2. \A k \in Lister : ListDisk(lists'[k])
    <3> SUFFICES ASSUME NEW k \in Lister PROVE ListDisk(lists'[k])
      OBVIOUS
    <3>1. CASE k = l
      <4>1. lists'[k] = L
        BY Zenon, <2>1, <3>1
      <4>2. QED
        BY <1>a, <4>1
    <3>2. CASE k # l
      <4>1. lists'[k] = lists[k] /\ ListDisk(lists[k])
        BY Zenon, <2>1, <3>2 DEF DiskInv
      <4>2. QED
        BY <4>1
    <3>3. QED
      BY Zenon, <3>1, <3>2
  <2>3. QED
    BY Zenon, <1>0, <1>a, <2>2 DEF DiskInv
<1>b. ASSUME UNCHANGED instanceTypesCache
      PROVE  \A e \in instanceTypesCache' : DiskOfKey(e.result, e.key)
  BY Zenon, <1>b DEF DiskInv
<1>c. ASSUME NEW l \in Lister, lists[l].pc \in {"lookup", "build", "done"}
      PROVE  lists[l] # NotListing /\ ListDisk(lists[l])
  BY Zenon, <1>0, <1>c, ListShape DEF DiskInv
<1>1. ASSUME NEW l \in Lister, NEW nc \in NodeClass, ListStart(l, nc)
      PROVE  DiskInv'
  <2>1. ListDisk(Listing(nc, CacheKey(nc), settled))
    BY DEF ListDisk, Listing, CacheKey, OfKey
  <2>2. QED
    BY Zenon, <1>1, <1>a, <1>b, <2>1 DEF ListStart
<1>2. ASSUME NEW l \in Lister, ListHit(l)
      PROVE  DiskInv'
  <2>1. PICK e \in instanceTypesCache :
            /\ e.key = lists[l].key
            /\ lists' = [lists EXCEPT ![l] = Done(lists[l], e.result)]
    BY Zenon, <1>2 DEF ListHit
  <2>2. DiskOfKey(e.result, lists[l].key)
    BY <2>1 DEF DiskInv
  <2>3. lists[l] # NotListing /\ ListDisk(lists[l])
    BY Zenon, <1>2, <1>c DEF ListHit
  <2>4. ListDisk(Done(lists[l], e.result))
    BY <2>2, <2>3 DEF ListDisk, Done
  <2>5. QED
    BY Zenon, <1>2, <1>a, <1>b, <2>1, <2>4 DEF ListHit
<1>3. ASSUME NEW l \in Lister, ListMiss(l)
      PROVE  DiskInv'
  <2> DEFINE r == [types |-> {},
                   systemDisk |-> lists[l].nodeClass.systemDisk,
                   base |-> {}, hidden |-> {}]
  <2>1. lists[l] # NotListing /\ ListDisk(lists[l])
    BY Zenon, <1>3, <1>c DEF ListMiss
  <2>2. r.systemDisk = lists[l].nodeClass.systemDisk
    OBVIOUS
  <2> HIDE DEF r
  <2>3. ListDisk(Building(lists[l], Offering, r))
    BY <2>1, <2>2 DEF ListDisk, Building
  <2>4. QED
    BY Zenon, <1>3, <1>a, <1>b, <2>3 DEF ListMiss, r
<1>4. ASSUME NEW l \in Lister, ListCNIError(l) \/ ListReturn(l)
      PROVE  DiskInv'
  <2>1. ListDisk(NotListing)
    BY DEF ListDisk
  <2>2. QED
    BY Zenon, <1>4, <1>a, <1>b, <2>1 DEF ListCNIError, ListReturn
<1>5. ASSUME NEW l \in Lister, NEW o \in Offering, CreateOffering(l, o)
      PROVE  DiskInv'
  <2> DEFINE r == ReadOffering(lists[l].result, o, lists[l].nodeClass)
  <2>1. lists[l] # NotListing /\ ListDisk(lists[l]) /\ lists[l].pc = "build"
    BY Zenon, <1>5, <1>c DEF CreateOffering
  <2>2. r.systemDisk = lists[l].result.systemDisk
    BY Zenon DEF ReadOffering
  <2> HIDE DEF r
  <2>3. ListDisk(Building(lists[l], lists[l].todo \ {o}, r))
    BY <2>1, <2>2 DEF ListDisk, Building
  <2>4. QED
    BY Zenon, <1>5, <1>a, <1>b, <2>3 DEF CreateOffering, r
<1>6. ASSUME NEW l \in Lister, ListStore(l)
      PROVE  DiskInv'
  <2>1. lists[l] # NotListing /\ ListDisk(lists[l]) /\ lists[l].pc = "build"
    BY Zenon, <1>6, <1>c DEF ListStore
  <2>2. DiskOfKey(lists[l].result, lists[l].key)
    BY Zenon, <2>1 DEF ListDisk, DiskOfKey
  <2>3. ListDisk(Done(lists[l], lists[l].result))
    BY <2>1, <2>2 DEF ListDisk, Done
  <2>4. \A e \in instanceTypesCache' : DiskOfKey(e.result, e.key)
    <3> SUFFICES ASSUME NEW e \in instanceTypesCache' PROVE DiskOfKey(e.result, e.key)
      OBVIOUS
    <3>1. e \in instanceTypesCache \/ e = [key |-> lists[l].key, result |-> lists[l].result]
      BY Zenon, <1>6 DEF ListStore, CacheSet
    <3>2. CASE e = [key |-> lists[l].key, result |-> lists[l].result]
      <4>1. e.result = lists[l].result /\ e.key = lists[l].key
        BY Zenon, <3>2
      <4>2. QED
        BY <2>2, <4>1
    <3>3. QED
      BY Zenon, <3>1, <3>2 DEF DiskInv
  <2>5. QED
    BY Zenon, <1>6, <1>a, <2>3, <2>4 DEF ListStore
<1>7. ASSUME UNCHANGED lists, instanceTypesCache' \subseteq instanceTypesCache
      PROVE  DiskInv'
  BY Zenon, <1>0, <1>7 DEF DiskInv
<1>8. CASE CacheExpire
  BY Zenon, <1>7, <1>8 DEF CacheExpire
<1>9. CASE RefreshNext
  BY Zenon, <1>7, <1>9 DEF RefreshNext, UpdateInstanceTypes, UpdateInstanceTypeOfferings,
                           UpdateOnDemandPricing, UpdateSpotPricing
<1>10. CASE OfferingsNext \/ UNCHANGED vars
  BY Zenon, <1>7, <1>10 DEF OfferingsNext, vars
<1>11. QED
  BY Zenon, <1>1, <1>2, <1>3, <1>4, <1>5, <1>6, <1>8, <1>9, <1>10 DEF Next, ListNext

LEMMA DiskInvariant == Spec => []DiskInv
<1>1. Init => DiskInv
  BY Zenon, TypeInit DEF Init, DiskInv, ListDisk
<1>2. QED
  BY <1>1, DiskStep, PTL DEF Spec

\* The key identifies the system disk: NodeClasses of the same zones and the same
\* kubelet configuration have the same disk.
KeyTellsDisk ==
    \A a, b \in NodeClass :
        a.vSwitchZones = b.vSwitchZones /\ a.kubelet = b.kubelet => a.systemDisk = b.systemDisk

\* The system disk of a List's result is the caller's whenever NodeClasses that share
\* a cache key share their system disk: what the key leaves out is the only way in
\* which the cache can answer for another disk (List, the comment on its key).
THEOREM DiskIfKeyTells == KeyTellsDisk => (Spec => []SystemDiskIsTheCallers)
<1> SUFFICES ASSUME KeyTellsDisk PROVE Spec => []SystemDiskIsTheCallers
  OBVIOUS
<1>1. DiskInv => SystemDiskIsTheCallers
  <2> SUFFICES ASSUME DiskInv, NEW l \in Lister, lists[l].pc = "done"
               PROVE  lists[l].result.systemDisk = lists[l].nodeClass.systemDisk
    BY Zenon DEF SystemDiskIsTheCallers
  <2>1. lists[l] # NotListing /\ ListDisk(lists[l])
    BY Zenon, ListShape DEF DiskInv
  <2>2. QED
    BY <2>1 DEF ListDisk, DiskOfKey, OfKey, KeyTellsDisk
<1>2. QED
  BY <1>1, DiskInvariant, PTL

-----------------------------------------------------------------------------
(* Lists and marks implement regular registers. *)

\* An operation that moves the history of an offering takes it from settled to
\* unsettled, or settles it at a counter value not seen before.
Turns(old, new) ==
    \/ new = old
    \/ new.state = "unsettled" /\ old.state # "unsettled"
    \/ old.state = "unsettled" /\ new.state # "unsettled" /\ new.since = seqNum + 1

\* Set or an expiry, and an announcement.
LEMMA UnsettleTurns ==
    ASSUME settled \in [Offering -> Settlement], NEW o \in Offering,
           NEW state \in {"unavailable", "available"}, Unsettle(o, state), NEW x \in Offering
    PROVE  Turns(settled[x], settled'[x])
<1>1. CASE x # o
  <2>1. settled'[x] = settled[x]
    BY Zenon, <1>1 DEF Unsettle
  <2>2. QED
    BY Zenon, <2>1 DEF Turns
<1>2. CASE x = o
  <2>1. settled'[x] = [settled[x] EXCEPT !.state = IF settled[x].state = state THEN "unsettled"
                                                   ELSE settled[x].state]
    BY Zenon, <1>2 DEF Unsettle
  <2>2. settled[x] \in Settlement
    BY Zenon
  <2>3. CASE settled[x].state = state
    <3>1. settled'[x].state = "unsettled" /\ state # "unsettled"
      BY <2>1, <2>2, <2>3 DEF Settlement
    <3>2. QED
      BY Zenon, <2>3, <3>1 DEF Turns
  <2>4. CASE settled[x].state # state
    BY <2>1, <2>2, <2>4 DEF Turns, Settlement
  <2>5. QED
    BY Zenon, <2>3, <2>4
<1>3. QED
  BY Zenon, <1>1, <1>2

LEMMA SettleTurns ==
    ASSUME settled \in [Offering -> Settlement], NEW o \in Offering,
           NEW state \in {"unavailable", "available"}, Settle(o, state, seqNum + 1),
           settled[o].state \in {state, "unsettled"}, NEW x \in Offering
    PROVE  Turns(settled[x], settled'[x])
<1>1. CASE x # o \/ settled[o].state = state
  <2>1. settled'[x] = settled[x]
    BY Zenon, <1>1 DEF Settle
  <2>2. QED
    BY Zenon, <2>1 DEF Turns
<1>2. CASE x = o /\ settled[o].state # state
  <2>1. settled'[x] = [state |-> state, since |-> seqNum + 1]
    BY Zenon, <1>2 DEF Settle
  <2>2. state # "unsettled" /\ settled[x].state = "unsettled"
    BY <1>2
  <2>3. QED
    BY <2>1, <2>2 DEF Turns
<1>3. QED
  BY Zenon, <1>1, <1>2

LEMMA OperationTurns ==
    ASSUME UnavailableTypeOK, SettledSound, UnavailableNext, NEW x \in Offering
    PROVE  Turns(settled[x], settled'[x])
<1>0. settled \in [Offering -> Settlement] /\ settled[x] \in Settlement
  BY Zenon DEF UnavailableTypeOK
<1>a. ASSUME settled' = settled PROVE Turns(settled[x], settled'[x])
  BY Zenon, <1>a DEF Turns
<1>b. ASSUME NEW o \in Offering
      PROVE  /\ unavailable[o] = "live" => settled[o].state \in {"unavailable", "unsettled"}
             /\ unavailable[o] # "live" => settled[o].state \in {"available", "unsettled"}
  <2>1. settled[o].state \in {"unavailable", "available", "unsettled"}
    BY Zenon, <1>0 DEF Settlement
  <2>2. QED
    BY <2>1 DEF SettledSound
<1>1. ASSUME NEW c \in Caller, NEW o \in Offering, MarkSet(c, o)
      PROVE  Turns(settled[x], settled'[x])
  BY Zenon, <1>0, <1>1, UnsettleTurns DEF MarkSet
<1>2. ASSUME NEW c \in Caller, MarkBump(c)
      PROVE  Turns(settled[x], settled'[x])
  <2>1. callers[c].offering \in Offering
    BY <1>2 DEF MarkBump, CallerState, Idle, UnavailableTypeOK
  <2>2. CASE IsUnavailable(callers[c].offering)
    <3>1. /\ Settle(callers[c].offering, "unavailable", seqNum + 1)
          /\ settled[callers[c].offering].state \in {"unavailable", "unsettled"}
      BY Zenon, <1>2, <1>b, <2>1, <2>2 DEF MarkBump, IsUnavailable
    <3>2. QED
      BY Zenon, <1>0, <2>1, <3>1, SettleTurns
  <2>3. QED
    BY Zenon, <1>2, <1>a, <2>2 DEF MarkBump
<1>3. ASSUME NEW c \in Caller, FlushCache(c)
      PROVE  Turns(settled[x], settled'[x])
  <2>1. settled'[x] = IF settled[x].state = "unavailable"
                      THEN [settled[x] EXCEPT !.state = "unsettled"] ELSE settled[x]
    BY Zenon, <1>3 DEF FlushCache
  <2>2. QED
    BY <1>0, <2>1 DEF Turns, Settlement
<1>4. ASSUME NEW c \in Caller, FlushBump(c)
      PROVE  Turns(settled[x], settled'[x])
  <2>1. settled'[x] = IF IsUnavailable(x) \/ settled[x].state = "available" THEN settled[x]
                      ELSE [state |-> "available", since |-> seqNum + 1]
    BY Zenon, <1>4 DEF FlushBump
  <2>2. QED
    BY <1>b, <2>1 DEF Turns, IsUnavailable
<1>5. ASSUME NEW o \in Offering, Expire(o)
      PROVE  Turns(settled[x], settled'[x])
  BY Zenon, <1>0, <1>5, UnsettleTurns DEF Expire
<1>6. ASSUME NEW o \in Offering, OnEvicted(o)
      PROVE  Turns(settled[x], settled'[x])
  <2>1. CASE ~IsUnavailable(o)
    <3>1. Settle(o, "available", seqNum + 1) /\ settled[o].state \in {"available", "unsettled"}
      BY Zenon, <1>6, <1>b, <2>1 DEF OnEvicted, IsUnavailable
    <3>2. QED
      BY Zenon, <1>0, <3>1, SettleTurns
  <2>2. QED
    BY Zenon, <1>6, <1>a, <2>1 DEF OnEvicted
<1>7. CASE JanitorSweep
  BY Zenon, <1>7, <1>a DEF JanitorSweep
<1>8. QED
  BY Zenon, <1>1, <1>2, <1>3, <1>4, <1>5, <1>6, <1>7 DEF UnavailableNext

\* What the registers show of the Lists.
Asked == [l \in Lister |-> AskedOf(lists[l], settled)]

Answers == [l \in Lister |-> AnswerOf(lists[l])]

RegularStep == [Regular!Next]_<<Known, Asked, Answers>>

\* A step that leaves the history, and shows nothing new of any List, is a stutter.
LEMMA RegularStutter ==
    ASSUME settled' = settled,
           \A l \in Lister : /\ AskedOf(lists'[l], settled) = AskedOf(lists[l], settled)
                             /\ AnswerOf(lists'[l]) = AnswerOf(lists[l])
    PROVE  RegularStep
<1>1. Known' = Known
  BY Zenon DEF Known
<1>2. Asked' = Asked
  BY Zenon DEF Asked
<1>3. Answers' = Answers
  BY Zenon DEF Answers
<1>4. QED
  BY Zenon, <1>1, <1>2, <1>3 DEF RegularStep

\* A step of List l shows at most what is new of l.
LEMMA RegularFrame ==
    ASSUME TypeOK, settled' = settled, NEW l \in Lister, NEW L,
           lists' = [lists EXCEPT ![l] = L]
    PROVE  /\ Known' = Known
           /\ Asked' = [Asked EXCEPT ![l] = AskedOf(L, settled)]
           /\ Answers' = [Answers EXCEPT ![l] = AnswerOf(L)]
           /\ Asked[l] = AskedOf(lists[l], settled) /\ Answers[l] = AnswerOf(lists[l])
           /\ Answers'[l] = AnswerOf(L)
<1>1. \A k \in Lister : k # l => lists'[k] = lists[k]
  BY Zenon DEF TypeOK
<1>2. lists'[l] = L
  BY Zenon DEF TypeOK
<1>3. \A k \in Lister : k # l => Asked'[k] = Asked[k] /\ Answers'[k] = Answers[k]
  <2> SUFFICES ASSUME NEW k \in Lister, k # l
               PROVE  Asked'[k] = Asked[k] /\ Answers'[k] = Answers[k]
    OBVIOUS
  <2>1. lists'[k] = lists[k]
    BY Zenon, <1>1
  <2>2. Asked'[k] = AskedOf(lists'[k], settled') /\ Answers'[k] = AnswerOf(lists'[k])
    BY Zenon DEF Asked, Answers
  <2>3. Asked[k] = AskedOf(lists[k], settled) /\ Answers[k] = AnswerOf(lists[k])
    BY Zenon DEF Asked, Answers
  <2>4. QED
    BY <2>1, <2>2, <2>3
<1>4. Asked'[l] = AskedOf(L, settled) /\ Answers'[l] = AnswerOf(L)
  <2>1. Asked'[l] = AskedOf(lists'[l], settled') /\ Answers'[l] = AnswerOf(lists'[l])
    BY Zenon DEF Asked, Answers
  <2>2. QED
    BY <1>2, <2>1
<1>5. Known' = Known
  BY Zenon DEF Known
<1>6. /\ Asked' = [k \in Lister |-> Asked'[k]] /\ Answers' = [k \in Lister |-> Answers'[k]]
      /\ DOMAIN Asked = Lister /\ DOMAIN Answers = Lister
  BY DEF Asked, Answers
<1>7. Asked[l] = AskedOf(lists[l], settled) /\ Answers[l] = AnswerOf(lists[l])
  BY Zenon DEF Asked, Answers
<1> HIDE DEF Asked, Answers
<1>8. QED
  BY Zenon, <1>3, <1>4, <1>5, <1>6, <1>7

\* What a List that goes on, or that is not under way, shows.
LEMMA AskedStays ==
    ASSUME NEW L, NEW M, NEW now, L # NotListing, M # NotListing, L.before = M.before
    PROVE  AskedOf(L, now) = AskedOf(M, now)
BY Zenon DEF AskedOf

LEMMA NotAsked ==
    ASSUME NEW now
    PROVE  AskedOf(NotListing, now) = Regular!Unasked /\ AnswerOf(NotListing) = Regular!NoAnswer
BY DEF AskedOf, AnswerOf, NotListing, Regular!Unasked, Regular!NoAnswer

LEMMA NotAnswered ==
    ASSUME NEW L, L.pc # "done"
    PROVE  AnswerOf(L) = Regular!NoAnswer
BY DEF AnswerOf, Regular!NoAnswer

\* A List that ends, and one that gets a result to return.
LEMMA EndStep ==
    ASSUME TypeOK, settled' = settled, NEW l \in Lister, lists' = [lists EXCEPT ![l] = NotListing]
    PROVE  RegularStep
<1>1. /\ Known' = Known
      /\ Asked' = [Asked EXCEPT ![l] = Regular!Unasked]
      /\ Answers' = [Answers EXCEPT ![l] = Regular!NoAnswer]
  <2>1. /\ Known' = Known
        /\ Asked' = [Asked EXCEPT ![l] = AskedOf(NotListing, settled)]
        /\ Answers' = [Answers EXCEPT ![l] = AnswerOf(NotListing)]
    BY Zenon, RegularFrame
  <2>2. AskedOf(NotListing, settled) = Regular!Unasked /\ AnswerOf(NotListing) = Regular!NoAnswer
    BY Zenon, NotAsked
  <2>3. QED
    BY Zenon, <2>1, <2>2
<1>2. Regular!List(l)
  BY Zenon, <1>1 DEF Regular!List, Regular!End, Asked, Answers
<1>3. QED
  BY Zenon, <1>2 DEF RegularStep, Regular!Next

LEMMA AnswerStep ==
    ASSUME HiddenInv, HiddenInv', settled' = settled, NEW l \in Lister, NEW r,
           lists[l] # NotListing, lists[l].pc # "done",
           lists' = [lists EXCEPT ![l] = Done(lists[l], r)]
    PROVE  RegularStep
<1> DEFINE L == Done(lists[l], r)
<1>0. TypeOK /\ lists'[l] = L
  BY Zenon DEF HiddenInv, TypeOK
<1>1. L # NotListing /\ L.before = lists[l].before /\ L.pc = "done" /\ L.result = r
  BY DEF Done, NotListing
<1>2. /\ AnswerOf(L).given /\ AnswerOf(L).available = Available(r)
      /\ AnswerOf(L).hidden = r.hidden
  BY Zenon, <1>1 DEF AnswerOf
<1> HIDE DEF L
<1>3. AskedOf(L, settled) = AskedOf(lists[l], settled)
  BY Zenon, <1>1, AskedStays
<1>4. AnswerOf(lists[l]) = Regular!NoAnswer
  BY Zenon, NotAnswered
<1>5. lists' = [lists EXCEPT ![l] = L]
  BY Zenon DEF L
<1>6. /\ Known' = Known
      /\ Asked' = [Asked EXCEPT ![l] = AskedOf(L, settled)]
      /\ Answers' = [Answers EXCEPT ![l] = AnswerOf(L)]
      /\ Asked[l] = AskedOf(lists[l], settled) /\ Answers[l] = AnswerOf(lists[l])
      /\ Answers'[l] = AnswerOf(L)
  BY Zenon, <1>0, <1>5, RegularFrame
<1>7. Asked' = Asked
  <2>1. Asked' = [Asked EXCEPT ![l] = Asked[l]]
    BY Zenon, <1>3, <1>6
  <2>2. Asked = [k \in Lister |-> Asked[k]]
    BY Zenon DEF Asked
  <2> HIDE DEF Asked
  <2>3. QED
    BY Zenon, <2>1, <2>2
<1>8. Answers' = [Answers EXCEPT ![l] = Answers'[l]]
  BY Zenon, <1>6
<1>9. ASSUME NEW o \in Offering
      PROVE  /\ Asked[l][o] = "unavailable" => o \notin Answers'[l].available
             /\ Asked[l][o] = "available" => o \notin Answers'[l].hidden
  <2>1. (MarkedOfferingsStayHidden /\ EvictedOfferingsComeBack)'
    BY HiddenInvImplies, PTL
  <2>2. lists'[l].before[o] = settled[o] =>
           /\ settled[o].state = "unavailable" => o \notin Available(r)
           /\ settled[o].state = "available" => o \notin r.hidden
    BY Zenon, <1>0, <1>1, <2>1
    DEF MarkedOfferingsStayHidden, EvictedOfferingsComeBack, SettledThroughout, Available
  <2>3. Asked[l][o] # "unsettled" =>
           Asked[l][o] = settled[o].state /\ lists[l].before[o] = settled[o]
    BY Zenon, <1>6 DEF AskedOf
  <2>4. lists'[l].before[o] = lists[l].before[o]
    BY <1>0, <1>1
  <2>5. QED
    BY <1>2, <1>6, <2>2, <2>3, <2>4
<1>10. Answers[l] = Regular!NoAnswer /\ Answers'[l].given
  BY <1>2, <1>4, <1>6
<1>11. Regular!Answer(l)
  BY Zenon, <1>7, <1>8, <1>9, <1>10 DEF Regular!Answer, Asked, Answers
<1>12. QED
  BY Zenon, <1>6, <1>11 DEF RegularStep, Regular!Next, Regular!List, Asked, Answers

\* An operation on the offerings: what is asked stays where nothing moved, and is
\* open where something did, even if it is settled again.
LEMMA OperateStep ==
    ASSUME HiddenInv, HiddenInv', UnavailableNext, lists' = lists
    PROVE  RegularStep
<1>0. /\ UnavailableTypeOK /\ SettledSound /\ TypeOK
      /\ settled \in [Offering -> Settlement] /\ settled' \in [Offering -> Settlement]
      /\ seqNum \in Nat
  BY Zenon DEF HiddenInv, TypeOK, UnavailableTypeOK
<1>1. ASSUME NEW o \in Offering PROVE Turns(settled[o], settled'[o])
  BY Zenon, <1>0, OperationTurns
<1>2. CASE \A o \in Offering : settled'[o].state = settled[o].state
  <2>1. \A o \in Offering : settled'[o] = settled[o]
    BY Zenon, <1>1, <1>2 DEF Turns
  <2>2. settled' = settled
    BY SMTT(30), <1>0, <2>1
  <2>3. QED
    BY Zenon, <2>2, RegularStutter
<1>3. CASE \E o \in Offering : settled'[o].state # settled[o].state
  <2>1. Known' # Known
    BY Zenon, <1>3 DEF Known
  <2>2. Known' \in [Offering -> Regular!State]
    BY Zenon, <1>0 DEF Known, Settlement, Regular!State
  <2>3. \A o \in Offering : /\ Known'[o] = settled'[o].state
                            /\ Known[o] = settled[o].state
    BY Zenon DEF Known
  <2>4. \A o \in Offering :
           Known'[o] # Known[o] => Known[o] = "unsettled" \/ Known'[o] = "unsettled"
    BY Zenon, <1>1, <2>3 DEF Turns
  <2>5. Answers' = Answers
    BY Zenon DEF Answers
  <2>6. ASSUME NEW l \in Lister, NEW o \in Offering
        PROVE  AskedOf(lists[l], settled')[o]
                 = IF Known'[o] = Known[o] THEN AskedOf(lists[l], settled)[o] ELSE "unsettled"
    <3>1. CASE settled'[o] = settled[o]
      BY Zenon, <2>3, <3>1 DEF AskedOf
    <3>2. CASE settled'[o].state = "unsettled" /\ settled[o].state # "unsettled"
      BY Zenon, <2>3, <3>2 DEF AskedOf
    <3>3. CASE /\ settled[o].state = "unsettled" /\ settled'[o].state # "unsettled"
               /\ settled'[o].since = seqNum + 1
      <4>1. lists[l] # NotListing => lists[l].before[o] # settled'[o]
        <5> SUFFICES ASSUME lists[l] # NotListing
                     PROVE  lists[l].before[o].since # settled'[o].since
          BY Zenon
        <5>1. /\ lists[l].before[o].since <= lists[l].key.unavailable
              /\ lists[l].key.unavailable <= seqNum
          BY Zenon DEF HiddenInv, ListReflects
        <5>2. lists[l].before[o].since \in Nat /\ lists[l].key.unavailable \in Nat
          <6>1. lists[l].before \in [Offering -> Settlement] /\ lists[l].key \in Key
            BY Zenon, <1>0, ListShape
          <6>2. QED
            BY Zenon, <6>1 DEF Settlement, Key
        <5>3. QED
          BY <1>0, <3>3, <5>1, <5>2
      <4>2. QED
        BY Zenon, <2>3, <3>3, <4>1 DEF AskedOf
    <3>4. QED
      BY Zenon, <1>1, <3>1, <3>2, <3>3 DEF Turns
  <2>7. Asked' = [l \in Lister |-> [o \in Offering |->
                     IF Known'[o] = Known[o] THEN Asked[l][o] ELSE "unsettled"]]
    <3>1. ASSUME NEW l \in Lister
          PROVE  AskedOf(lists[l], settled') = [o \in Offering |->
                    IF Known'[o] = Known[o] THEN AskedOf(lists[l], settled)[o] ELSE "unsettled"]
      <4>1. AskedOf(lists[l], settled') = [o \in Offering |-> AskedOf(lists[l], settled')[o]]
        BY Zenon DEF AskedOf
      <4>2. QED
        BY Zenon, <2>6, <4>1
    <3>2. \A l \in Lister : Asked'[l] = AskedOf(lists[l], settled')
      <4> SUFFICES ASSUME NEW l \in Lister PROVE Asked'[l] = AskedOf(lists[l], settled')
        OBVIOUS
      <4>1. Asked'[l] = AskedOf(lists'[l], settled')
        BY Zenon DEF Asked
      <4>2. QED
        BY <4>1
    <3>3. \A l \in Lister : Asked[l] = AskedOf(lists[l], settled)
      BY Zenon DEF Asked
    <3>4. Asked' = [l \in Lister |-> Asked'[l]]
      BY DEF Asked
    <3> HIDE DEF Asked, Known
    <3>5. \A l \in Lister : Asked'[l] = [o \in Offering |->
             IF Known'[o] = Known[o] THEN Asked[l][o] ELSE "unsettled"]
      BY Zenon, <3>1, <3>2, <3>3
    <3>6. QED
      BY Zenon, <3>4, <3>5
  <2>8. Regular!Operate
    BY Zenon, <2>1, <2>2, <2>4, <2>5, <2>7 DEF Regular!Operate, Asked, Answers
  <2>9. QED
    BY Zenon, <2>8 DEF RegularStep, Regular!Next
<1>4. QED
  BY Zenon, <1>2, <1>3

\* Every step maps to a step on the registers or to none.
LEMMA RegularSteps == HiddenInv /\ HiddenInv' /\ [Next]_vars => RegularStep
<1> SUFFICES ASSUME HiddenInv, HiddenInv', [Next]_vars PROVE RegularStep
  OBVIOUS
<1>0. TypeOK
  BY Zenon DEF HiddenInv
\* A List that goes on without a result to return.
<1>a. ASSUME NEW l \in Lister, NEW L, settled' = settled, lists' = [lists EXCEPT ![l] = L],
             lists[l] # NotListing, L # NotListing, L.before = lists[l].before,
             lists[l].pc # "done", L.pc # "done"
      PROVE  RegularStep
  <2>1. \A k \in Lister : lists'[k] = IF k = l THEN L ELSE lists[k]
    BY Zenon, <1>0, <1>a DEF TypeOK
  <2>2. AskedOf(L, settled) = AskedOf(lists[l], settled)
    BY Zenon, <1>a, AskedStays
  <2>3. AnswerOf(L) = AnswerOf(lists[l])
    BY Zenon, <1>a, NotAnswered
  <2>4. \A k \in Lister : /\ AskedOf(lists'[k], settled) = AskedOf(lists[k], settled)
                          /\ AnswerOf(lists'[k]) = AnswerOf(lists[k])
    <3> SUFFICES ASSUME NEW k \in Lister
                 PROVE  /\ AskedOf(lists'[k], settled) = AskedOf(lists[k], settled)
                        /\ AnswerOf(lists'[k]) = AnswerOf(lists[k])
      OBVIOUS
    <3>1. CASE k = l
      BY <2>1, <2>2, <2>3, <3>1
    <3>2. CASE k # l
      BY <2>1, <3>2
    <3>3. QED
      BY Zenon, <3>1, <3>2
  <2>5. QED
    BY Zenon, <1>a, <2>4, RegularStutter
<1>1. ASSUME NEW l \in Lister, NEW nc \in NodeClass, ListStart(l, nc)
      PROVE  RegularStep
  <2> DEFINE L == Listing(nc, CacheKey(nc), settled)
  <2>1. /\ settled' = settled /\ lists' = [lists EXCEPT ![l] = L] /\ lists[l] = NotListing
    BY Zenon, <1>1 DEF ListStart, unavailableVars
  <2>2. L # NotListing /\ L.before = settled /\ L.pc # "done"
    BY DEF Listing, NotListing
  <2> HIDE DEF L
  <2>3. AskedOf(L, settled) = Known
    BY Zenon, <2>2 DEF AskedOf, Known
  <2>4. AnswerOf(L) = Regular!NoAnswer
    BY Zenon, <2>2, NotAnswered
  <2>5. /\ Known' = Known
        /\ Asked' = [Asked EXCEPT ![l] = AskedOf(L, settled)]
        /\ Answers' = [Answers EXCEPT ![l] = AnswerOf(L)]
        /\ Asked[l] = AskedOf(lists[l], settled) /\ Answers[l] = AnswerOf(lists[l])
    BY Zenon, <1>0, <2>1, RegularFrame
  <2>6. Asked[l] = Regular!Unasked /\ Answers[l] = Regular!NoAnswer
    BY <2>1, <2>5, NotAsked
  <2>7. Asked' = [Asked EXCEPT ![l] = Known]
    BY Zenon, <2>3, <2>5
  <2>8. Answers' = Answers
    <3>1. Answers' = [Answers EXCEPT ![l] = Answers[l]]
      BY Zenon, <2>4, <2>5, <2>6
    <3>2. Answers = [k \in Lister |-> Answers[k]]
      BY DEF Answers
    <3> HIDE DEF Answers
    <3>3. QED
      BY Zenon, <3>1, <3>2
  <2>9. Regular!List(l)
    BY Zenon, <2>5, <2>6, <2>7, <2>8 DEF Regular!List, Regular!Begin, Asked, Answers
  <2>10. QED
    BY Zenon, <2>9 DEF RegularStep, Regular!Next
<1>2. ASSUME NEW l \in Lister, lists[l].pc \in {"lookup", "build"}
      PROVE  lists[l] # NotListing /\ lists[l].pc # "done"
  BY <1>0, <1>2, ListShape
<1>3. ASSUME NEW l \in Lister, ListHit(l) PROVE RegularStep
  <2>1. PICK e \in instanceTypesCache : lists' = [lists EXCEPT ![l] = Done(lists[l], e.result)]
    BY Zenon, <1>3 DEF ListHit
  <2>2. settled' = settled /\ lists[l] # NotListing /\ lists[l].pc # "done"
    BY Zenon, <1>2, <1>3 DEF ListHit, unavailableVars
  <2>3. QED
    BY Zenon, <2>1, <2>2, AnswerStep
<1>4. ASSUME NEW l \in Lister, ListStore(l) PROVE RegularStep
  <2>1. lists' = [lists EXCEPT ![l] = Done(lists[l], lists[l].result)]
    BY Zenon, <1>4 DEF ListStore
  <2>2. settled' = settled /\ lists[l] # NotListing /\ lists[l].pc # "done"
    BY Zenon, <1>2, <1>4 DEF ListStore, unavailableVars
  <2>3. QED
    BY Zenon, <2>1, <2>2, AnswerStep
<1>5. ASSUME NEW l \in Lister, ListMiss(l) PROVE RegularStep
  <2> DEFINE r == [types |-> {}, systemDisk |-> lists[l].nodeClass.systemDisk,
                   base |-> {}, hidden |-> {}]
             L == Building(lists[l], Offering, r)
  <2>1. settled' = settled /\ lists' = [lists EXCEPT ![l] = L]
    BY Zenon, <1>5 DEF ListMiss, unavailableVars
  <2>2. lists[l] # NotListing /\ lists[l].pc # "done"
    BY Zenon, <1>2, <1>5 DEF ListMiss
  <2>3. L # NotListing /\ L.before = lists[l].before /\ L.pc # "done"
    BY DEF Building, NotListing
  <2> HIDE DEF L
  <2>4. QED
    BY Zenon, <1>a, <2>1, <2>2, <2>3
<1>6. ASSUME NEW l \in Lister, NEW o \in Offering, CreateOffering(l, o) PROVE RegularStep
  <2> DEFINE r == ReadOffering(lists[l].result, o, lists[l].nodeClass)
             L == Building(lists[l], lists[l].todo \ {o}, r)
  <2>1. settled' = settled /\ lists' = [lists EXCEPT ![l] = L]
    BY Zenon, <1>6 DEF CreateOffering, unavailableVars
  <2>2. lists[l] # NotListing /\ lists[l].pc # "done"
    BY Zenon, <1>2, <1>6 DEF CreateOffering
  <2> HIDE DEF r
  <2>3. L # NotListing /\ L.before = lists[l].before /\ L.pc # "done"
    BY DEF Building, NotListing
  <2> HIDE DEF L
  <2>4. QED
    BY Zenon, <1>a, <2>1, <2>2, <2>3
<1>7. ASSUME NEW l \in Lister, ListCNIError(l) \/ ListReturn(l) PROVE RegularStep
  BY Zenon, <1>0, <1>7, EndStep DEF ListCNIError, ListReturn, unavailableVars
<1>8. CASE UNCHANGED <<settled, lists>>
  BY Zenon, <1>8, RegularStutter
<1>9. CASE CacheExpire \/ RefreshNext \/ UNCHANGED vars
  BY Zenon, <1>8, <1>9 DEF CacheExpire, RefreshNext, UpdateInstanceTypes,
     UpdateInstanceTypeOfferings, UpdateOnDemandPricing, UpdateSpotPricing, vars, unavailableVars
<1>10. CASE OfferingsNext
  BY Zenon, <1>10, OperateStep DEF OfferingsNext
<1>11. QED
  BY Zenon, <1>1, <1>3, <1>4, <1>5, <1>6, <1>7, <1>9, <1>10 DEF Next, ListNext

\* Lists, marks and evictions, with the go-cache, its janitor, SeqNum and results
\* cached under keys, implement one regular register for each offering (List,
\* MarkUnavailable), for any types, zones, callers, listers and NodeClasses.
THEOREM ListsRegular == Spec => ListsAreRegular
<1>1. Init => Regular!Init
  <2> SUFFICES ASSUME Init PROVE Regular!Init
    OBVIOUS
  <2>1. settled = [o \in Offering |-> [state |-> "available", since |-> 0]]
        /\ lists = [l \in Lister |-> NotListing]
    BY Zenon DEF Init, UnavailableInit
  <2>2. Known = [o \in Offering |-> "available"]
    BY <2>1 DEF Known
  <2>3. \A l \in Lister : /\ AskedOf(lists[l], settled) = Regular!Unasked
                          /\ AnswerOf(lists[l]) = Regular!NoAnswer
    BY <2>1, NotAsked
  <2>4. QED
    BY Zenon, <2>2, <2>3 DEF Regular!Init
<1>2. HiddenInv /\ HiddenInv' /\ [Next]_vars =>
        [Regular!Next]_<<Known, [l \in Lister |-> AskedOf(lists[l], settled)],
                         [l \in Lister |-> AnswerOf(lists[l])]>>
  BY Zenon, RegularSteps DEF RegularStep, Asked, Answers
<1>3. QED
  BY <1>1, <1>2, HiddenInvariant, PTL DEF Spec, ListsAreRegular, Regular!Spec

=============================================================================
