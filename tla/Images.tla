-------------------------------- MODULE Images --------------------------------
(***************************************************************************)
(* The images of NodeClasses: the image provider                           *)
(* (pkg/providers/imagefamily/image.go), which caches what the selector    *)
(* terms resolve to, on top of the version provider                        *)
(* (pkg/providers/version/version.go), which caches the Kubernetes version *)
(* that aliases are resolved for, and the reconciler that puts the result  *)
(* into the status.  List holds the provider's mutex throughout.  Time     *)
(* passes in ticks.                                                        *)
(***************************************************************************)
EXTENDS Naturals, Sequences, Functions

CONSTANTS
    NodeClass,
    Term,           \* selector terms
    Resolved,       \* Resolved[term][version]: the images, [arch, id], that ACK
                    \* or ECS lists for a term, in order, families filtered
    Specs,          \* the imageSelectorTerms a NodeClass may have: sequences
    VersionTTL,     \* KubernetesVersionTTL, in ticks
    ImageTTL,       \* DefaultTTL, in ticks
    ListDelay,      \* the ticks a List may take
    MaxVersion      \* bound: upgrades of the cluster

ASSUME TTLAssumption ==
    {VersionTTL, ImageTTL} \subseteq Nat \ {0} /\ {ListDelay, MaxVersion} \subseteq Nat

Terms == Seq(Term)

ASSUME SpecsAssumption == Specs \subseteq Terms

VARIABLES
    version,        \* of the API server
    versionCache,
    cache,          \* the provider's: what it has for each set of terms
    terms,          \* spec.imageSelectorTerms of each NodeClass
    images,         \* status.images of each NodeClass
    list,           \* the List in progress
    \* History: ticks since the last upgrade, up to Stale.
    since

imagesVars == <<version, versionCache, cache, terms, images, list, since>>

Image == UNION {Range(Resolved[t][v]) : t \in Term, v \in 0 .. MaxVersion}

ASSUME ResolvedAssumption ==
    \A t \in Term, v \in 0 .. MaxVersion : Resolved[t][v] \in Seq(Image)

\* One more tick than a version may be out of date and still be used: the List that
\* was told the version, the entry it makes of it, the List that resolves terms for
\* that, its entry in the cache, and the List that finds that one, each at its last
\* moment.
Stale == ListDelay + VersionTTL + ListDelay + ImageTTL + ListDelay - 1

\* Entries with ttl = 0 have expired.
VersionEntry == [version : 0 .. MaxVersion, ttl : 0 .. VersionTTL]

Entry == [images : SUBSET Image, ttl : 0 .. ImageTTL]

\* Its NodeClass and terms, the version it resolves them for, the terms still to
\* be resolved, and what it has.
ListState ==
    [pc : {"idle", "version", "discovered", "lookup", "resolve", "returned"}, nodeClass : NodeClass,
     terms : Specs, k8sVersion : 0 .. MaxVersion, todo : Terms,
     images : SUBSET Image, left : 0 .. ListDelay]

Keys == {Range(s) : s \in Specs}

ImagesTypeOK ==
    /\ version \in 0 .. MaxVersion
    /\ versionCache \in VersionEntry
    /\ cache \in [Keys -> Entry]
    /\ terms \in [NodeClass -> Specs]
    /\ images \in [NodeClass -> SUBSET Image]
    /\ list \in ListState
    /\ since \in 0 .. Stale

ImagesInit ==
    /\ version = 0
    /\ versionCache = [version |-> 0, ttl |-> 0]
    /\ cache = [k \in Keys |-> [images |-> {}, ttl |-> 0]]
    /\ terms \in [NodeClass -> Specs]
    /\ images = [nc \in NodeClass |-> {}]
    /\ \E nc \in NodeClass :
          list = [pc |-> "idle", nodeClass |-> nc, terms |-> terms[nc], k8sVersion |-> 0,
                  todo |-> <<>>, images |-> {}, left |-> 0]
    /\ since = Stale

-----------------------------------------------------------------------------
\* The status controller lists the images of a NodeClass.
ListStart(nc) ==
    /\ list.pc = "idle"
    /\ list' = [list EXCEPT !.pc = "version", !.nodeClass = nc, !.terms = terms[nc],
                            !.left = ListDelay]
    /\ UNCHANGED <<version, versionCache, cache, terms, images, since>>

VersionHitRenews ==
    /\ list.pc = "version"
    /\ versionCache.ttl > 0
    /\ versionCache' = [versionCache EXCEPT !.ttl = VersionTTL]
    /\ list' = [list EXCEPT !.pc = "lookup", !.k8sVersion = versionCache.version]
    /\ UNCHANGED <<version, cache, terms, images, since>>

\* Get of the version provider: the cached version ...
VersionHit ==
    /\ list.pc = "version"
    /\ versionCache.ttl > 0
    /\ list' = [list EXCEPT !.pc = "lookup", !.k8sVersion = versionCache.version]
    /\ UNCHANGED <<version, versionCache, cache, terms, images, since>>

\* ... or the one the server answers with ...
ServerVersion ==
    /\ list.pc = "version"
    /\ versionCache.ttl = 0
    /\ list' = [list EXCEPT !.pc = "discovered", !.k8sVersion = version]
    /\ UNCHANGED <<version, versionCache, cache, terms, images, since>>

\* ... which is cached when the answer has come.
VersionStore ==
    /\ list.pc = "discovered"
    /\ versionCache' = [version |-> list.k8sVersion, ttl |-> VersionTTL]
    /\ list' = [list EXCEPT !.pc = "lookup"]
    /\ UNCHANGED <<version, cache, terms, images, since>>

KeyOfFirst(spec) == CHOOSE k \in Keys : spec[1] \in k

\* The key of the cache: a hash of the terms with SlicesAsSets.
Key(spec) == Range(spec)

\* GetImages finds the terms in the cache ...
LookupHit ==
    LET entry == cache[Key(list.terms)] IN
    /\ list.pc = "lookup"
    /\ entry.ttl > 0
    /\ list' = [list EXCEPT !.pc = "returned", !.images = entry.images]
    /\ UNCHANGED <<version, versionCache, cache, terms, images, since>>

\* ... or resolves them one after the other.
LookupMiss ==
    /\ list.pc = "lookup"
    /\ cache[Key(list.terms)].ttl = 0
    /\ list' = [list EXCEPT !.pc = "resolve", !.todo = list.terms, !.images = {}]
    /\ UNCHANGED <<version, versionCache, cache, terms, images, since>>

KeepAll(have, found) == have \cup Range(found)

\* Of the images with the same requirements the first is kept.
KeepFirst(have, found) ==
    have \cup {found[k] : k \in {n \in DOMAIN found :
                   /\ \A i \in have : i.arch # found[n].arch
                   /\ \A j \in 1 .. n - 1 : found[j].arch # found[n].arch}}

ResolveTerm ==
    /\ list.pc = "resolve"
    /\ list.todo # <<>>
    /\ list' = [list EXCEPT
          !.todo = Tail(@),
          !.images = KeepFirst(@, Resolved[Head(list.todo)][list.k8sVersion])]
    /\ UNCHANGED <<version, versionCache, cache, terms, images, since>>

Store ==
    /\ list.pc = "resolve"
    /\ list.todo = <<>>
    /\ cache' = [cache EXCEPT ![Key(list.terms)] = [images |-> list.images, ttl |-> ImageTTL]]
    /\ list' = [list EXCEPT !.pc = "returned"]
    /\ UNCHANGED <<version, versionCache, terms, images, since>>

\* The server, ACK or ECS fails, or the alias is not a known family: List fails
\* without a trace, and the status stays as it is.
ListFails ==
    /\ \/ list.pc = "version" /\ versionCache.ttl = 0
       \/ list.pc = "resolve" /\ list.todo # <<>>
    /\ list' = [list EXCEPT !.pc = "idle", !.images = {}, !.todo = <<>>]
    /\ UNCHANGED <<version, versionCache, cache, terms, images, since>>

\* Reconcile of the status's images.
SetStatus ==
    /\ list.pc = "returned"
    /\ images' = [images EXCEPT ![list.nodeClass] = list.images]
    /\ list' = [list EXCEPT !.pc = "idle", !.images = {}]
    /\ UNCHANGED <<version, versionCache, cache, terms, since>>

-----------------------------------------------------------------------------
Upgrade ==
    /\ version < MaxVersion
    /\ version' = version + 1
    /\ since' = 0
    /\ UNCHANGED <<versionCache, cache, terms, images, list>>

EditTerms(nc, spec) ==
    /\ spec # terms[nc]
    /\ terms' = [terms EXCEPT ![nc] = spec]
    /\ UNCHANGED <<version, versionCache, cache, images, list, since>>

\* What is left of a time to live after a tick.
Elapse(n) == IF n = 0 THEN 0 ELSE n - 1

Tick ==
    /\ list.pc # "idle" => list.left > 0
    /\ versionCache' = [versionCache EXCEPT !.ttl = Elapse(@)]
    /\ cache' = [k \in Keys |-> [cache[k] EXCEPT !.ttl = Elapse(@)]]
    /\ list' = [list EXCEPT !.left = Elapse(@)]
    /\ since' = IF since = Stale THEN Stale ELSE since + 1
    /\ UNCHANGED <<version, terms, images>>

ImagesNext ==
    \/ \E nc \in NodeClass : ListStart(nc)
    \/ VersionHit \/ ServerVersion \/ VersionStore
    \/ LookupHit \/ LookupMiss \/ ResolveTerm \/ Store \/ ListFails \/ SetStatus
    \/ Upgrade \/ Tick
    \/ \E nc \in NodeClass, spec \in Specs : EditTerms(nc, spec)

ImagesSpec == ImagesInit /\ [][ImagesNext]_imagesVars

-----------------------------------------------------------------------------
\* The image an instance type gets does not depend on the order in which the
\* images come out of a map (lo.Values): mapToInstanceTypes finds at most one
\* that matches.
OneImagePerArch ==
    \A nc \in NodeClass : \A i, j \in images[nc] : i.arch = j.arch => i = j

\* List returns only images of the terms it was given, for a version the cluster
\* has had: no other NodeClass's, and none of a term that the spec has dropped,
\* although NodeClasses share the cache.
ImagesAreOfTheTerms ==
    list.pc = "returned" =>
        \E v \in 0 .. version : \A i \in list.images :
            \E t \in Range(list.terms) : i \in Range(Resolved[t][v])

\* The images of a version are used for a bounded time after an upgrade, which is
\* the sum of what the two caches, one filled from the other, and the Lists that
\* fill and read them allow: then List returns only images of the cluster's version.
ImagesFollowUpgrades ==
    list.pc = "returned" /\ since = Stale =>
        list.images \subseteq UNION {Range(Resolved[t][version]) : t \in Range(list.terms)}

=============================================================================
