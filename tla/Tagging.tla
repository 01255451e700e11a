------------------------------- MODULE Tagging -------------------------------
(***************************************************************************)
(* The tagging controller (pkg/controllers/nodeclaim/tagging): once a      *)
(* NodeClaim knows its Node, the instance is given the tags it lacks, and  *)
(* the NodeClaim the annotations that say so.  Which tags it lacks is read *)
(* from the instance provider's cache, whose entries keep the tags that    *)
(* ECS described some time ago; caller "tagging" is the controller, which  *)
(* handles one NodeClaim at a time, the other callers are the provider's   *)
(* other users.                                                            *)
(***************************************************************************)
EXTENDS InstanceProvider

CONSTANT Tag    \* the keys the controller sets

ASSUME TaggingAssumption == "tagging" \in Caller

VARIABLES
    tags,       \* the tags of each instance in ECS
    cachedTags, \* the tags in its entry of instanceCache
    callTags,   \* the tags of the instances that a call has been given
    claims,     \* the NodeClaim of each instance
    queue,
    tagger      \* Reconcile

tagVars == <<tags, cachedTags, callTags>>

controllerVars == <<tagVars, claims, queue, tagger>>

taggingVars == <<providerVars, controllerVars>>

NoTags == [i \in Instance |-> {}]

\* registered: Status.NodeName is set.
TaggedClaim == [phase : {"launched", "registered", "deleting", "gone"}, annotated : BOOLEAN]

TaggingTypeOK ==
    /\ ProviderTypeOK
    /\ tags \in [Instance -> SUBSET Tag] /\ cachedTags \in [Instance -> SUBSET Tag]
    /\ callTags \in [Caller -> [Instance -> SUBSET Tag]]
    /\ claims \in [Instance -> TaggedClaim]
    /\ queue \subseteq Instance
    /\ tagger \in [pc : {"idle", "get", "create", "tags", "patch"}, id : Instance,
                   missing : SUBSET Tag]

TaggingInit ==
    /\ ProviderInit
    /\ tags = NoTags /\ cachedTags = NoTags
    /\ callTags = [p \in Caller |-> NoTags]
    /\ claims = [i \in Instance |-> [phase |-> "launched", annotated |-> FALSE]]
    /\ queue = {}
    /\ \E i \in Instance : tagger = [pc |-> "idle", id |-> i, missing |-> {}]

IsTaggable(i) == claims[i].phase = "registered" /\ ~claims[i].annotated

-----------------------------------------------------------------------------
\* getTags: an instance is launched with the tags of the NodeClass's spec, which
\* may use keys of the controller's.
LaunchTagged(i) ==
    /\ Launch(i)
    /\ \E t \in SUBSET Tag : tags' = [tags EXCEPT ![i] = t]
    /\ UNCHANGED <<cachedTags, callTags, claims, queue, tagger>>

\* The NodeClaim changes; the event filter queues it if it is taggable now.
ClaimBecomes(i, from, to) ==
    /\ ecs[i] # "None"
    /\ claims[i].phase \in from
    /\ claims' = [claims EXCEPT ![i].phase = to]
    /\ queue' = IF to = "registered" /\ ~claims[i].annotated THEN queue \cup {i} ELSE queue
    /\ UNCHANGED <<providerVars, tagVars, tagger>>

ClaimEvent(i) ==
    /\ IsTaggable(i)
    /\ queue' = queue \cup {i}
    /\ UNCHANGED <<providerVars, tagVars, claims, tagger>>

-----------------------------------------------------------------------------
\* What a step of the provider does with tags: a listing has those of ECS or of
\* the cache, storing it takes them into the cache, an entry that is hit gives
\* them to the caller.  AddTags may have added them though it seemed to fail.
CarryTags(p) ==
    LET c == calls[p]
        found == calls'[p].pc
        view == CASE c.pc = "items" -> cachedTags
                  [] c.pc = "describe" /\ found # "error" -> tags
                  [] c.pc \in {"lookup", "reread"} /\ found = "ok" -> cachedTags
                  [] c.pc = "resync" -> NoTags
                  [] OTHER -> callTags[p]
        added == [tags EXCEPT ![c.id] = @ \cup tagger.missing]
    IN  /\ callTags' = [callTags EXCEPT ![p] = view]
        /\ cachedTags' = [i \in Instance |->
              CASE c.pc \in {"store", "resync"} /\ c.instances[i] # "None" -> callTags[p][i]
                [] c.pc = "forget" /\ i = c.id -> {}
                [] OTHER -> cachedTags[i]]
        /\ tags' \in CASE c.pc = "tag" /\ found = "list" -> {added}
                      [] c.pc = "tag" /\ found = "error" -> {tags, added}
                      [] OTHER -> {tags}

CallStep(p) ==
    /\ ProviderStep(p)
    /\ CarryTags(p)
    /\ UNCHANGED <<claims, queue, tagger>>

\* The other users of the provider.
OtherCall(p) ==
    /\ p # "tagging"
    /\ \/ StartList(p) /\ UNCHANGED callTags
       \/ \E i \in Instance : (StartGet(p, i) \/ StartDelete(p, i)) /\ UNCHANGED callTags
       \/ Return(p) /\ callTags' = [callTags EXCEPT ![p] = NoTags]
    /\ UNCHANGED <<tags, cachedTags, claims, queue, tagger>>

TickTags ==
    /\ TickCaches
    /\ cachedTags' = [i \in Instance |->
          IF instanceCache'[i].ttl = 0 THEN {} ELSE cachedTags[i]]
    /\ UNCHANGED <<tags, callTags, claims, queue, tagger>>

-----------------------------------------------------------------------------
\* Reconcile; tagInstance gets the instance.
Reconcile(i) ==
    /\ tagger.pc = "idle" /\ i \in queue
    /\ queue' = queue \ {i}
    /\ IF IsTaggable(i)
       THEN StartGet("tagging", i) /\ tagger' = [tagger EXCEPT !.pc = "get", !.id = i]
       ELSE UNCHANGED <<providerVars, tagger>>
    /\ UNCHANGED <<tagVars, claims>>

ReturnsIgnoringNotFound(pc, next, missing) ==
    LET result == calls["tagging"].pc IN
    /\ tagger.pc = pc
    /\ Return("tagging")
    /\ callTags' = [callTags EXCEPT !["tagging"] = NoTags]
    /\ tagger' = IF result \in {"ok", "notFound"}
                 THEN [tagger EXCEPT !.pc = next, !.missing = missing]
                 ELSE [tagger EXCEPT !.pc = "idle", !.missing = {}]
    /\ queue' = IF result \in {"ok", "notFound"} THEN queue ELSE queue \cup {tagger.id}
    /\ UNCHANGED <<tags, cachedTags, claims>>

\* A call of the provider returns: after its success Reconcile goes on with next;
\* an instance that is not found ends it, any other error queues it again.
Returns(pc, next, missing) ==
    LET result == calls["tagging"].pc IN
    /\ tagger.pc = pc
    /\ Return("tagging")
    /\ callTags' = [callTags EXCEPT !["tagging"] = NoTags]
    /\ tagger' = IF result = "ok" THEN [tagger EXCEPT !.pc = next, !.missing = missing]
                 ELSE [tagger EXCEPT !.pc = "idle", !.missing = {}]
    /\ queue' = IF result \in {"ok", "notFound"} THEN queue ELSE queue \cup {tagger.id}
    /\ UNCHANGED <<tags, cachedTags, claims>>

\* The tags that the instance found does not have are to be created.
GotInstance ==
    LET missing == Tag \ callTags["tagging"][tagger.id] IN
    Returns("get", IF missing = {} THEN "patch" ELSE "create", missing)

CreateTags ==
    /\ tagger.pc = "create"
    /\ StartCreateTags("tagging", tagger.id)
    /\ tagger' = [tagger EXCEPT !.pc = "tags"]
    /\ UNCHANGED <<tagVars, claims, queue>>

CreatedTags == Returns("tags", "patch", {})

\* The annotations are patched; a NodeClaim that is gone is no error.
PatchAnnotations ==
    /\ tagger.pc = "patch"
    /\ tagger' = [tagger EXCEPT !.pc = "idle"]
    /\ claims' = IF claims[tagger.id].phase = "gone" THEN claims
                 ELSE [claims EXCEPT ![tagger.id].annotated = TRUE]
    /\ UNCHANGED <<providerVars, tagVars, queue>>

PatchAnnotationsFails ==
    /\ tagger.pc = "patch"
    /\ tagger' = [tagger EXCEPT !.pc = "idle"]
    /\ queue' = queue \cup {tagger.id}
    /\ UNCHANGED <<providerVars, tagVars, claims>>

TaggerNext ==
    \/ \E i \in Instance : Reconcile(i)
    \/ GotInstance \/ CreateTags \/ CreatedTags \/ PatchAnnotations \/ PatchAnnotationsFails

TaggingNext ==
    \/ TaggerNext
    \/ \E i \in Instance :
          \/ LaunchTagged(i) \/ ClaimEvent(i)
          \/ ClaimBecomes(i, {"launched"}, "registered")
          \/ ClaimBecomes(i, {"launched", "registered"}, "deleting")
          \/ ClaimBecomes(i, {"deleting"}, "gone")
          \/ (Boot(i) \/ Stop(i) \/ Restart(i) \/ Release(i)) /\ UNCHANGED controllerVars
    \/ \E p \in Caller : CallStep(p) \/ OtherCall(p)
    \/ TickTags

TaggingSpec == TaggingInit /\ [][TaggingNext]_taggingVars

-----------------------------------------------------------------------------
\* A NodeClaim is annotated as tagged only if its instance has every tag, though
\* the tags are compared with a cached instance, which may have been described
\* before they were added, and though any of the calls on the way may fail or
\* find the instance gone (Reconcile, tagInstance, CreateTags).
AnnotatedIsTagged ==
    \A i \in Instance : claims[i].annotated => tags[i] = Tag

=============================================================================
