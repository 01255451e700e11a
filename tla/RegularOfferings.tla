--------------------------- MODULE RegularOfferings ---------------------------
(***************************************************************************)
(* What the unavailable offerings and the instance type provider promise   *)
(* together, with no go-cache, janitor, counter, key or cached result:     *)
(* every offering is a regular register.  Operations on it unsettle it and *)
(* settle it; a List during which nothing happens to a settled offering    *)
(* answers as it is settled, and any other List may answer either way.     *)
(***************************************************************************)
CONSTANTS Offering, Lister

VARIABLES
    known,      \* what the completed operations have settled
    asked,      \* for each List, what was settled when it began and still is
    answer

State == {"unavailable", "available", "unsettled"}

Unasked == [o \in Offering |-> "unsettled"]

NoAnswer == [given |-> FALSE, available |-> {}, hidden |-> {}]

Init ==
    /\ known = [o \in Offering |-> "available"]
    /\ asked = [l \in Lister |-> Unasked]
    /\ answer = [l \in Lister |-> NoAnswer]

\* Marks, flushes, expiries and evictions.  None takes an offering from settled to
\* settled the other way in one step.
Operate ==
    /\ known' # known
    /\ known' \in [Offering -> State]
    /\ \A o \in Offering :
          known'[o] # known[o] => known[o] = "unsettled" \/ known'[o] = "unsettled"
    /\ asked' = [l \in Lister |-> [o \in Offering |->
                    IF known'[o] = known[o] THEN asked[l][o] ELSE "unsettled"]]
    /\ UNCHANGED answer

Begin(l) ==
    /\ answer[l] = NoAnswer /\ answer' = answer
    /\ asked[l] = Unasked
    /\ asked' = [asked EXCEPT ![l] = known]

Answer(l) ==
    /\ answer[l] = NoAnswer /\ answer'[l].given
    /\ \A o \in Offering :
          /\ asked[l][o] = "unavailable" => o \notin answer'[l].available
          /\ asked[l][o] = "available" => o \notin answer'[l].hidden
    /\ answer' = [answer EXCEPT ![l] = answer'[l]]
    /\ asked' = asked

End(l) ==
    /\ asked' = [asked EXCEPT ![l] = Unasked]
    /\ answer' = [answer EXCEPT ![l] = NoAnswer]

List(l) == (End(l) \/ Begin(l) \/ Answer(l)) /\ UNCHANGED known

Next == Operate \/ \E l \in Lister : List(l)

Spec == Init /\ [][Next]_<<known, asked, answer>>

=============================================================================
