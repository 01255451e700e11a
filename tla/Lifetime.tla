------------------------------ MODULE Lifetime ------------------------------
(***************************************************************************)
(* What finalizers are for: something that others use is removed only when *)
(* nobody uses it, and stays removed.  It may be acquired while it waits   *)
(* for its removal, but not after.                                         *)
(***************************************************************************)
CONSTANT User

VARIABLES
    phase,  \* "present", "deleting" or "gone"
    using   \* its users

lifetimeVars == <<phase, using>>

LifetimeInit == phase = "present" /\ using = {}

Acquire(u) ==
    /\ phase # "gone"
    /\ using' = using \cup {u}
    /\ UNCHANGED phase

LetGo(u) ==
    /\ using' = using \ {u}
    /\ UNCHANGED phase

AskRemoval ==
    /\ phase = "present"
    /\ phase' = "deleting"
    /\ UNCHANGED using

Remove ==
    /\ using = {}
    /\ phase' = "gone"
    /\ UNCHANGED using

LifetimeNext == (\E u \in User : Acquire(u) \/ LetGo(u)) \/ AskRemoval \/ Remove

LifetimeSpec == LifetimeInit /\ [][LifetimeNext]_lifetimeVars

=============================================================================
