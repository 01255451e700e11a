------------------------------- MODULE MCLaunch -------------------------------
EXTENDS Launch, TLC

CONSTANTS t1, t2, t3, z1, z2

OnDemand == t1 :> 2

\* t1 has a spot price in both zones, t2 in one of them or in both, t3 in one; only
\* t1 has an on-demand price.
Spot ==
    {(<<t1, z1>> :> 2) @@ (<<t1, z2>> :> p) @@ (<<t2, z2>> :> 1) @@ (<<t3, z1>> :> 2) @@ u :
        p \in {1, 2, 3}, u \in {<<>>, <<t2, z1>> :> 3}}

NoneOrOne == {{}, {t2}}

\* A NodeClaim requires a zone, or none.
OneOrBothZones == {{z1}, {z1, z2}}

\* At first everything is available that can be; what is not then follows from marks.
MCInit == Init /\ available = Offerable

MCSpec == MCInit /\ [][Next]_vars

=============================================================================
