------------------------------- MODULE MCImages -------------------------------
EXTENDS Images, TLC

CONSTANTS alias, a, b, c, x86, arm, n1, n2

\* The alias has an image for both architectures, other ones after an upgrade,
\* and ACK lists a second x86 image.  a and b are images for x86, c is for arm.
ResolvedImages ==
    [t \in {alias, a, b, c} |-> [v \in 0 .. MaxVersion |->
        IF t = alias
        THEN <<[arch |-> x86, id |-> <<alias, v>>], [arch |-> arm, id |-> <<alias, v>>],
               [arch |-> x86, id |-> <<x86, v>>]>>
        ELSE <<[arch |-> IF t = c THEN arm ELSE x86, id |-> <<t, 0>>]>>]]

Symmetry == Permutations({n1, n2})

\* An alias stands alone, as the validation of the CRD demands.
SelectorTerms == {<<alias>>, <<a, b>>, <<a, c>>}

=============================================================================
