------------------------------ MODULE MCVSwitch ------------------------------
EXTENDS VSwitch, TLC

CONSTANTS va, vb, z1, small, large

OneZone == (va :> z1) @@ (vb :> z1)

InStatus == <<va, vb>>

TwoTerms == <<{va, vb}, {vb}>>

PodsOfTypes == (small :> 1) @@ (large :> 2)

Symmetry == Permutations(Launch)

=============================================================================
