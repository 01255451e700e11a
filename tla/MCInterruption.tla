---------------------------- MODULE MCInterruption ----------------------------
EXTENDS Interruption

CONSTANTS t1, z1, n2

\* The labels of n2's NodeClaim do not tell its offering.
OneUnlabelled == [n \in Node \ {n2} |-> [type |-> t1, zone |-> z1, cap |-> "spot"]]

=============================================================================
