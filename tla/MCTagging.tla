------------------------------ MODULE MCTagging ------------------------------
EXTENDS Tagging, TLC

\* The controller and one other user of the provider.
Callers == {"tagging", "other"}

Symmetry == Permutations(Tag)

=============================================================================
