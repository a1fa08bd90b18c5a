----------------------------- MODULE MCSession -----------------------------
\* Instances of Session for TLC.
EXTENDS SessionProperties, TLC

Symmetry == Permutations(Sessions)
=============================================================================
