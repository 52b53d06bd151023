--------------------------- MODULE MCSessionLifetime ---------------------------
\* Small instances of SessionLifetime for TLC.
EXTENDS SessionLifetime, TLC

Symmetry == Permutations(Workers) \cup Permutations(Callers)
================================================================================
