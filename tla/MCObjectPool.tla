----------------------------- MODULE MCObjectPool -----------------------------
\* Small instances of ObjectPool for TLC.
EXTENDS ObjectPool

Symmetry == Permutations(Objects) \cup Permutations(Threads)
================================================================================
