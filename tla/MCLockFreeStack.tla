---------------------------- MODULE MCLockFreeStack ----------------------------
\* Small instances of LockFreeStack for TLC.
EXTENDS LockFreeStack

Symmetry == Permutations(Objects) \cup Permutations(Poppers) \cup Permutations(Items)
================================================================================
