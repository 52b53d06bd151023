---------------------------- MODULE MCLockFreeQueue ----------------------------
\* Small instances of LockFreeQueue for TLC.
EXTENDS LockFreeQueue

Symmetry == Permutations(Nodes) \cup Permutations(Consumers)
================================================================================
