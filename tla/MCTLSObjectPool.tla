---------------------------- MODULE MCTLSObjectPool ----------------------------
\* Small instances of TLSObjectPool for TLC.
EXTENDS TLSObjectPool, TLC

Symmetry == Permutations(Threads) \cup Permutations(Chunks)
================================================================================
