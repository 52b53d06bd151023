------------------------------ MODULE MCBroadcast ------------------------------
\* A small instance of Broadcast for TLC: a buffer of eight bytes holds a header
\* of five and three more, so the answer to the second body makes its message
\* grow, and the answer to the first does not.
EXTENDS Broadcast, TLC

MCBodies == {<<<<255>>>>, <<<<128, 7>>, <<1>>>>}
MCType == <<50>>

Symmetry == Permutations(Messages) \cup Permutations(Sessions)
================================================================================
