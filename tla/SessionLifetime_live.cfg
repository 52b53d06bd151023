\* Liveness, with the single calling thread of main.cpp.
SPECIFICATION FairSpec
CONSTANTS
    Slots = {s1}
    Acceptor = acceptor
    Workers = {w1, w2}
    Callers = {c1}
    MaxUnique = 2
    NoID = NoID
    NoSlot = NoSlot
PROPERTY BrokenLeaves
