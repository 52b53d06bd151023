\* One slot, three workers, two callers; more connections would be set up if the
\* slot ever came back.
SPECIFICATION Spec
CONSTANTS
    mMaximumSessionCount = 1
    Acceptor = acceptor
    Workers = {w1, w2, w3}
    Callers = {c1, c2}
    BufferLow = 1
    MaxUnique = 3
    MaxCalls = 1
    NoID = NoID
    NoSlot = NoSlot
CHECK_DEADLOCK FALSE
INVARIANTS
    SlotsKept
    TableDeleted
PROPERTY
    TerminateReturns
