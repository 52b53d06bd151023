\* Three messages, two sessions.
SPECIFICATION RelaySpec
CONSTANTS
    DEFAULT_SIZE = 8
    HeaderSize = 5
    Messages = {m1, m2, m3}
    Sessions = {s1, s2}
    Bodies <- MCBodies
    Type <- MCType
    RandKeys = {255}
    MaxInbox = 1
    NoMessage = NoMessage
SYMMETRY Symmetry
CHECK_DEADLOCK FALSE
INVARIANTS
    CodecInverse
    ReadAsWritten
    PoolClean
