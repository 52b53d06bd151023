\* Two sessions, one after the other or together.
SPECIFICATION Spec
CONSTANTS
    a = a
    b = b
    s1 = s1
    s2 = s2
    outside = outside
    Ids = {i1, i2}
    Accounts <- MCAccounts
    NoAccount = NoAccount
    Sectors <- MCSectors
    Nowhere = Nowhere
    Objects = {o1, o2}
    NoPlayer = NoPlayer
    Packets <- MCPackets
    MaxQueue = 3
    MaxPackets = 3
SYMMETRY Symmetry
CHECK_DEADLOCK FALSE
INVARIANTS
    ObjectsOwned
    SectorsAgree
    NoZombie
    NoEventMissed
