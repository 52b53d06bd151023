SPECIFICATION FairSpec
CONSTANTS
    mCapacity = 6
    HeaderSize = 2
    MessageSize = 2
    Packets <- MCPackets
    MaxPackets = 3
INVARIANTS
    Framing
    BufferExact
    RoomToReceive
PROPERTY PacketsArrive
