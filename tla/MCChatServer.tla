------------------------------ MODULE MCChatServer ------------------------------
\* A small instance of ChatServer for TLC.
EXTENDS ChatServer

CONSTANTS a, b, s1, s2, outside

MakePacket(type, account, sector) == [type |-> type, account |-> account, sector |-> sector]

MCAccounts == {a, b}
MCSectors == {s1, s2}
MCPackets ==
    {MakePacket("Login", a, s1), MakePacket("Login", b, s1), MakePacket("Move", a, s1),
     MakePacket("Move", a, s2), MakePacket("Chat", a, s1), MakePacket("Move", a, outside),
     MakePacket("Other", a, s1)}

Symmetry == Permutations(Ids) \cup Permutations(Objects)
================================================================================
