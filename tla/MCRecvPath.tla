------------------------------- MODULE MCRecvPath -------------------------------
\* A small instance of RecvPath for TLC: a buffer of 5 bytes, a header of 2 and a
\* message of 2, so that a payload of 3 passes the header check and overruns the
\* message, and one of 4 is refused.
EXTENDS RecvPath

Packet(code, length, checkSum) ==
    [code |-> code, length |-> length, checkSum |-> checkSum]

MCPackets ==
    {Packet(TRUE, length, TRUE) : length \in 0 .. 4}
        \cup {Packet(FALSE, 1, TRUE), Packet(TRUE, 2, FALSE)}
================================================================================
