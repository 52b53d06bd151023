-------------------------------- MODULE RecvPath --------------------------------
(***************************************************************************)
(* The receiving half of a session: recvPost, what WSARecv does to the     *)
(* ring buffer, and the loop of workerThread that cuts the bytes into      *)
(* messages.                                                               *)
(*                                                                         *)
(* SessionLifetime shows that a session has one receive at a time, posted  *)
(* or being handled, so one thread at a time runs this code for a session  *)
(* and an iteration of its loop is one step.                               *)
(*                                                                         *)
(* A packet is what its header says: whether its code is PACKET_CODE, its  *)
(* length, and whether its checksum will agree.  A byte is told by its     *)
(* packet and its place there; bytes of earlier connections are all Stale. *)
(***************************************************************************)
EXTENDS RingBuffer

CONSTANTS
    HeaderSize, \* sizeof(Header)
    MessageSize, \* Message::DEFAULT_SIZE, the buffer of the message a payload is copied into
    Packets,    \* the packets a peer may send: [code, length, checkSum]
    MaxPackets  \* bound: packets per connection

ASSUME RecvAssumption ==
    /\ HeaderSize \in Nat \ {0} /\ HeaderSize <= GetCapacity
    /\ Packets \subseteq [code : BOOLEAN, length : Nat, checkSum : BOOLEAN]
    /\ MessageSize \in Nat /\ MaxPackets \in Nat

VARIABLES
    ring,       \* ReceiveBuffer
    pc,         \* where the receive of the session is
    posted,     \* a WSARecv is outstanding ...
    buf, len,   \* ... into len cells from buf on
    stream,     \* the packets the peer of this connection has sent,
    bytes,      \* ... the bytes they are,
    ends,       \* ... and after how many of them each ends
    arrived,    \* how many bytes of it WSARecv has stored
    received,   \* history: the payloads OnRecv was given
    closed      \* history: the connection ended, or WSARecv failed

peerVars == <<stream, bytes, ends>>
vars == <<ring, pc, posted, buf, len, peerVars, arrived, received, closed>>

Stale == <<0, 0>>

PacketSize(p) == HeaderSize + p.length

\* the bytes of a packet that is the i-th of its connection
Bytes(i, p) == [k \in 1 .. PacketSize(p) |-> <<i, k>>]
PacketBytes(i) == Bytes(i, stream[i])
Payload(i) == SubSeq(PacketBytes(i), HeaderSize + 1, PacketSize(stream[i]))

Init ==
    /\ ring = Fresh(Stale)
    /\ pc = "Post"
    /\ posted = FALSE /\ buf = 0 /\ len = 0
    /\ stream = <<>> /\ bytes = <<>> /\ ends = <<>> /\ arrived = 0 /\ received = <<>> /\ closed = FALSE

--------------------------------------------------------------------------------
(* The peer and the TCP stack.                                             *)

Send(p) ==
    /\ pc \notin {"Free", "Undefined"} /\ ~ closed /\ Len(stream) < MaxPackets
    /\ stream' = Append(stream, p)
    /\ bytes' = bytes \o Bytes(Len(stream) + 1, p)
    /\ ends' = Append(ends, Len(bytes'))
    /\ UNCHANGED <<ring, pc, posted, buf, len, arrived, received, closed>>

\* WSARecv completes with k bytes; the worker that takes the completion starts
\* with MoveRear(cbTransferred).
Complete(k) ==
    /\ posted /\ k <= Len(bytes) - arrived
    /\ posted' = FALSE
    /\ ring' = MoveRear(Write(ring, buf, SubSeq(bytes, arrived + 1, arrived + k)), k)
    /\ arrived' = arrived + k
    /\ pc' = "Loop"
    /\ UNCHANGED <<buf, len, peerVars, received, closed>>

\* WSARecv completes with nothing: the peer is gone, or the receive is cancelled.
Close ==
    /\ posted
    /\ posted' = FALSE
    /\ closed' = TRUE
    /\ pc' = "Ended"
    /\ UNCHANGED <<ring, buf, len, peerVars, arrived, received>>

--------------------------------------------------------------------------------
(* workerThread, case EIOType::Recv.                                       *)

Header == Peek(ring, HeaderSize)

\* the header lies at the front in one piece, and its code is right
IsHeader ==
    \E i \in DOMAIN stream : stream[i].code /\ Header = SubSeq(PacketBytes(i), 1, HeaderSize)

packet == stream[Header[1][1]]

\* mutant: the header does not count
TooLongBare == GetCapacity < packet.length

TooLong == GetCapacity - HeaderSize < packet.length

\* mutant: one byte more is waited for
IncompleteByOne == GetSize(ring) <= packet.length + HeaderSize

Incomplete == GetSize(ring) < packet.length + HeaderSize

HasHeader == ~ IsEmpty(ring) /\ GetSize(ring) >= HeaderSize

\* the loop ends: empty, no header yet, or not the whole packet yet
AwaitMore ==
    /\ pc = "Loop"
    /\ ~ HasHeader \/ (IsHeader /\ ~ TooLong /\ Incomplete)
    /\ pc' = "Post"
    /\ UNCHANGED <<ring, posted, buf, len, peerVars, arrived, received, closed>>

\* the whole packet is there, and the header has passed the checks
Taken == HasHeader /\ IsHeader /\ ~ TooLong /\ ~ Incomplete

\* its payload fits into the message
HasPacket == Taken /\ packet.length <= MessageSize

\* MoveFront over the header, TryDequeue of the payload
WithoutPacket == MoveFront(MoveFront(ring, HeaderSize), packet.length)

\* goto RELEASE_SESSION: nothing is posted any more.
RefuseHeader ==
    /\ pc = "Loop" /\ HasHeader
    /\ ~ IsHeader \/ TooLong
    /\ pc' = "Ended"
    /\ UNCHANGED <<ring, posted, buf, len, peerVars, arrived, received, closed>>

\* the same for a checksum that disagrees, when the packet has been taken out
RefuseCheckSum ==
    /\ pc = "Loop" /\ HasPacket /\ ~ packet.checkSum
    /\ ring' = WithoutPacket
    /\ pc' = "Ended"
    /\ UNCHANGED <<posted, buf, len, peerVars, arrived, received, closed>>

\* TryDequeue copies the payload beyond the end of the message's buffer: what the
\* program does from then on is undefined, and nothing is said of it.
Overrun ==
    /\ pc = "Loop" /\ Taken /\ packet.length > MessageSize
    /\ pc' = "Undefined"
    /\ UNCHANGED <<ring, posted, buf, len, peerVars, arrived, received, closed>>

Undefined == pc = "Undefined" /\ UNCHANGED vars

OnRecv ==
    /\ pc = "Loop" /\ HasPacket /\ packet.checkSum
    /\ received' = Append(received, Peek(MoveFront(ring, HeaderSize), packet.length))
    /\ ring' = WithoutPacket
    /\ UNCHANGED <<pc, posted, buf, len, peerVars, arrived, closed>>

RecvPost ==
    /\ pc = "Post"
    /\ \/ /\ posted' = TRUE
          /\ pc' = "Wait"
          /\ UNCHANGED closed
       \/ /\ closed' = TRUE
          /\ pc' = "Ended"
          /\ UNCHANGED posted
    /\ buf' = ring.rear
    /\ len' = GetDirectEnqueueableSize(ring)
    /\ UNCHANGED <<ring, peerVars, arrived, received>>

--------------------------------------------------------------------------------

\* releaseSession empties the buffer; the front stays where the rear was.
Release ==
    /\ pc = "Ended"
    /\ pc' = "Free"
    /\ ring' = [Clear(ring) EXCEPT !.cell = [o \in Offsets |-> Stale]]
    /\ stream' = <<>> /\ bytes' = <<>> /\ ends' = <<>> /\ arrived' = 0 /\ received' = <<>> /\ closed' = FALSE
    /\ buf' = 0 /\ len' = 0
    /\ UNCHANGED posted

Accept ==
    /\ pc = "Free"
    /\ pc' = "Post"
    /\ UNCHANGED <<ring, posted, buf, len, peerVars, arrived, received, closed>>

WorkerStep == AwaitMore \/ RefuseHeader \/ RefuseCheckSum \/ Overrun \/ OnRecv \/ RecvPost

Next ==
    \/ \E p \in Packets : Send(p)
    \/ \E k \in 1 .. len : Complete(k)
    \/ Close \/ WorkerStep \/ Release \/ Accept \/ Undefined

Spec == Init /\ [][Next]_vars

\* The handler runs on, and bytes that were sent arrive.
Fairness == WF_vars(WorkerStep) /\ WF_vars(\E k \in 1 .. len : Complete(k))

FairSpec == Spec /\ Fairness

--------------------------------------------------------------------------------
(* Properties                                                              *)

\* The code reads more than MessageSize as long as it fits into the ring, which
\* is undefined; such a packet is not refused, but nothing is promised of it.
Good(p) ==
    /\ p.code /\ p.checkSum
    /\ PacketSize(p) <= GetCapacity /\ p.length <= MessageSize

\* The listener gets the packets of the connection, whole and in their order,
\* however they were cut into receives and wherever they wrapped; nothing after
\* a packet that is refused, and nothing of an earlier connection.
Framing ==
    /\ Len(received) <= Len(stream)
    /\ \A i \in DOMAIN received : Good(stream[i]) /\ received[i] = Payload(i)

\* how many bytes the packets the listener got are
Consumed == IF received = <<>> THEN 0 ELSE ends[Len(received)]

\* The buffer holds exactly what has arrived and not been consumed: it is never
\* overwritten, and never full in a way that looks empty.
BufferExact ==
    pc \notin {"Ended", "Undefined"} =>
        Peek(ring, GetSize(ring)) = SubSeq(bytes, Consumed + 1, arrived)

\* A receive is never posted for no bytes, which would complete at once and end
\* the session as if the peer had left; and it only writes cells that are free.
RoomToReceive ==
    posted =>
        /\ len >= 1 /\ buf + len <= mCapacity
        /\ buf = ring.rear /\ len <= GetUnusedSize(ring)

\* The i-th packet of a connection and all before it are good.
GoodUpTo(i) == Len(stream) >= i /\ \A j \in 1 .. i : Good(stream[j])

\* Every good packet gets to the listener unless the connection ends first.
PacketsArrive ==
    \A i \in 1 .. MaxPackets : GoodUpTo(i) ~> Len(received) >= i \/ closed
================================================================================
