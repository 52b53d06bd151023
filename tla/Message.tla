-------------------------------- MODULE Message --------------------------------
(***************************************************************************)
(* Message, as a value: the bytes between mFront and mRear, how many lie   *)
(* before mFront, and the size of the buffer.  What is outside of these is *)
(* never looked at.                                                        *)
(*                                                                         *)
(* Growing is broken: operator=(Message&&) deletes the buffer that it has  *)
(* just taken over, and Reserve does not keep the room before mFront.  A   *)
(* message that has grown has its data in freed memory from then on, also  *)
(* after it went through the pool: "freed" says so, and nothing is known   *)
(* of what such a message holds.                                           *)
(***************************************************************************)
EXTENDS Integers, SequencesExt

CONSTANTS DEFAULT_SIZE, HeaderSize

ASSUME MessageAssumption ==
    HeaderSize \in Nat \ {0} /\ DEFAULT_SIZE \in Nat /\ HeaderSize < DEFAULT_SIZE

\* a new message
Blank == [data |-> <<>>, room |-> 0, mCapacity |-> DEFAULT_SIZE, mbEncoded |-> FALSE,
          freed |-> FALSE]

getEnquableSize(m) == m.mCapacity - m.room - Len(m.data)

\* mFront, and mRear with it
Clear(m) == [m EXCEPT !.data = <<>>, !.room = 0]

Reserve(m, capacity) ==
    IF capacity <= m.mCapacity THEN m
    ELSE [m EXCEPT !.mCapacity = capacity, !.room = 0, !.freed = TRUE]

\* operator<< of every type, and Write: the bytes of a value, at mRear
Put(m, bytes) ==
    LET into == IF getEnquableSize(m) < Len(bytes) THEN Reserve(m, m.mCapacity * 2) ELSE m
    IN [into EXCEPT !.data = m.data \o bytes]

\* operator>> of every type, and Read: as many bytes as the value has, at mFront
Get(m, size) == [m EXCEPT !.data = SubSeq(m.data, size + 1, Len(m.data)),
                          !.room = m.room + size]
FrontBytes(m, size) == SubSeq(m.data, 1, size)

\* WanServer::CreateMessage, on a message that is clear: room for a header
ForSending(m) == [m EXCEPT !.room = HeaderSize]
================================================================================
