------------------------------- MODULE RingBuffer -------------------------------
(***************************************************************************)
(* RingBuffer as operators on its value: where the front and the rear are, *)
(* and what the cells hold.  One cell stays free, so that a full buffer is *)
(* told from an empty one.                                                 *)
(***************************************************************************)
EXTENDS Integers, SequencesExt

CONSTANT mCapacity  \* cells of the allocation: the constructor's capacity + 1

ASSUME RingAssumption == mCapacity \in Nat \ {0, 1}

Offsets == 0 .. mCapacity - 1

Fresh(byte) == [front |-> 0, rear |-> 0, cell |-> [o \in Offsets |-> byte]]

IsEmpty(r) == r.front = r.rear

GetCapacity == mCapacity - 1

GetSize(r) == IF r.rear < r.front THEN mCapacity - r.front + r.rear ELSE r.rear - r.front

GetUnusedSize(r) == mCapacity - GetSize(r) - 1

\* mutant: a front at the first cell is not told from any other
DirectToTheEnd(r) == IF r.rear < r.front THEN r.front - (r.rear + 1) ELSE mCapacity - r.rear

\* free cells from the rear on, before the allocation ends
GetDirectEnqueueableSize(r) ==
    IF r.rear < r.front THEN r.front - (r.rear + 1)
    ELSE IF r.front = 0 THEN mCapacity - r.rear - 1
    ELSE mCapacity - r.rear

GetDirectDequeueableSize(r) ==
    IF r.rear < r.front THEN mCapacity - r.front ELSE r.rear - r.front

MoveFront(r, offset) == [r EXCEPT !.front = (@ + offset) % mCapacity]

MoveRear(r, offset) == [r EXCEPT !.rear = (@ + offset) % mCapacity]

Clear(r) == [r EXCEPT !.front = r.rear]

\* memcpy of length cells, from an offset on
Copy(r, from, length) == [i \in 1 .. length |-> r.cell[from + i - 1]]

\* mutant: the second part is not taken from the beginning
PeekUnwrapped(r, length) ==
    LET direct == GetDirectDequeueableSize(r) IN
    IF r.front < r.rear \/ length <= direct
    THEN Copy(r, r.front, length)
    ELSE Copy(r, r.front, direct) \o Copy(r, 1, length - direct)

\* what TryPeek copies out, given GetSize(r) >= length
Peek(r, length) ==
    LET direct == GetDirectDequeueableSize(r) IN
    IF r.front < r.rear \/ length <= direct
    THEN Copy(r, r.front, length)
    ELSE Copy(r, r.front, direct) \o Copy(r, 0, length - direct)

\* bytes written from an offset on, as WSARecv does at GetRear
Write(r, from, bytes) ==
    [r EXCEPT !.cell = [o \in Offsets |->
        IF o \in from .. from + Len(bytes) - 1 THEN bytes[o - from + 1] ELSE @[o]]]
================================================================================
