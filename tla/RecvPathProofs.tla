---------------------------- MODULE RecvPathProofs ----------------------------
(***************************************************************************)
(* Proofs about RecvPath for a buffer and a header of any size, packets of *)
(* any length and any number of them: a receive is never posted for no     *)
(* bytes or into cells that hold some, the buffer holds exactly the bytes  *)
(* that have arrived and not been consumed, and the listener gets the      *)
(* packets of the connection whole and in their order.                     *)
(***************************************************************************)
EXTENDS RecvPath, SequenceTheorems, TLAPS

--------------------------------------------------------------------------------
(* The ring buffer: the bytes that wait in it, from the front on.          *)

Byte == Nat \X Nat
Rings == [front : Offsets, rear : Offsets, cell : [Offsets -> Byte]]

Wrap(x) == IF x >= mCapacity THEN x - mCapacity ELSE x
Waiting(r, j) == r.cell[Wrap(r.front + j)]

LEMMA ModIsWrap ==
  ASSUME NEW x \in Nat, x < 2 * mCapacity
  PROVE  x % mCapacity = Wrap(x)
<1>1. mCapacity \in Nat /\ mCapacity > 1
  BY RingAssumption
<1>2. CASE x < mCapacity
  BY <1>1, <1>2 DEF Wrap
<1>3. CASE x >= mCapacity
  BY <1>1, <1>3 DEF Wrap
<1> QED BY <1>1, <1>2, <1>3

LEMMA Sizes ==
  ASSUME NEW r \in Rings
  PROVE  /\ r.front \in Offsets /\ r.rear \in Offsets /\ r.cell \in [Offsets -> Byte]
         /\ GetSize(r) \in 0 .. GetCapacity /\ mCapacity \in Nat \ {0, 1}
         /\ GetDirectEnqueueableSize(r) \in 0 .. GetUnusedSize(r)
         /\ r.rear + GetDirectEnqueueableSize(r) <= mCapacity
         /\ GetSize(r) < GetCapacity => GetDirectEnqueueableSize(r) >= 1
         /\ IsEmpty(r) <=> GetSize(r) = 0
<1>1. r.front \in Offsets /\ r.rear \in Offsets /\ r.cell \in [Offsets -> Byte]
  BY DEF Rings
<1>2. /\ mCapacity \in Nat \ {0, 1} /\ r.front \in Nat /\ r.front < mCapacity
      /\ r.rear \in Nat /\ r.rear < mCapacity
  BY <1>1, RingAssumption DEF Offsets
<1>3. GetSize(r) \in Int /\ 0 <= GetSize(r) /\ GetSize(r) <= GetCapacity /\ GetCapacity \in Nat
  BY <1>2 DEF GetSize, GetCapacity
<1>4. GetDirectEnqueueableSize(r) \in Int /\ 0 <= GetDirectEnqueueableSize(r)
  BY <1>2 DEF GetDirectEnqueueableSize
<1>5. GetDirectEnqueueableSize(r) <= GetUnusedSize(r) /\ GetUnusedSize(r) \in Nat
  BY <1>2 DEF GetSize, GetUnusedSize, GetDirectEnqueueableSize
<1>6. r.rear + GetDirectEnqueueableSize(r) <= mCapacity
  BY <1>2 DEF GetDirectEnqueueableSize
<1>7. GetSize(r) < GetCapacity => GetDirectEnqueueableSize(r) >= 1
  BY <1>2 DEF GetSize, GetCapacity, GetDirectEnqueueableSize
<1>8. IsEmpty(r) <=> GetSize(r) = 0
  BY <1>2 DEF GetSize, IsEmpty
<1> QED BY <1>1, <1>2, <1>3, <1>4, <1>5, <1>6, <1>7, <1>8

LEMMA Copied ==
  ASSUME NEW r \in Rings, NEW from \in Offsets, NEW length \in Nat, from + length <= mCapacity
  PROVE  /\ Copy(r, from, length) \in Seq(Byte) /\ Len(Copy(r, from, length)) = length
         /\ \A i \in 1 .. length : Copy(r, from, length)[i] = r.cell[from + i - 1]
<1>1. r.cell \in [Offsets -> Byte] /\ mCapacity \in Nat
  BY Sizes
<1>2. \A i \in 1 .. length : r.cell[from + i - 1] \in Byte
  BY <1>1 DEF Offsets
<1>3. Copy(r, from, length) \in [1 .. length -> Byte]
  BY <1>2 DEF Copy
<1> QED BY <1>3 DEF Copy

\* TryPeek copies out the bytes that wait, from the front on.
LEMMA Peeked ==
  ASSUME NEW r \in Rings, NEW length \in 0 .. GetSize(r)
  PROVE  /\ Peek(r, length) \in Seq(Byte) /\ Len(Peek(r, length)) = length
         /\ \A i \in 1 .. length : Peek(r, length)[i] = Waiting(r, i - 1)
<1> DEFINE direct == GetDirectDequeueableSize(r)
<1>0. /\ r.front \in Offsets /\ r.rear \in Offsets /\ GetSize(r) \in 0 .. GetCapacity
      /\ mCapacity \in Nat \ {0, 1} /\ length \in Nat
  BY Sizes DEF GetCapacity
<1>1. CASE r.front < r.rear \/ length <= direct
  <2>1. r.front + length <= mCapacity
    BY <1>0, <1>1 DEF Offsets, GetSize, GetDirectDequeueableSize
  <2>2. Peek(r, length) = Copy(r, r.front, length)
    BY <1>1 DEF Peek
  <2>3. \A i \in 1 .. length : Waiting(r, i - 1) = r.cell[r.front + i - 1]
    BY <1>0, <2>1 DEF Offsets, Waiting, Wrap
  <2> QED BY <1>0, <2>1, <2>2, <2>3, Copied
<1>2. CASE ~ (r.front < r.rear \/ length <= direct)
  <2>1. /\ direct = mCapacity - r.front /\ direct \in Nat /\ length - direct \in Nat
        /\ length - direct <= mCapacity /\ r.front + direct <= mCapacity /\ 0 \in Offsets
    BY <1>0, <1>2 DEF Offsets, GetSize, GetDirectDequeueableSize, GetCapacity
  <2>2. Peek(r, length) = Copy(r, r.front, direct) \o Copy(r, 0, length - direct)
    BY <1>2 DEF Peek
  <2> HIDE DEF direct
  <2>3. /\ Copy(r, r.front, direct) \in Seq(Byte) /\ Len(Copy(r, r.front, direct)) = direct
        /\ \A i \in 1 .. direct : Copy(r, r.front, direct)[i] = r.cell[r.front + i - 1]
    BY <1>0, <2>1, Copied
  <2>4. /\ Copy(r, 0, length - direct) \in Seq(Byte)
        /\ Len(Copy(r, 0, length - direct)) = length - direct
        /\ \A i \in 1 .. length - direct : Copy(r, 0, length - direct)[i] = r.cell[0 + i - 1]
    BY <1>0, <2>1, Copied
  <2>a. direct + (length - direct) = length
    BY <1>0, <2>1
  <2>5. /\ Peek(r, length) \in Seq(Byte) /\ Len(Peek(r, length)) = length
        /\ \A i \in 1 .. length : Peek(r, length)[i] =
              IF i <= direct THEN Copy(r, r.front, direct)[i]
                             ELSE Copy(r, 0, length - direct)[i - direct]
    <3> DEFINE s1 == Copy(r, r.front, direct)
               s2 == Copy(r, 0, length - direct)
    <3>1. s1 \in Seq(Byte) /\ s2 \in Seq(Byte) /\ Len(s1) + Len(s2) = length /\ Len(s1) = direct
      BY <2>a, <2>3, <2>4
    <3> HIDE DEF s1, s2
    <3>2. /\ s1 \o s2 \in Seq(Byte) /\ Len(s1 \o s2) = Len(s1) + Len(s2)
          /\ \A i \in 1 .. Len(s1) + Len(s2) : (s1 \o s2)[i] =
                IF i <= Len(s1) THEN s1[i] ELSE s2[i - Len(s1)]
      BY <3>1, ConcatProperties
    <3> QED BY <2>2, <3>1, <3>2 DEF s1, s2
  <2>6. ASSUME NEW i \in 1 .. length PROVE Peek(r, length)[i] = Waiting(r, i - 1)
    <3>1. CASE i <= direct
      <4>1. i \in 1 .. direct
        BY <1>0, <2>1, <3>1
      <4>2. Wrap(r.front + (i - 1)) = r.front + i - 1
        BY <1>0, <2>1, <4>1 DEF Offsets, Wrap
      <4> QED BY <2>3, <2>5, <3>1, <4>1, <4>2 DEF Waiting
    <3>2. CASE i > direct
      <4>1. Copy(r, 0, length - direct)[i - direct] = r.cell[0 + (i - direct) - 1]
        <5>1. i - direct \in 1 .. length - direct
          BY <1>0, <2>1, <3>2
        <5> QED BY <2>4, <5>1
      <4>2. Wrap(r.front + (i - 1)) = 0 + (i - direct) - 1
        BY <1>0, <2>1, <3>2 DEF Offsets, Wrap
      <4> QED BY <1>0, <2>1, <2>5, <3>2, <4>1, <4>2 DEF Waiting
    <3> QED BY <1>0, <2>1, <3>1, <3>2
  <2> QED BY <2>5, <2>6
<1> QED BY <1>1, <1>2

\* Moving the front takes the first bytes away and leaves the others.
LEMMA FrontMoved ==
  ASSUME NEW r \in Rings, NEW offset \in 0 .. GetSize(r)
  PROVE  /\ MoveFront(r, offset) \in Rings
         /\ GetSize(MoveFront(r, offset)) = GetSize(r) - offset
         /\ \A j \in 0 .. GetSize(r) - offset - 1 :
               Waiting(MoveFront(r, offset), j) = Waiting(r, j + offset)
<1>0. /\ r.front \in Offsets /\ r.rear \in Offsets /\ GetSize(r) \in 0 .. GetCapacity
      /\ mCapacity \in Nat \ {0, 1} /\ offset \in Nat
  BY Sizes DEF GetCapacity
<1>1. r.front + offset \in Nat /\ r.front + offset < 2 * mCapacity
  BY <1>0 DEF Offsets, GetCapacity
<1>2. MoveFront(r, offset) = [r EXCEPT !.front = Wrap(r.front + offset)]
  BY <1>1, ModIsWrap DEF MoveFront
<1>3. Wrap(r.front + offset) \in Offsets
  BY <1>0, <1>1 DEF Offsets, Wrap
<1>4. /\ MoveFront(r, offset) \in Rings
      /\ MoveFront(r, offset).front = Wrap(r.front + offset)
      /\ MoveFront(r, offset).rear = r.rear /\ MoveFront(r, offset).cell = r.cell
  BY <1>2, <1>3 DEF Rings
<1>5. GetSize(MoveFront(r, offset)) = GetSize(r) - offset
  BY <1>0, <1>4 DEF GetSize, Wrap, Offsets, GetCapacity
<1>6. ASSUME NEW j \in 0 .. GetSize(r) - offset - 1
      PROVE  Wrap(Wrap(r.front + offset) + j) = Wrap(r.front + (j + offset))
  BY <1>0 DEF Wrap, Offsets, GetCapacity
<1> QED BY <1>4, <1>5, <1>6 DEF Waiting

\* What WSARecv stores at the rear waits behind what was there.
LEMMA Stored ==
  ASSUME NEW r \in Rings, NEW b \in Seq(Byte), Len(b) <= GetDirectEnqueueableSize(r)
  PROVE  LET s == MoveRear(Write(r, r.rear, b), Len(b)) IN
         /\ s \in Rings /\ GetSize(s) = GetSize(r) + Len(b)
         /\ \A j \in 0 .. GetSize(r) - 1 : Waiting(s, j) = Waiting(r, j)
         /\ \A j \in 0 .. Len(b) - 1 : Waiting(s, GetSize(r) + j) = b[j + 1]
<1> DEFINE w == Write(r, r.rear, b)
           s == MoveRear(w, Len(b))
           k == Len(b)
<1>0. /\ r.front \in Offsets /\ r.rear \in Offsets /\ GetSize(r) \in 0 .. GetCapacity
      /\ r.cell \in [Offsets -> Byte]
      /\ mCapacity \in Nat \ {0, 1} /\ k \in Nat /\ GetDirectEnqueueableSize(r) \in Nat
      /\ k <= GetDirectEnqueueableSize(r)
      /\ r.rear + k <= mCapacity
  <2>1. Len(b) \in Nat
    BY LenProperties
  <2>2. r.rear \in Nat /\ GetUnusedSize(r) \in Int
    BY Sizes DEF Offsets, GetUnusedSize, GetCapacity
  <2> QED BY <2>1, <2>2, Sizes
<1>f. /\ r.front \in Nat /\ r.front < mCapacity /\ r.rear \in Nat /\ r.rear < mCapacity
  BY <1>0 DEF Offsets
\* the two places free cells can be
<1>g. /\ r.rear < r.front =>
            r.rear + k < r.front /\ GetSize(r) = mCapacity - r.front + r.rear
      /\ r.front <= r.rear =>
            /\ r.rear + k <= mCapacity /\ GetSize(r) = r.rear - r.front
            /\ r.front = 0 => r.rear + k < mCapacity
  BY SMTT(30), <1>0, <1>f DEF GetSize, GetDirectEnqueueableSize
<1>1. /\ w.front = r.front /\ w.rear = r.rear
      /\ \A o \in Offsets : w.cell[o] =
            IF o \in r.rear .. r.rear + k - 1 THEN b[o - r.rear + 1] ELSE r.cell[o]
      /\ w.cell = [o \in Offsets |-> w.cell[o]]
      /\ w = [front |-> r.front, rear |-> r.rear, cell |-> w.cell]
  BY SMTT(30) DEF Write, Rings
<1>2. \A i \in 1 .. k : b[i] \in Byte
  BY ElementOfSeq
<1>3. \A o \in Offsets : w.cell[o] \in Byte
  <2> TAKE o \in Offsets
  <2>1. CASE o \in r.rear .. r.rear + k - 1
    <3>1. o - r.rear + 1 \in 1 .. k
      BY <1>0, <2>1 DEF Offsets
    <3> QED BY <1>1, <1>2, <2>1, <3>1
  <2>2. CASE o \notin r.rear .. r.rear + k - 1
    BY <1>0, <1>1, <2>2
  <2> QED BY <2>1, <2>2
<1> HIDE DEF w, k
<1>4. (r.rear + k) % mCapacity = Wrap(r.rear + k)
  <2>1. r.rear + k \in Nat /\ r.rear + k < 2 * mCapacity
    BY <1>0, <1>f
  <2> QED BY <2>1, ModIsWrap
<1>5. /\ s.front = r.front /\ s.rear = Wrap(r.rear + k) /\ s.cell = w.cell
      /\ s \in Rings
  <2>1. s = [front |-> r.front, rear |-> Wrap(r.rear + k), cell |-> w.cell]
    BY <1>1, <1>4 DEF MoveRear, k
  <2>2. Wrap(r.rear + k) \in Offsets
    BY <1>0 DEF Wrap, Offsets
  <2>3. w.cell \in [Offsets -> Byte]
    BY <1>1, <1>3
  <2> QED BY <1>0, <2>1, <2>2, <2>3 DEF Rings
<1> HIDE DEF s
<1>6. GetSize(s) = GetSize(r) + k
  <2>1. CASE r.rear + k < mCapacity
    BY <1>0, <1>5, <1>f, <1>g, <2>1 DEF GetSize, Wrap
  <2>2. CASE r.rear + k = mCapacity
    BY SMTT(30), <1>0, <1>5, <1>f, <1>g, <2>2 DEF GetSize, Wrap
  <2> QED BY <1>0, <1>f, <2>1, <2>2
<1>7. ASSUME NEW j \in 0 .. GetSize(r) - 1 PROVE Waiting(s, j) = Waiting(r, j)
  <2>0. j \in Int /\ 0 <= j /\ j < GetSize(r)
    BY <1>0
  <2>2. /\ Wrap(r.front + j) \in Int /\ 0 <= Wrap(r.front + j) /\ Wrap(r.front + j) < mCapacity
        /\ Wrap(r.front + j) < r.rear \/ Wrap(r.front + j) >= r.rear + k
    <3>0. mCapacity \in Nat /\ k \in Nat
      BY <1>0
    <3>1. CASE r.front + j >= mCapacity
      <4>1. Wrap(r.front + j) = r.front + j - mCapacity
        BY <1>f, <2>0, <3>0, <3>1 DEF Wrap
      <4>2. r.rear < r.front /\ j < mCapacity - r.front + r.rear
        BY <1>f, <1>g, <2>0, <3>0, <3>1
      <4> QED BY <1>f, <2>0, <3>0, <3>1, <4>1, <4>2
    <3>2. CASE ~ (r.front + j >= mCapacity)
      <4>1. Wrap(r.front + j) = r.front + j
        BY <3>2 DEF Wrap
      <4>2. r.rear < r.front => r.rear + k < r.front
        BY <1>g
      <4>3. r.front <= r.rear => j < r.rear - r.front
        BY <1>g, <2>0
      <4> QED BY <1>f, <2>0, <3>0, <3>2, <4>1, <4>2, <4>3
    <3> QED BY <3>1, <3>2
  <2>1. /\ Wrap(r.front + j) \in Offsets
        /\ Wrap(r.front + j) \notin r.rear .. r.rear + k - 1
    BY SMTT(30), <1>0, <1>f, <2>2 DEF Offsets
  <2> QED BY <1>1, <1>5, <2>1 DEF Waiting
<1>8. ASSUME NEW j \in 0 .. k - 1 PROVE Waiting(s, GetSize(r) + j) = b[j + 1]
  <2>1. Wrap(r.front + (GetSize(r) + j)) = r.rear + j
    <3>0. j \in Int /\ 0 <= j /\ j < k
      BY <1>0
    <3>1. CASE r.rear < r.front
      <4>1. r.rear + k < r.front /\ r.front + (GetSize(r) + j) = mCapacity + (r.rear + j)
        BY SMTT(30), <1>0, <1>f, <1>g, <3>0, <3>1
      <4> QED BY <1>0, <1>f, <3>0, <3>1, <4>1 DEF Wrap
    <3>2. CASE r.front <= r.rear
      <4>1. r.front + (GetSize(r) + j) = r.rear + j
        BY <1>0, <1>f, <1>g, <3>0, <3>2
      <4>2. r.rear + j < mCapacity
        BY <1>0, <1>f, <3>0
      <4> QED BY <1>0, <1>f, <3>0, <4>1, <4>2 DEF Wrap
    <3> QED BY <1>f, <3>1, <3>2
  <2>2. r.rear + j \in Offsets /\ r.rear + j \in r.rear .. r.rear + k - 1
    BY SMTT(30), <1>0 DEF Offsets
  <2>3. (r.rear + j) - r.rear + 1 = j + 1
    BY <1>0 DEF Offsets
  <2> QED BY <1>1, <1>5, <2>1, <2>2, <2>3 DEF Waiting
<1> QED BY <1>5, <1>6, <1>7, <1>8 DEF s, w, k

--------------------------------------------------------------------------------
(* The inductive invariant.                                                *)

\* where the i-th packet of the connection begins in its bytes
Start(i) == IF i = 1 THEN 0 ELSE ends[i - 1]

Types ==
    /\ ring \in Rings
    /\ pc \in {"Post", "Wait", "Loop", "Ended", "Free", "Undefined"}
    /\ posted = (pc = "Wait")
    /\ stream \in Seq(Packets) /\ bytes \in Seq(Byte) /\ ends \in Seq(Nat)
    /\ arrived \in 0 .. Len(bytes)
    /\ received \in Seq(Seq(Byte))

\* The bytes of the connection are those of its packets, one after another.
Laid ==
    /\ Len(ends) = Len(stream)
    /\ Len(bytes) = Start(Len(stream) + 1)
    /\ \A i \in 1 .. Len(stream) :
        /\ Start(i) \in Nat /\ ends[i] = Start(i) + PacketSize(stream[i])
        /\ ends[i] <= Len(bytes)
        /\ \A k \in 1 .. PacketSize(stream[i]) : bytes[Start(i) + k] = <<i, k>>

\* What waits in the buffer is what has arrived and was not consumed.
Held ==
    pc # "Ended" =>
        /\ Start(Len(received) + 1) + GetSize(ring) = arrived
        /\ \A j \in 0 .. GetSize(ring) - 1 :
              Waiting(ring, j) = bytes[Start(Len(received) + 1) + 1 + j]

\* The buffer is not full when a receive is to be posted, and is empty when the
\* session is free.
Room ==
    /\ pc = "Post" => GetSize(ring) < GetCapacity
    /\ pc = "Free" => GetSize(ring) = 0
    /\ posted => /\ buf = ring.rear /\ len = GetDirectEnqueueableSize(ring)
                 /\ len >= 1

IInv == Types /\ Laid /\ Held /\ Room /\ Framing

--------------------------------------------------------------------------------
(* The peer.                                                               *)

LEMMA PacketSizes ==
  ASSUME NEW p \in Packets
  PROVE  /\ p.length \in Nat /\ HeaderSize \in Nat \ {0}
         /\ PacketSize(p) \in Nat /\ PacketSize(p) >= HeaderSize
  BY RecvAssumption DEF PacketSize

LEMMA PacketsBytes ==
  ASSUME NEW p \in Packets, NEW i \in Nat
  PROVE  /\ Bytes(i, p) \in Seq(Byte) /\ Len(Bytes(i, p)) = PacketSize(p)
         /\ \A k \in 1 .. PacketSize(p) : Bytes(i, p)[k] = <<i, k>>
<1>1. PacketSize(p) \in Nat
  BY PacketSizes
<1>2. \A k \in 1 .. PacketSize(p) : <<i, k>> \in Byte
  BY <1>1 DEF Byte
<1>3. Bytes(i, p) \in [1 .. PacketSize(p) -> Byte]
  BY <1>2 DEF Bytes
<1> QED BY <1>1, <1>3 DEF Bytes

\* What the connection's packets so far are is not changed by the next.
LEMMA SendLays ==
  ASSUME Types, Laid, NEW p \in Packets, Send(p)
  PROVE  /\ stream' \in Seq(Packets) /\ bytes' \in Seq(Byte) /\ ends' \in Seq(Nat)
         /\ Len(stream') = Len(stream) + 1 /\ Len(bytes') >= Len(bytes)
         /\ \A i \in 1 .. Len(stream) : stream'[i] = stream[i]
         /\ \A k \in 1 .. Len(bytes) : bytes'[k] = bytes[k]
         /\ \A i \in 1 .. Len(stream) + 1 : Start(i)' = Start(i)
         /\ Laid'
<1> DEFINE m == Len(stream)
           q == Bytes(m + 1, p)
<1>0. /\ m \in Nat /\ Len(bytes) \in Nat /\ Len(ends) = m /\ PacketSize(p) \in Nat
      /\ PacketSize(p) >= 1
  BY LenProperties, PacketSizes DEF Types, Laid
<1>1. q \in Seq(Byte) /\ Len(q) = PacketSize(p) /\ \A k \in 1 .. PacketSize(p) : q[k] = <<m + 1, k>>
  BY <1>0, PacketsBytes
<1>2. stream' = Append(stream, p) /\ bytes' = bytes \o q /\ ends' = Append(ends, Len(bytes'))
  BY DEF Send
<1> HIDE DEF q
<1>3. /\ stream' \in Seq(Packets) /\ Len(stream') = m + 1 /\ stream'[m + 1] = p
      /\ \A i \in 1 .. m : stream'[i] = stream[i]
  BY <1>2, AppendProperties DEF Types
<1>4. /\ bytes' \in Seq(Byte) /\ Len(bytes') = Len(bytes) + PacketSize(p)
      /\ \A k \in 1 .. Len(bytes) + PacketSize(p) :
            bytes'[k] = IF k <= Len(bytes) THEN bytes[k] ELSE q[k - Len(bytes)]
  <2>1. bytes \in Seq(Byte)
    BY DEF Types
  <2>2. /\ bytes \o q \in Seq(Byte) /\ Len(bytes \o q) = Len(bytes) + Len(q)
        /\ \A k \in 1 .. Len(bytes) + Len(q) :
              (bytes \o q)[k] = IF k <= Len(bytes) THEN bytes[k] ELSE q[k - Len(bytes)]
    BY <1>1, <2>1, ConcatProperties
  <2> QED BY <1>1, <1>2, <2>2
<1>5. \A k \in 1 .. Len(bytes) : bytes'[k] = bytes[k]
  BY <1>0, <1>4
<1>6. /\ ends' \in Seq(Nat) /\ Len(ends') = m + 1 /\ ends'[m + 1] = Len(bytes')
      /\ \A i \in 1 .. m : ends'[i] = ends[i]
  <2>1. Len(bytes') \in Nat
    BY <1>0, <1>4
  <2> QED BY <1>0, <1>2, <2>1, AppendProperties DEF Types
<1>7. \A i \in 1 .. m + 1 : Start(i)' = Start(i)
  <2> TAKE i \in 1 .. m + 1
  <2>1. i # 1 => i - 1 \in 1 .. m
    BY <1>0
  <2> QED BY <1>6, <2>1 DEF Start
<1>8. Len(bytes') = IF Len(stream') + 1 = 1 THEN 0 ELSE ends'[(Len(stream') + 1) - 1]
  <2>1. Len(stream') + 1 # 1 /\ (Len(stream') + 1) - 1 = m + 1
    BY <1>0, <1>3
  <2> QED BY <1>6, <2>1
<1>9. ASSUME NEW i \in 1 .. Len(stream')
      PROVE  /\ Start(i)' \in Nat /\ ends'[i] = Start(i)' + PacketSize(stream'[i])
             /\ ends'[i] <= Len(bytes')
             /\ \A k \in 1 .. PacketSize(stream'[i]) : bytes'[Start(i)' + k] = <<i, k>>
  <2>1. CASE i \in 1 .. m
    <3>1. /\ Start(i) \in Nat /\ ends[i] = Start(i) + PacketSize(stream[i])
          /\ ends[i] <= Len(bytes) /\ PacketSize(stream[i]) \in Nat
          /\ \A k \in 1 .. PacketSize(stream[i]) : bytes[Start(i) + k] = <<i, k>>
      <4>1. stream[i] \in Packets
        BY <2>1, ElementOfSeq DEF Types
      <4> QED BY <2>1, <4>1, PacketSizes DEF Laid
    <3>2. /\ Start(i)' = Start(i) /\ stream'[i] = stream[i] /\ ends'[i] = ends[i]
      BY <1>0, <1>3, <1>6, <1>7, <2>1
    <3>3. \A k \in 1 .. PacketSize(stream[i]) : Start(i) + k \in 1 .. Len(bytes)
      BY <1>0, <3>1
    <3>4. Len(bytes) <= Len(bytes')
      BY <1>0, <1>4
    <3>5. ASSUME NEW k \in 1 .. PacketSize(stream'[i]) PROVE bytes'[Start(i)' + k] = <<i, k>>
      <4>1. k \in 1 .. PacketSize(stream[i]) /\ Start(i)' + k = Start(i) + k
        BY <3>2
      <4>2. bytes'[Start(i) + k] = bytes[Start(i) + k]
        BY <1>5, <3>3, <4>1
      <4> QED BY <3>1, <4>1, <4>2
    <3>6. ends'[i] = ends[i] /\ ends[i] <= Len(bytes')
      <4>1. ends[i] \in Int /\ Len(bytes) \in Int /\ Len(bytes') \in Int
        BY <1>0, <1>4, <3>1
      <4> QED BY <3>1, <3>2, <3>4, <4>1
    <3> QED BY <3>1, <3>2, <3>5, <3>6
  <2>2. CASE i = m + 1
    <3>1. Start(i)' = Len(bytes) /\ stream'[i] = p /\ ends'[i] = Len(bytes')
      BY <1>0, <1>3, <1>6, <1>7, <2>2 DEF Laid
    <3>2. ASSUME NEW k \in 1 .. PacketSize(p) PROVE bytes'[Len(bytes) + k] = <<i, k>>
      <4>1. Len(bytes) + k \in 1 .. Len(bytes) + PacketSize(p) /\ ~ (Len(bytes) + k <= Len(bytes))
        BY <1>0
      <4>2. (Len(bytes) + k) - Len(bytes) = k
        BY <1>0
      <4> QED BY <1>1, <1>4, <2>2, <4>1, <4>2
    <3> QED BY <1>0, <1>4, <3>1, <3>2
  <2> QED BY <1>0, <1>3, <2>1, <2>2
<1>10. Laid'
  <2>1. Len(ends') = Len(stream')
    BY <1>3, <1>6
  <2>2. (Len(bytes) = Start(Len(stream) + 1))'
    BY <1>8 DEF Start
  <2>3. (\A i \in 1 .. Len(stream) :
          /\ Start(i) \in Nat /\ ends[i] = Start(i) + PacketSize(stream[i])
          /\ ends[i] <= Len(bytes)
          /\ \A k \in 1 .. PacketSize(stream[i]) : bytes[Start(i) + k] = <<i, k>>)'
    BY <1>9
  <2> QED BY <2>1, <2>2, <2>3 DEF Laid
<1>11. Len(bytes') >= Len(bytes)
  BY <1>0, <1>4
<1> QED BY <1>3, <1>4, <1>5, <1>6, <1>7, <1>10, <1>11

--------------------------------------------------------------------------------
(* The handler of a completion.                                            *)

LEMMA Counts ==
  ASSUME IInv
  PROVE  /\ Len(received) \in Nat /\ Len(stream) \in Nat /\ Len(bytes) \in Nat
         /\ Len(received) <= Len(stream) /\ arrived \in Nat /\ arrived <= Len(bytes)
         /\ GetSize(ring) \in Nat /\ GetSize(ring) <= GetCapacity /\ GetCapacity \in Nat
         /\ Start(Len(received) + 1) \in Nat
<1>1. /\ Len(received) \in Nat /\ Len(stream) \in Nat /\ Len(bytes) \in Nat
      /\ Len(received) <= Len(stream)
  BY LenProperties DEF IInv, Types, Framing
<1>2. GetSize(ring) \in 0 .. GetCapacity /\ GetCapacity \in Nat
  BY Sizes DEF IInv, Types, GetCapacity
<1>3. Start(Len(received) + 1) \in Nat
  <2>1. CASE Len(received) = Len(stream)
    BY <1>1, <2>1 DEF IInv, Laid
  <2>2. CASE Len(received) < Len(stream)
    <3>1. Len(received) + 1 \in 1 .. Len(stream)
      BY <1>1, <2>2
    <3> QED BY <3>1 DEF IInv, Laid
  <2> QED BY <1>1, <2>1, <2>2
<1> QED BY <1>1, <1>2, <1>3 DEF IInv, Types

\* What the handler reads at the front, when it has read a header with the right
\* code, is the header of the packet after those the listener got.
LEMMA NextPacket ==
  ASSUME IInv, pc = "Loop", HasHeader, IsHeader
  PROVE  LET i == Len(received) + 1 IN
         /\ i \in 1 .. Len(stream) /\ packet = stream[i] /\ packet \in Packets /\ packet.code
         /\ Start(i + 1) = Start(i) + PacketSize(packet)
         /\ \A k \in 1 .. PacketSize(packet) : bytes[Start(i) + k] = <<i, k>>
<1> DEFINE i == Len(received) + 1
<1>0. /\ Len(received) \in Nat /\ Len(stream) \in Nat /\ Len(bytes) \in Nat
      /\ Len(received) <= Len(stream) /\ arrived <= Len(bytes) /\ arrived \in Nat
      /\ GetSize(ring) \in Nat /\ Start(i) \in Nat /\ ring \in Rings
      /\ HeaderSize \in Nat \ {0}
  BY Counts, RecvAssumption DEF IInv, Types
<1>1. HeaderSize <= GetSize(ring) /\ HeaderSize \in 0 .. GetSize(ring)
  BY <1>0 DEF HasHeader
<1>2. /\ Start(i) + GetSize(ring) = arrived
      /\ \A j \in 0 .. GetSize(ring) - 1 : Waiting(ring, j) = bytes[Start(i) + 1 + j]
  BY DEF IInv, Held
<1>3. i \in 1 .. Len(stream)
  <2>1. Start(i) < Len(bytes)
    BY <1>0, <1>1, <1>2
  <2>2. i # Len(stream) + 1
    BY <1>0, <2>1 DEF IInv, Laid
  <2> QED BY <1>0, <2>2
<1>4. /\ stream[i] \in Packets /\ PacketSize(stream[i]) \in Nat /\ PacketSize(stream[i]) >= 1
      /\ PacketSize(stream[i]) >= HeaderSize
  <2>1. stream[i] \in Packets
    BY <1>3, ElementOfSeq DEF IInv, Types
  <2> QED BY <1>0, <2>1, PacketSizes
<1>5. /\ ends[i] = Start(i) + PacketSize(stream[i])
      /\ \A k \in 1 .. PacketSize(stream[i]) : bytes[Start(i) + k] = <<i, k>>
  BY <1>3 DEF IInv, Laid
<1>6. Header[1] = <<i, 1>>
  <2>1. Header[1] = Waiting(ring, 1 - 1)
    BY <1>0, <1>1, Peeked DEF Header
  <2>2. Waiting(ring, 0) = bytes[Start(i) + 1 + 0]
    BY <1>0, <1>1, <1>2
  <2>3. bytes[Start(i) + 1] = <<i, 1>>
    BY <1>4, <1>5
  <2>4. 1 - 1 = 0 /\ Start(i) + 1 + 0 = Start(i) + 1
    BY <1>0
  <2> QED BY <2>1, <2>2, <2>3, <2>4
<1>7. PICK n \in 1 .. Len(stream) :
        stream[n].code /\ Header = SubSeq(PacketBytes(n), 1, HeaderSize)
  <2>1. DOMAIN stream = 1 .. Len(stream)
    BY LenProperties DEF IInv, Types
  <2> QED BY <2>1 DEF IsHeader
<1>8. n = i
  <2>1. stream[n] \in Packets
    BY <1>7, ElementOfSeq DEF IInv, Types
  <2>2. /\ PacketBytes(n) \in Seq(Byte) /\ Len(PacketBytes(n)) = PacketSize(stream[n])
        /\ \A k \in 1 .. PacketSize(stream[n]) : PacketBytes(n)[k] = <<n, k>>
    BY <1>0, <2>1, PacketsBytes DEF PacketBytes
  <2>3. PacketSize(stream[n]) \in Nat /\ PacketSize(stream[n]) >= HeaderSize
    BY <2>1, PacketSizes
  <2>4. \A k \in 1 .. HeaderSize : PacketBytes(n)[k] \in Byte
    BY <1>0, <2>2, <2>3 DEF Byte
  <2>5. SubSeq(PacketBytes(n), 1, HeaderSize)[1] = PacketBytes(n)[1 + 1 - 1]
    <3>1. HeaderSize \in Int /\ 1 \in 1 .. HeaderSize - 1 + 1
      BY <1>0
    <3> QED BY <2>4, <3>1, SubSeqProperties
  <2>6. Header[1] = <<n, 1>>
    BY <1>0, <1>7, <2>2, <2>3, <2>5
  <2> QED BY <1>6, <2>6
<1>9. packet = stream[i]
  BY <1>6 DEF packet
<1>10. Start(i + 1) = ends[i]
  BY <1>0 DEF Start
<1> QED BY <1>3, <1>4, <1>5, <1>7, <1>8, <1>9, <1>10

LEMMA PacketFits ==
  ASSUME IInv, pc = "Loop", HasHeader, IsHeader, ~ TooLong
  PROVE  PacketSize(packet) <= GetCapacity /\ (~ Incomplete => PacketSize(packet) <= GetSize(ring))
<1>1. packet \in Packets
  BY NextPacket
<1>2. /\ packet.length \in Nat /\ HeaderSize \in Nat /\ GetCapacity \in Nat
      /\ GetSize(ring) \in Nat
  BY <1>1, PacketSizes, Counts
<1> QED BY <1>2 DEF TooLong, Incomplete, PacketSize

LEMMA WithoutPackets ==
  ASSUME IInv, pc = "Loop", HasPacket
  PROVE  /\ WithoutPacket \in Rings
         /\ GetSize(WithoutPacket) = GetSize(ring) - PacketSize(packet)
         /\ \A j \in 0 .. GetSize(ring) - PacketSize(packet) - 1 :
               Waiting(WithoutPacket, j) = Waiting(ring, j + PacketSize(packet))
         /\ Len(Peek(MoveFront(ring, HeaderSize), packet.length)) = packet.length
         /\ Peek(MoveFront(ring, HeaderSize), packet.length) \in Seq(Byte)
         /\ \A k \in 1 .. packet.length :
               Peek(MoveFront(ring, HeaderSize), packet.length)[k]
                  = Waiting(ring, HeaderSize + k - 1)
<1> DEFINE r == MoveFront(ring, HeaderSize)
           h == HeaderSize
           n == packet.length
           z == GetSize(ring)
<1>0. /\ h \in Nat /\ n \in Nat /\ z \in Nat /\ PacketSize(packet) = h + n /\ h + n <= z
      /\ ring \in Rings
  <2>1. packet \in Packets
    BY NextPacket DEF HasPacket, Taken
  <2> QED BY <2>1, PacketSizes, Counts, PacketFits DEF HasPacket, Taken, IInv, Types, PacketSize
<1>1. /\ r \in Rings /\ GetSize(r) = z - h
      /\ \A j \in 0 .. z - h - 1 : Waiting(r, j) = Waiting(ring, j + h)
  <2>1. h \in 0 .. z
    BY <1>0
  <2> QED BY <1>0, <2>1, FrontMoved
<1> HIDE DEF r, h, n, z
<1>2. n \in 0 .. GetSize(r)
  BY <1>0, <1>1
<1>3. /\ MoveFront(r, n) \in Rings /\ GetSize(MoveFront(r, n)) = z - h - n
      /\ \A j \in 0 .. z - h - n - 1 : Waiting(MoveFront(r, n), j) = Waiting(r, j + n)
  BY <1>1, <1>2, FrontMoved
<1>4. ASSUME NEW j \in 0 .. z - (h + n) - 1
      PROVE  Waiting(MoveFront(r, n), j) = Waiting(ring, j + (h + n))
  <2>1. j \in 0 .. z - h - n - 1 /\ j + n \in 0 .. z - h - 1 /\ (j + n) + h = j + (h + n)
    BY <1>0
  <2> QED BY <1>1, <1>3, <2>1
<1>5. /\ Peek(r, n) \in Seq(Byte) /\ Len(Peek(r, n)) = n
      /\ \A k \in 1 .. n : Peek(r, n)[k] = Waiting(r, k - 1)
  BY <1>1, <1>2, Peeked
<1>6. ASSUME NEW k \in 1 .. n PROVE Peek(r, n)[k] = Waiting(ring, h + k - 1)
  <2>1. k - 1 \in 0 .. z - h - 1 /\ (k - 1) + h = h + k - 1
    BY <1>0
  <2> QED BY <1>1, <1>5, <2>1
<1>7. z - h - n = z - (h + n)
  BY <1>0
<1>8. WithoutPacket = MoveFront(r, n)
  BY DEF WithoutPacket, r, n
<1> QED BY <1>0, <1>3, <1>4, <1>5, <1>6, <1>7, <1>8 DEF r, h, n, z

--------------------------------------------------------------------------------
(* The inductive invariant holds.                                          *)

\* what only the history says is not changed by most steps
LEMMA SameHistory ==
  ASSUME IInv, UNCHANGED <<peerVars, received>>
  PROVE  /\ Laid' /\ Framing' /\ \A i : Start(i)' = Start(i)
         /\ stream' \in Seq(Packets) /\ bytes' \in Seq(Byte) /\ ends' \in Seq(Nat)
         /\ received' \in Seq(Seq(Byte))
<1>1. stream' = stream /\ bytes' = bytes /\ ends' = ends /\ received' = received
  BY DEF peerVars
<1>2. \A i : Start(i)' = Start(i)
  BY <1>1 DEF Start
<1>3. Laid'
  BY <1>1 DEF IInv, Laid, Start
<1>4. Framing'
  BY <1>1 DEF IInv, Framing, Payload, PacketBytes, Bytes
<1> QED BY <1>1, <1>2, <1>3, <1>4 DEF IInv, Types

LEMMA SendKeeps ==
  ASSUME IInv, NEW p \in Packets, Send(p)
  PROVE  IInv'
<1>0. /\ UNCHANGED <<ring, pc, posted, buf, len, arrived, received, closed>>
      /\ Types /\ Laid /\ Held /\ Room /\ Framing
  BY DEF Send, IInv
<1>1. /\ stream' \in Seq(Packets) /\ bytes' \in Seq(Byte) /\ ends' \in Seq(Nat)
      /\ Len(stream') = Len(stream) + 1 /\ Len(bytes') >= Len(bytes)
      /\ \A i \in 1 .. Len(stream) : stream'[i] = stream[i]
      /\ \A k \in 1 .. Len(bytes) : bytes'[k] = bytes[k]
      /\ \A i \in 1 .. Len(stream) + 1 : Start(i)' = Start(i)
      /\ Laid'
  BY <1>0, SendLays
<1>2. /\ Len(received) \in Nat /\ Len(stream) \in Nat /\ Len(bytes) \in Nat
      /\ Len(received) <= Len(stream) /\ arrived \in Nat /\ arrived <= Len(bytes)
      /\ GetSize(ring) \in Nat /\ Start(Len(received) + 1) \in Nat
  BY Counts
<1>3. Types'
  <2>1. arrived \in 0 .. Len(bytes')
    <3>1. Len(bytes') \in Nat
      BY <1>1, LenProperties
    <3> QED BY <1>1, <1>2, <3>1
  <2> QED BY <1>0, <1>1, <2>1 DEF Types
<1>4. Held'
  <2> SUFFICES ASSUME pc # "Ended"
               PROVE  /\ Start(Len(received) + 1)' + GetSize(ring) = arrived
                      /\ \A j \in 0 .. GetSize(ring) - 1 :
                           Waiting(ring, j) = bytes'[Start(Len(received) + 1)' + 1 + j]
    BY <1>0 DEF Held, Waiting, GetSize
  <2>1. Start(Len(received) + 1)' = Start(Len(received) + 1)
    <3>1. Len(received) + 1 \in 1 .. Len(stream) + 1
      BY <1>2
    <3>2. PICK i \in 1 .. Len(stream) + 1 : i = Len(received) + 1
      BY <3>1
    <3>3. Start(i)' = Start(Len(received) + 1)'
      BY <1>0, <3>2 DEF Start
    <3> QED BY <1>1, <3>2, <3>3
  <2>2. Start(Len(received) + 1) + GetSize(ring) = arrived
    BY <1>0 DEF Held
  <2>3. ASSUME NEW j \in 0 .. GetSize(ring) - 1
        PROVE  Waiting(ring, j) = bytes'[Start(Len(received) + 1) + 1 + j]
    <3>1. Waiting(ring, j) = bytes[Start(Len(received) + 1) + 1 + j]
      BY <1>0 DEF Held
    <3>2. Start(Len(received) + 1) + 1 + j \in 1 .. Len(bytes)
      BY <1>2, <2>2
    <3> QED BY <1>1, <3>1, <3>2
  <2> QED BY <2>1, <2>2, <2>3
<1>5. Room'
  BY <1>0 DEF Room, GetSize, GetDirectEnqueueableSize
<1>6. Framing'
  <2>1. ASSUME NEW i \in DOMAIN received
        PROVE  Good(stream'[i]) /\ received[i] = Payload(i)'
    <3>1. i \in 1 .. Len(stream)
      BY <1>0, <1>2, LenProperties DEF Types
    <3>2. stream'[i] = stream[i]
      BY <1>1, <3>1
    <3>3. Payload(i)' = Payload(i)
      BY <3>2 DEF Payload, PacketBytes, Bytes, PacketSize
    <3> QED BY <1>0, <3>2, <3>3 DEF Framing
  <2> QED BY <1>0, <1>1, <1>2, <2>1 DEF Framing, Good, PacketSize
<1> QED BY <1>1, <1>3, <1>4, <1>5, <1>6 DEF IInv

\* posting, refusing, waiting for more, and what ends a receive
LEMMA ControlKeeps ==
  ASSUME IInv, AwaitMore \/ RefuseHeader \/ Overrun \/ RecvPost \/ Close \/ Accept
  PROVE  IInv'
<1>0. /\ Types /\ Laid /\ Held /\ Room /\ Framing
      /\ UNCHANGED <<ring, peerVars, arrived, received>>
  BY DEF IInv, AwaitMore, RefuseHeader, Overrun, RecvPost, Close, Accept
<1>1. /\ Laid' /\ Framing' /\ \A i : Start(i)' = Start(i)
      /\ stream' \in Seq(Packets) /\ bytes' \in Seq(Byte) /\ ends' \in Seq(Nat)
      /\ received' \in Seq(Seq(Byte)) /\ bytes' = bytes
  BY <1>0, SameHistory DEF peerVars
<1>2. pc \in {"Loop", "Post", "Wait", "Free"} /\ pc' \in {"Post", "Wait", "Ended", "Undefined"}
  BY <1>0 DEF AwaitMore, RefuseHeader, Overrun, RecvPost, Close, Accept, Types
<1>3. Types'
  <2>1. posted' = (pc' = "Wait")
    BY <1>0 DEF AwaitMore, RefuseHeader, Overrun, RecvPost, Close, Accept, Types
  <2> QED BY <1>0, <1>1, <1>2, <2>1 DEF Types
<1>4. Held'
  BY <1>0, <1>1, <1>2 DEF Held, Start, Waiting, GetSize
<1>5. Room'
  <2>0. GetSize(ring)' = GetSize(ring) /\ GetCapacity \in Nat \ {0}
    BY <1>0, RingAssumption DEF GetSize, GetCapacity
  <2>1. CASE AwaitMore
    <3>1. GetSize(ring) < GetCapacity
      <4>1. /\ HeaderSize \in Nat \ {0} /\ HeaderSize <= GetCapacity
            /\ GetSize(ring) \in Nat
        BY RecvAssumption, Counts
      <4>2. CASE ~ HasHeader
        <5>1. IsEmpty(ring) <=> GetSize(ring) = 0
          BY <1>0, Sizes DEF Types
        <5> QED BY <2>0, <4>1, <4>2, <5>1 DEF HasHeader
      <4>3. CASE HasHeader /\ IsHeader /\ ~ TooLong /\ Incomplete
        <5>1. packet \in Packets /\ PacketSize(packet) <= GetCapacity
          BY <2>1, <4>3, NextPacket, PacketFits DEF AwaitMore
        <5>2. packet.length \in Nat
          BY <5>1, PacketSizes
        <5> QED BY <2>0, <4>1, <4>3, <5>1, <5>2 DEF Incomplete, PacketSize
      <4> QED BY <2>1, <4>2, <4>3 DEF AwaitMore
    <3>2. pc' = "Post" /\ ~ posted'
      BY <1>0, <2>1 DEF AwaitMore, Types
    <3> QED BY <2>0, <3>1, <3>2 DEF Room
  <2>2. CASE RefuseHeader \/ Overrun \/ Close
    BY <1>0, <2>2 DEF RefuseHeader, Overrun, Close, Types, Room
  <2>3. CASE RecvPost
    <3>1. GetSize(ring) < GetCapacity /\ pc' # "Post" /\ pc' # "Free"
      BY <1>0, <2>3 DEF RecvPost, Room
    <3>2. GetDirectEnqueueableSize(ring) >= 1
      BY <1>0, <3>1, Sizes DEF Types
    <3>3. /\ buf' = ring'.rear /\ len' = GetDirectEnqueueableSize(ring)'
          /\ GetDirectEnqueueableSize(ring)' = GetDirectEnqueueableSize(ring)
      BY <1>0, <2>3 DEF RecvPost, GetDirectEnqueueableSize
    <3> QED BY <3>1, <3>2, <3>3 DEF Room
  <2>4. CASE Accept
    <3>1. GetSize(ring) = 0 /\ pc' = "Post" /\ ~ posted'
      BY <1>0, <2>4 DEF Accept, Room, Types
    <3> QED BY <2>0, <3>1 DEF Room
  <2> QED BY <2>1, <2>2, <2>3, <2>4
<1> QED BY <1>1, <1>3, <1>4, <1>5 DEF IInv

LEMMA CompleteKeeps ==
  ASSUME IInv, NEW k \in 1 .. len, Complete(k)
  PROVE  IInv'
<1> DEFINE b == SubSeq(bytes, arrived + 1, arrived + k)
           i == Len(received) + 1
           z == GetSize(ring)
<1>0. /\ Types /\ Laid /\ Held /\ Room /\ Framing /\ posted /\ pc = "Wait"
      /\ UNCHANGED <<peerVars, received>> /\ arrived' = arrived + k
      /\ posted' = FALSE /\ pc' = "Loop"
  BY DEF IInv, Complete, Types
<1>1. /\ Laid' /\ Framing' /\ \A j : Start(j)' = Start(j)
      /\ stream' \in Seq(Packets) /\ bytes' \in Seq(Byte) /\ ends' \in Seq(Nat)
      /\ received' \in Seq(Seq(Byte)) /\ bytes' = bytes /\ received' = received
  BY <1>0, SameHistory DEF peerVars
<1>2. /\ Len(bytes) \in Nat /\ arrived \in Nat /\ z \in Nat /\ Start(i) \in Nat
      /\ Start(i) + z = arrived /\ ring \in Rings
  BY <1>0, Counts DEF Held, Types
<1>3. /\ k \in Nat /\ k <= GetDirectEnqueueableSize(ring) /\ buf = ring.rear
      /\ GetDirectEnqueueableSize(ring) \in Nat
  <2>1. GetDirectEnqueueableSize(ring) \in 0 .. GetUnusedSize(ring) /\ GetUnusedSize(ring) \in Int
    BY <1>2, Sizes DEF GetUnusedSize
  <2>2. len = GetDirectEnqueueableSize(ring) /\ buf = ring.rear
    BY <1>0 DEF Room
  <2> QED BY <2>1, <2>2
<1>4. arrived + k <= Len(bytes)
  BY <1>2, <1>3 DEF Complete
<1>5. /\ b \in Seq(Byte) /\ Len(b) = k
      /\ \A j \in 1 .. k : b[j] = bytes[arrived + j]
  <2>1. \A j \in arrived + 1 .. arrived + k : bytes[j] \in Byte
    <3> TAKE j \in arrived + 1 .. arrived + k
    <3>1. j \in 1 .. Len(bytes)
      BY <1>2, <1>3, <1>4
    <3> QED BY <1>0, <3>1, ElementOfSeq DEF Types
  <2>2. arrived + 1 \in Int /\ arrived + k \in Int
    BY <1>2, <1>3
  <2>3. /\ b \in Seq(Byte)
        /\ Len(b) = IF arrived + 1 <= arrived + k THEN (arrived + k) - (arrived + 1) + 1 ELSE 0
        /\ \A j \in 1 .. (arrived + k) - (arrived + 1) + 1 : b[j] = bytes[(arrived + 1) + j - 1]
    BY <2>1, <2>2, SubSeqProperties
  <2>4. /\ (arrived + k) - (arrived + 1) + 1 = k /\ arrived + 1 <= arrived + k
        /\ \A j \in 1 .. k : (arrived + 1) + j - 1 = arrived + j
    BY <1>2, <1>3
  <2> QED BY <2>3, <2>4
<1> HIDE DEF b
<1>6. ring' = MoveRear(Write(ring, ring.rear, b), Len(b))
  BY <1>3, <1>5 DEF Complete, b
<1>7. /\ ring' \in Rings /\ GetSize(ring') = z + k
      /\ \A j \in 0 .. z - 1 : Waiting(ring', j) = Waiting(ring, j)
      /\ \A j \in 0 .. k - 1 : Waiting(ring', z + j) = b[j + 1]
  BY <1>2, <1>3, <1>5, <1>6, Stored
<1>a. ring' \in Rings /\ GetSize(ring') = z + k
  BY <1>7
<1> HIDE DEF z, i
<1>b. arrived' \in 0 .. Len(bytes) /\ Start(i) + (z + k) = arrived'
  BY <1>0, <1>2, <1>3, <1>4
<1>8. Types'
  <2>1. posted' = (pc' = "Wait")
    BY <1>0
  <2>2. arrived' \in 0 .. Len(bytes')
    BY <1>1, <1>b
  <2> QED BY <1>0, <1>1, <1>a, <2>1, <2>2 DEF Types
<1>9. Held'
  <2>1. Start(i) + GetSize(ring') = arrived'
    BY <1>a, <1>b
  <2>2. ASSUME NEW j \in 0 .. GetSize(ring') - 1
        PROVE  Waiting(ring', j) = bytes[Start(i) + 1 + j]
    <3>1. CASE j < z
      <4>1. j \in 0 .. z - 1
        BY <1>2, <1>3, <1>a, <3>1
      <4> QED BY <1>0, <1>7, <4>1 DEF Held, z, i
    <3>2. CASE j >= z
      <4>1. /\ j - z \in 0 .. k - 1 /\ z + (j - z) = j /\ (j - z) + 1 \in 1 .. k
            /\ arrived + ((j - z) + 1) = Start(i) + 1 + j
        <5>1. j \in Int /\ j < z + k
          BY <1>2, <1>3, <1>a
        <5> QED BY <1>2, <1>3, <3>2, <5>1
      <4> QED BY <1>5, <1>7, <4>1
    <3> QED BY <1>2, <1>3, <1>a, <3>1, <3>2
  <2>3. Start(Len(received) + 1)' = Start(i)
    BY <1>0, <1>1 DEF Start, peerVars, i
  <2> QED BY <1>1, <2>1, <2>2, <2>3 DEF Held, Waiting, GetSize
<1>10. Room'
  BY <1>0 DEF Room
<1> QED BY <1>1, <1>8, <1>9, <1>10 DEF IInv

LEMMA RefuseKeeps ==
  ASSUME IInv, RefuseCheckSum
  PROVE  IInv'
<1>0. /\ Types /\ UNCHANGED <<posted, buf, len, peerVars, arrived, received, closed>>
      /\ pc = "Loop" /\ pc' = "Ended" /\ ring' = WithoutPacket /\ HasPacket
  BY DEF IInv, RefuseCheckSum
<1>1. /\ Laid' /\ Framing' /\ bytes' = bytes
      /\ stream' \in Seq(Packets) /\ bytes' \in Seq(Byte) /\ ends' \in Seq(Nat)
      /\ received' \in Seq(Seq(Byte))
  BY <1>0, SameHistory DEF peerVars
<1>2. ring' \in Rings
  BY <1>0, WithoutPackets
<1>3. Types'
  BY <1>0, <1>1, <1>2 DEF Types
<1>4. Held' /\ Room'
  BY <1>0 DEF Held, Room, Types
<1> QED BY <1>1, <1>3, <1>4 DEF IInv

LEMMA ReleaseKeeps ==
  ASSUME IInv, Release
  PROVE  IInv'
<1>0. /\ Types /\ pc = "Ended" /\ pc' = "Free" /\ posted' = FALSE
      /\ stream' = <<>> /\ bytes' = <<>> /\ ends' = <<>> /\ arrived' = 0 /\ received' = <<>>
      /\ ring' = [Clear(ring) EXCEPT !.cell = [o \in Offsets |-> Stale]]
  BY DEF IInv, Release, Types
<1>1. /\ ring' \in Rings /\ GetSize(ring') = 0
  <2>1. /\ ring.rear \in Offsets /\ Stale \in Byte
    BY <1>0 DEF Types, Rings, Stale, Byte
  <2>2. ring' \in Rings /\ ring'.front = ring.rear /\ ring'.rear = ring.rear
    BY <1>0, <2>1 DEF Types, Rings, Clear
  <2> QED BY <2>1, <2>2, RingAssumption DEF GetSize, Offsets
<1>2. /\ stream' \in Seq(Packets) /\ bytes' \in Seq(Byte) /\ ends' \in Seq(Nat)
      /\ received' \in Seq(Seq(Byte))
      /\ Len(stream') = 0 /\ Len(bytes') = 0 /\ Len(ends') = 0 /\ Len(received') = 0
  BY <1>0, EmptySeq
<1>3. Types'
  <2>1. posted' = (pc' = "Wait")
    BY <1>0
  <2>2. arrived' \in 0 .. Len(bytes')
    BY <1>0, <1>2
  <2> QED BY <1>0, <1>1, <1>2, <2>1, <2>2 DEF Types
<1>4. Laid'
  BY <1>2 DEF Laid, Start
<1>5. Held'
  BY <1>0, <1>1, <1>2 DEF Held, Start, GetSize
<1>6. Room'
  BY <1>0, <1>1 DEF Room, GetSize
<1>7. Framing'
  BY <1>0, <1>2 DEF Framing
<1> QED BY <1>3, <1>4, <1>5, <1>6, <1>7 DEF IInv

LEMMA OnRecvKeeps ==
  ASSUME IInv, OnRecv
  PROVE  IInv'
<1> DEFINE i == Len(received) + 1
           z == GetSize(ring)
           size == PacketSize(packet)
           payload == Peek(MoveFront(ring, HeaderSize), packet.length)
<1>0. /\ Types /\ Laid /\ Held /\ Room /\ Framing /\ pc = "Loop" /\ HasPacket
      /\ UNCHANGED <<pc, posted, buf, len, peerVars, arrived, closed>>
      /\ packet.checkSum /\ ring' = WithoutPacket /\ received' = Append(received, payload)
      /\ HasHeader /\ IsHeader /\ ~ TooLong
  BY DEF IInv, OnRecv, HasPacket, Taken
<1>1. /\ Len(received) \in Nat /\ Len(stream) \in Nat /\ Len(bytes) \in Nat
      /\ arrived \in Nat /\ z \in Nat /\ Start(i) \in Nat /\ Start(i) + z = arrived
  BY <1>0, Counts DEF Held
<1>2. /\ i \in 1 .. Len(stream) /\ packet = stream[i] /\ packet \in Packets /\ packet.code
      /\ Start(i + 1) = Start(i) + size
      /\ \A k \in 1 .. size : bytes[Start(i) + k] = <<i, k>>
  BY <1>0, NextPacket
<1>3. /\ size \in Nat /\ size <= z /\ size <= GetCapacity /\ packet.length \in Nat
      /\ HeaderSize \in Nat \ {0} /\ size = HeaderSize + packet.length
  BY <1>0, <1>2, PacketFits, PacketSizes DEF HasPacket, Taken, PacketSize
<1>4. /\ WithoutPacket \in Rings /\ GetSize(WithoutPacket) = z - size
      /\ \A j \in 0 .. z - size - 1 : Waiting(WithoutPacket, j) = Waiting(ring, j + size)
      /\ Len(payload) = packet.length /\ payload \in Seq(Byte)
      /\ \A k \in 1 .. packet.length : payload[k] = Waiting(ring, HeaderSize + k - 1)
  BY <1>0, WithoutPackets
<1>5. \A j \in 0 .. z - 1 : Waiting(ring, j) = bytes[Start(i) + 1 + j]
  BY <1>0 DEF Held
<1>a. z \in Nat /\ size \in Nat /\ size <= z /\ Start(i) \in Nat /\ Start(i + 1) = Start(i) + size
  BY <1>1, <1>2, <1>3
<1> HIDE DEF i, z, size, payload
<1>6. /\ received' \in Seq(Seq(Byte)) /\ Len(received') = i /\ received'[i] = payload
      /\ \A n \in 1 .. Len(received) : received'[n] = received[n]
  BY <1>0, <1>4, AppendProperties DEF Types, i
<1>7. /\ stream' = stream /\ bytes' = bytes /\ ends' = ends /\ arrived' = arrived
      /\ \A n : Start(n)' = Start(n)
  BY <1>0 DEF peerVars, Start
<1>8. Types'
  BY <1>0, <1>4, <1>6, <1>7 DEF Types
<1>9. Laid'
  BY <1>0, <1>7 DEF Laid, Start
<1>10. Held'
  <2>1. Start(i + 1) + (z - size) = arrived
    BY <1>1, <1>2, <1>3
  <2>2. ASSUME NEW j \in 0 .. (z - size) - 1
        PROVE  Waiting(WithoutPacket, j) = bytes[Start(i + 1) + 1 + j]
    <3>1. j \in 0 .. z - size - 1 /\ j + size \in 0 .. z - 1
      BY <1>a
    <3>2. Start(i) + 1 + (j + size) = Start(i + 1) + 1 + j
      BY <1>a
    <3> QED BY <1>4, <1>5, <3>1, <3>2
  <2>3. Start(Len(received) + 1)' = Start(i + 1)
    BY <1>6, <1>7 DEF Start
  <2> QED BY <1>0, <1>4, <1>7, <2>1, <2>2, <2>3 DEF Held, Waiting, GetSize
<1>11. Room'
  BY <1>0 DEF Room, Types
<1>12. payload = Payload(i)
  <2>1. /\ PacketBytes(i) \in Seq(Byte) /\ Len(PacketBytes(i)) = size
        /\ \A k \in 1 .. size : PacketBytes(i)[k] = <<i, k>>
    BY SMTT(30), <1>1, <1>2, PacketsBytes DEF PacketBytes, size, i
  <2>2. \A k \in HeaderSize + 1 .. size : PacketBytes(i)[k] \in Byte
    BY SMTT(30), <1>1, <1>3, <2>1 DEF Byte, i
  <2>3. /\ Payload(i) \in Seq(Byte)
        /\ Len(Payload(i)) = IF HeaderSize + 1 <= size THEN size - (HeaderSize + 1) + 1 ELSE 0
        /\ \A k \in 1 .. size - (HeaderSize + 1) + 1 :
              Payload(i)[k] = PacketBytes(i)[HeaderSize + 1 + k - 1]
    <3>1. Payload(i) = SubSeq(PacketBytes(i), HeaderSize + 1, size)
      BY <1>2 DEF Payload, size
    <3>2. HeaderSize + 1 \in Int /\ size \in Int
      BY <1>3
    <3> QED BY <2>2, <3>1, <3>2, SubSeqProperties
  <2>4. size - (HeaderSize + 1) + 1 = packet.length /\ Len(Payload(i)) = packet.length
    BY <1>3, <2>3
  <2>5. ASSUME NEW k \in 1 .. packet.length PROVE payload[k] = Payload(i)[k]
    <3>1. /\ HeaderSize + k - 1 \in 0 .. z - 1 /\ HeaderSize + k \in 1 .. size
          /\ Start(i) + 1 + (HeaderSize + k - 1) = Start(i) + (HeaderSize + k)
          /\ HeaderSize + 1 + k - 1 = HeaderSize + k
      BY SMTT(30), <1>1, <1>3
    <3>2. payload[k] = <<i, HeaderSize + k>>
      BY <1>2, <1>4, <1>5, <3>1
    <3>3. Payload(i)[k] = PacketBytes(i)[HeaderSize + 1 + k - 1]
      BY <2>3, <2>4
    <3> QED BY <2>1, <3>1, <3>2, <3>3
  <2> QED BY <1>4, <2>3, <2>4, <2>5, SeqEqual
<1>13. Framing'
  <2>1. Good(stream[i])
    BY <1>0, <1>2, <1>3 DEF Good, HasPacket, size
  <2>2. ASSUME NEW n \in DOMAIN received'
        PROVE  Good(stream[n]) /\ received'[n] = Payload(n)
    <3>1. n \in 1 .. i
      BY <1>6, LenProperties
    <3>2. CASE n \in 1 .. Len(received)
      <4>1. n \in DOMAIN received
        BY <1>0, <3>2, LenProperties DEF Types
      <4> QED BY <1>0, <1>6, <3>2, <4>1 DEF Framing
    <3>3. CASE n = i
      BY <1>6, <1>12, <2>1, <3>3
    <3> QED BY <1>1, <3>1, <3>2, <3>3 DEF i
  <2>3. \A n : Payload(n)' = Payload(n)
    BY <1>7 DEF Payload, PacketBytes, Bytes, PacketSize
  <2>4. Len(received') <= Len(stream)
    BY <1>1, <1>2, <1>6
  <2> QED BY <1>7, <2>2, <2>3, <2>4 DEF Framing
<1> QED BY <1>8, <1>9, <1>10, <1>11, <1>13 DEF IInv

--------------------------------------------------------------------------------
(* The theorems.                                                           *)

LEMMA InitIInv == Init => IInv
<1> SUFFICES ASSUME Init PROVE IInv
  OBVIOUS
<1>1. /\ ring \in Rings /\ GetSize(ring) = 0 /\ GetCapacity \in Nat \ {0}
  <2>1. 0 \in Offsets /\ Stale \in Byte /\ GetCapacity \in Nat \ {0}
    BY RingAssumption DEF Offsets, Stale, Byte, GetCapacity
  <2>2. ring \in Rings /\ ring.front = 0 /\ ring.rear = 0
    BY <2>1 DEF Init, Fresh, Rings
  <2> QED BY <2>1, <2>2, RingAssumption DEF GetSize
<1>2. /\ stream \in Seq(Packets) /\ bytes \in Seq(Byte) /\ ends \in Seq(Nat)
      /\ received \in Seq(Seq(Byte))
      /\ Len(stream) = 0 /\ Len(bytes) = 0 /\ Len(ends) = 0 /\ Len(received) = 0
  BY EmptySeq DEF Init
<1>3. Types
  <2>1. posted = (pc = "Wait") /\ pc = "Post"
    BY DEF Init
  <2>2. arrived \in 0 .. Len(bytes)
    BY <1>2 DEF Init
  <2> QED BY <1>1, <1>2, <2>1, <2>2 DEF Types
<1>4. Laid
  BY <1>2 DEF Laid, Start
<1>5. Held
  BY <1>1, <1>2 DEF Init, Held, Start
<1>6. Room
  BY <1>1 DEF Init, Room
<1>7. Framing
  BY <1>2 DEF Init, Framing
<1> QED BY <1>3, <1>4, <1>5, <1>6, <1>7 DEF IInv

LEMMA StepIInv == IInv /\ [Next]_vars => IInv'
<1> SUFFICES ASSUME IInv, [Next]_vars PROVE IInv'
  OBVIOUS
<1>1. CASE UNCHANGED vars \/ Undefined
  <2>0. UNCHANGED vars
    BY <1>1 DEF Undefined
  <2>1. /\ Laid' /\ Framing' /\ \A i : Start(i)' = Start(i)
    BY <2>0, SameHistory DEF vars
  <2>2. Types' /\ Held' /\ Room'
    BY <2>0 DEF vars, peerVars, IInv, Types, Held, Room, Start, Waiting, GetSize,
       GetDirectEnqueueableSize
  <2> QED BY <2>1, <2>2 DEF IInv
<1>2. CASE \E p \in Packets : Send(p)
  BY <1>2, SendKeeps
<1>3. CASE \E k \in 1 .. len : Complete(k)
  BY <1>3, CompleteKeeps
<1>4. CASE Close \/ WorkerStep \/ Accept
  BY <1>4, ControlKeeps, RefuseKeeps, OnRecvKeeps DEF WorkerStep
<1>5. CASE Release
  BY <1>5, ReleaseKeeps
<1> QED BY <1>1, <1>2, <1>3, <1>4, <1>5 DEF Next

\* The inductive invariant: types, where each packet lies in the bytes of its
\* connection, what waits in the buffer, and how much of it.
THEOREM Invariant == Spec => []IInv
  BY InitIInv, StepIInv, PTL DEF Spec

\* The listener gets the packets of the connection whole and in their order,
\* however the stream was cut into receives and wherever it wrapped in the
\* buffer, and nothing after a packet that workerThread refuses.
THEOREM PacketsWhole == Spec => []Framing
<1>1. IInv => Framing
  BY DEF IInv
<1> QED BY <1>1, Invariant, PTL

\* Between two completions the ring buffer holds exactly the bytes that have
\* arrived and that the loop of workerThread has not consumed: WSARecv never
\* overwrites any, and a full buffer is never taken for an empty one.
THEOREM BufferHoldsTheRest == Spec => []BufferExact
<1>1. IInv => BufferExact
  <2> SUFFICES ASSUME IInv, pc \notin {"Ended", "Undefined"}
               PROVE  Peek(ring, GetSize(ring)) = SubSeq(bytes, Consumed + 1, arrived)
    BY DEF BufferExact
  <2> DEFINE c == Start(Len(received) + 1)
             z == GetSize(ring)
  <2>0. /\ Len(received) \in Nat /\ Len(bytes) \in Nat /\ arrived \in Nat /\ arrived <= Len(bytes)
        /\ z \in Nat /\ c \in Nat /\ c + z = arrived /\ ring \in Rings /\ bytes \in Seq(Byte)
    BY Counts DEF IInv, Types, Held
  <2>1. Consumed = c
    <3>1. received = <<>> <=> Len(received) = 0
      BY EmptySeq DEF IInv, Types
    <3> QED BY <2>0, <3>1 DEF Consumed, Start
  <2>2. /\ Peek(ring, z) \in Seq(Byte) /\ Len(Peek(ring, z)) = z
        /\ \A k \in 1 .. z : Peek(ring, z)[k] = Waiting(ring, k - 1)
    <3>1. z \in 0 .. GetSize(ring) /\ ring \in Rings
      BY <2>0
    <3> QED BY <3>1, Peeked
  <2>3. \A j \in 0 .. z - 1 : Waiting(ring, j) = bytes[c + 1 + j]
    BY DEF IInv, Held
  <2> HIDE DEF c, z
  <2>4. \A k \in c + 1 .. arrived : bytes[k] \in Byte
    <3> TAKE k \in c + 1 .. arrived
    <3>1. k \in 1 .. Len(bytes)
      BY <2>0
    <3> QED BY <2>0, <3>1, ElementOfSeq
  <2>5. /\ SubSeq(bytes, c + 1, arrived) \in Seq(Byte)
        /\ Len(SubSeq(bytes, c + 1, arrived)) =
              IF c + 1 <= arrived THEN arrived - (c + 1) + 1 ELSE 0
        /\ \A k \in 1 .. arrived - (c + 1) + 1 :
              SubSeq(bytes, c + 1, arrived)[k] = bytes[c + 1 + k - 1]
    <3>1. c + 1 \in Int /\ arrived \in Int
      BY <2>0
    <3> QED BY <2>4, <3>1, SubSeqProperties
  <2>6. arrived - (c + 1) + 1 = z /\ Len(SubSeq(bytes, c + 1, arrived)) = z
    BY <2>0, <2>5
  <2>7. ASSUME NEW k \in 1 .. z PROVE Peek(ring, z)[k] = SubSeq(bytes, c + 1, arrived)[k]
    <3>1. k - 1 \in 0 .. z - 1 /\ c + 1 + (k - 1) = c + 1 + k - 1
      BY <2>0
    <3> QED BY <2>2, <2>3, <2>5, <2>6, <3>1
  <2>8. Peek(ring, z) = SubSeq(bytes, c + 1, arrived)
    BY <2>2, <2>5, <2>6, <2>7, SeqEqual
  <2> QED BY <2>1, <2>8 DEF z
<1> QED BY <1>1, Invariant, PTL

\* recvPost never posts a receive for no bytes, nor into cells that hold bytes
\* not consumed yet or lie beyond the allocation.
THEOREM ReceivesHaveRoom == Spec => []RoomToReceive
<1>1. IInv => RoomToReceive
  BY Sizes DEF IInv, Types, Room, RoomToReceive
<1> QED BY <1>1, Invariant, PTL

================================================================================
