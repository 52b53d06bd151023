------------------------------- MODULE Broadcast -------------------------------
(***************************************************************************)
(* What happens to the bytes of messages between two clients: a worker     *)
(* decodes what one sent into a message for the listener; the listener's   *)
(* thread reads its values, writes them into a message of its own, and     *)
(* sends that one message to several sessions, as sendToSectorRange does.  *)
(* It is encoded where it is, once, while its buffer may already be on its *)
(* way to an earlier session; and both messages go back to the pool, with  *)
(* their last references, to be used again either way.                     *)
(*                                                                         *)
(* When a WSASend reads a buffer is not the program's to say: at any time  *)
(* while the message is in a session's queue, which here stands for        *)
(* SendQueue and SentMessages together (SendPath tells them apart).        *)
(***************************************************************************)
EXTENDS Message, PacketCodec, FiniteSets

CONSTANTS
    Messages,   \* bound: the pool
    Sessions,
    Bodies,     \* what a client may say: values, each a sequence of bytes
    Type,       \* the value that every message of the listener begins with
    RandKeys,
    MaxInbox,   \* bound: packets not handled yet
    NoMessage

ASSUME BroadcastAssumption ==
    /\ Bodies \subseteq Seq(Seq(Byte)) /\ Type \in Seq(Byte) /\ RandKeys \subseteq Byte
    /\ IsFiniteSet(Sessions) /\ NoMessage \notin Messages /\ MaxInbox \in Nat

VARIABLES
    msg,        \* the messages
    header,     \* Header at the start of the buffer: CheckSum and RandKey
    refs,       \* mRefCount
    written,    \* history: what was written into a message, value by value
    inbox,      \* packets for the listener's thread
    pc, in, out, heard,     \* where it is; what it handles, builds, has read
    todo,       \* the sessions it has still to send to
    open, sendQueue \* of each session

relayVars == <<msg, header, refs, written, inbox, pc, in, out, heard, todo, open, sendQueue>>
listenerVars == <<inbox, pc, in, out, heard, todo>>

Free == {m \in Messages : refs[m] = 0}
NoHeader == [checkSum |-> 0, key |-> 0]

RelayInit ==
    /\ msg = [m \in Messages |-> Blank]
    /\ header = [m \in Messages |-> NoHeader]
    /\ refs = [m \in Messages |-> 0]
    /\ written = [m \in Messages |-> <<>>]
    /\ inbox = <<>>
    /\ pc = "Idle" /\ in = NoMessage /\ out = NoMessage /\ heard = <<>> /\ todo = {}
    /\ open = [s \in Sessions |-> TRUE]
    /\ sendQueue = [s \in Sessions |-> <<>>]

\* mutant: the message keeps its encoded flag
ReleaseEncoded(ms) ==
    /\ refs' = [m \in Messages |-> IF m \in ms THEN refs[m] - 1 ELSE refs[m]]
    /\ msg' = [m \in Messages |-> IF m \in ms /\ refs[m] = 1 THEN Clear(msg[m]) ELSE msg[m]]
    /\ written' = [m \in Messages |-> IF m \in ms /\ refs[m] = 1 THEN <<>> ELSE written[m]]
    /\ UNCHANGED header

\* Message::Release of each of ms
Release(ms) ==
    /\ refs' = [m \in Messages |-> IF m \in ms THEN refs[m] - 1 ELSE refs[m]]
    /\ msg' = [m \in Messages |-> IF m \in ms /\ refs[m] = 1
                                  THEN [Clear(msg[m]) EXCEPT !.mbEncoded = FALSE] ELSE msg[m]]
    /\ written' = [m \in Messages |-> IF m \in ms /\ refs[m] = 1 THEN <<>> ELSE written[m]]
    /\ UNCHANGED header

--------------------------------------------------------------------------------
(* A packet comes in                                                       *)

\* The client encodes as the server does; the worker copies the bytes behind
\* mRear, decodes them there, and hands the message to the listener, which
\* takes a reference before the worker drops its own.  RecvPath has the packet
\* whose check sum is wrong, and the one that is longer than the buffer, which
\* Receive leaves out: MoveWritePos does not make a message grow.
Receive(body, key) ==
    /\ Len(inbox) < MaxInbox
    /\ LET said == FlattenSeq(body)
           packet == Encode(key, calculateCheckSum(said), said)
           plain == Decode(key, packet.checkSum, packet.data)
       IN /\ Len(said) <= DEFAULT_SIZE
          /\ plain.checkSum = calculateCheckSum(plain.data)
          /\ \E m \in Free :
                /\ msg' = [msg EXCEPT ![m].data = msg[m].data \o plain.data]
                /\ refs' = [refs EXCEPT ![m] = 1]
                /\ written' = [written EXCEPT ![m] = body]
                /\ inbox' = Append(inbox, m)
    /\ UNCHANGED <<header, pc, in, out, heard, todo, open, sendQueue>>

--------------------------------------------------------------------------------
(* The listener's thread                                                   *)

\* the values of a message, read one after the other
Read(m, widths) ==
    LET at[i \in 0 .. Len(widths)] == IF i = 0 THEN m ELSE Get(at[i - 1], widths[i])
    IN [m |-> at[Len(widths)],
        values |-> [i \in 1 .. Len(widths) |-> FrontBytes(at[i - 1], widths[i])]]

ReadValues ==
    /\ pc = "Idle" /\ inbox # <<>>
    /\ LET m == Head(inbox)
           r == Read(msg[m], [i \in DOMAIN written[m] |-> Len(written[m][i])])
       IN /\ in' = m
          /\ heard' = r.values
          /\ msg' = [msg EXCEPT ![m] = r.m]
    /\ inbox' = Tail(inbox)
    /\ pc' = "Write"
    /\ UNCHANGED <<header, refs, written, out, todo, open, sendQueue>>

\* the values written into a message, one after the other
PutAll(m, values) ==
    LET at[i \in 0 .. Len(values)] == IF i = 0 THEN m ELSE Put(at[i - 1], values[i])
    IN at[Len(values)]

Write ==
    /\ pc = "Write"
    /\ \E m \in Free :
        /\ msg' = [msg EXCEPT ![m] = PutAll(ForSending(msg[m]), <<Type>> \o heard)]
        /\ refs' = [refs EXCEPT ![m] = 1]
        /\ written' = [written EXCEPT ![m] = <<Type>> \o heard]
        /\ out' = m
    /\ todo' = Sessions
    /\ pc' = "Send"
    /\ UNCHANGED <<header, inbox, in, heard, open, sendQueue>>

\* the part of TrySendMessage that touches the message
EncodeOnce(m, key) ==
    IF msg[m].mbEncoded THEN UNCHANGED <<msg, header>>
    ELSE LET packet == Encode(key, calculateCheckSum(msg[m].data), msg[m].data)
         IN /\ header' = [header EXCEPT ![m] = [checkSum |-> packet.checkSum, key |-> key]]
            /\ msg' = [msg EXCEPT ![m].data = packet.data, ![m].mbEncoded = TRUE]

\* mutant: the flag is not looked at
TrySendMessageAgain(s, key) ==
    /\ pc = "Send" /\ s \in todo
    /\ todo' = todo \ {s}
    /\ IF open[s]
       THEN /\ refs' = [refs EXCEPT ![out] = @ + 1]
            /\ LET packet == Encode(key, calculateCheckSum(msg[out].data), msg[out].data)
               IN /\ header' = [header EXCEPT ![out] = [checkSum |-> packet.checkSum, key |-> key]]
                  /\ msg' = [msg EXCEPT ![out].data = packet.data, ![out].mbEncoded = TRUE]
            /\ sendQueue' = [sendQueue EXCEPT ![s] = Append(@, out)]
       ELSE UNCHANGED <<refs, header, msg, sendQueue>>
    /\ UNCHANGED <<written, inbox, pc, in, out, heard, open>>

TrySendMessage(s, key) ==
    /\ pc = "Send" /\ s \in todo
    /\ todo' = todo \ {s}
    /\ IF open[s]
       THEN /\ refs' = [refs EXCEPT ![out] = @ + 1]
            /\ EncodeOnce(out, key)
            /\ sendQueue' = [sendQueue EXCEPT ![s] = Append(@, out)]
       ELSE UNCHANGED <<refs, header, msg, sendQueue>>
    /\ UNCHANGED <<written, inbox, pc, in, out, heard, open>>

ReleaseBoth ==
    /\ pc = "Send" /\ todo = {}
    /\ Release({in, out})
    /\ pc' = "Idle" /\ in' = NoMessage /\ out' = NoMessage /\ heard' = <<>>
    /\ UNCHANGED <<inbox, todo, open, sendQueue>>

--------------------------------------------------------------------------------
(* Sessions                                                                *)

\* a send has completed
Complete(s) ==
    /\ sendQueue[s] # <<>>
    /\ Release({Head(sendQueue[s])})
    /\ sendQueue' = [sendQueue EXCEPT ![s] = Tail(@)]
    /\ UNCHANGED <<listenerVars, open>>

\* the session is released, with what it had not sent, or begins
Close(s) ==
    /\ open[s]
    /\ Release(ToSet(sendQueue[s]))
    /\ sendQueue' = [sendQueue EXCEPT ![s] = <<>>]
    /\ open' = [open EXCEPT ![s] = FALSE]
    /\ UNCHANGED listenerVars

Open(s) ==
    /\ ~open[s]
    /\ open' = [open EXCEPT ![s] = TRUE]
    /\ UNCHANGED <<msg, header, refs, written, listenerVars, sendQueue>>

ListenerStep ==
    \/ ReadValues \/ Write \/ ReleaseBoth
    \/ \E s \in Sessions, key \in RandKeys : TrySendMessage(s, key)

RelayNext ==
    \/ \E body \in Bodies, key \in RandKeys : Receive(body, key)
    \/ ListenerStep
    \/ \E s \in Sessions : Complete(s) \/ Close(s) \/ Open(s)

RelaySpec == RelayInit /\ [][RelayNext]_relayVars

--------------------------------------------------------------------------------
(* Properties                                                              *)

\* Whichever key std::rand picks, decoding undoes the encoding that TrySendMessage
\* is about to do, byte for byte.
CodecInverse ==
    (pc = "Send" /\ todo = Sessions) =>
        LET data == msg[out].data
            checkSum == calculateCheckSum(data)
        IN \A key \in Byte :
            LET packet == Encode(key, checkSum, data)
            IN Decode(key, packet.checkSum, packet.data) = [checkSum |-> checkSum, data |-> data]

\* The listener reads what the client wrote, and at any time while a message is
\* in the queue of a session the packet that its buffer makes decodes to what
\* the listener wrote, by its one header, although sends to other sessions
\* prepare it, and release it, in the meantime.  This leaves out messages that
\* have ever been written beyond their buffer.
ReadAsWritten ==
    /\ pc # "Idle" /\ ~msg[in].freed => heard = written[in]
    /\ \A s \in Sessions : \A m \in ToSet(sendQueue[s]) :
        LET plain == Decode(header[m].key, header[m].checkSum, msg[m].data) IN
        ~msg[m].freed =>
            /\ msg[m].mbEncoded /\ msg[m].room = HeaderSize
            /\ plain.data = FlattenSeq(written[m])
            /\ plain.checkSum = calculateCheckSum(plain.data)

\* A message has a reference for everyone who has it, and only then; a message
\* in the pool is as good as new, whichever way it was used before.
PoolClean ==
    \A m \in Messages :
        /\ refs[m] = Cardinality({i \in DOMAIN inbox : inbox[i] = m})
                     + (IF m \in {in, out} THEN 1 ELSE 0)
                     + Cardinality({s \in Sessions : m \in ToSet(sendQueue[s])})
        /\ refs[m] = 0 => msg[m] = [Blank EXCEPT !.mCapacity = msg[m].mCapacity,
                                                 !.freed = msg[m].freed]
================================================================================
