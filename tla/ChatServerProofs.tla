--------------------------- MODULE ChatServerProofs ---------------------------
(***************************************************************************)
(* Proofs about the chat server.  About ChatServer, for any number of      *)
(* sessions, accounts, sectors, player objects and packets: an object      *)
(* belongs to one session or to the pool, the sectors hold exactly the     *)
(* players that are in them, and no session that has left remains a player *)
(* unless its Leave was handled before its Join, and no wake-up is lost;   *)
(* whatever order the events come out of the queue in.  About Broadcast,   *)
(* for any messages, sessions, keys and contents of any length: the codec  *)
(* is its own inverse, what is sent decodes to what was written, and       *)
(* messages go back to the pool with their last reference, as good as new. *)
(* Broadcast's names do not meet ChatServer's.                             *)
(***************************************************************************)
EXTENDS ChatServer, Broadcast, SequenceTheorems, FiniteSetTheorems, TLAPS

--------------------------------------------------------------------------------
(* ChatServer: the inductive invariant.                                    *)

Events ==
    [event : {"Join", "Leave"}, id : Ids]
        \cup [event : {"PacketReceived"}, id : Ids, payload : Packets]

Players == [account : Accounts \cup {NoAccount}, sector : Places, id : Ids \cup {NoPlayer}]

Types ==
    /\ session \in [Ids -> {"New", "Open", "Left"}]
    /\ queue \in Seq(Events)
    /\ update \in {"Dequeue", "Wait", "Handle"}
    /\ event \in Events \cup {NoEvent}
    /\ mPlayers \in [Ids -> Objects \cup {NoPlayer}]
    /\ mSectors \in [Places -> [Ids -> Objects \cup {NoPlayer}]]
    /\ player \in [Objects -> Players]
    /\ free \subseteq Objects

Idle == event.event = "None"
About(id) == event.event # "None" /\ event.id = id
InHand(kind, id) == event.event = kind /\ event.id = id
Waits(i, kind, id) == queue[i].event = kind /\ queue[i].id = id

\* The update thread has an event exactly while it handles it.
Hand == update = "Handle" <=> ~ Idle

\* Nothing is known of a session that has not joined ...
NewClean ==
    \A id \in Ids : session[id] = "New" =>
        /\ mPlayers[id] = NoPlayer /\ ~ About(id)
        /\ \A i \in 1 .. Len(queue) : queue[i].id # id

\* ... it joins once, and is no player before ...
JoinOnce ==
    \A id \in Ids :
        /\ \A j \in 1 .. Len(queue) : Waits(j, "Join", id) =>
              /\ mPlayers[id] = NoPlayer /\ ~ InHand("Join", id)
              /\ \A i \in 1 .. Len(queue) : Waits(i, "Join", id) => i = j
        /\ InHand("Join", id) => mPlayers[id] = NoPlayer

\* ... and once it has left, its Leave is still to come as long as it is a
\* player or can become one, unless its Leave has overtaken its Join.
JoinPending(id) ==
    InHand("Join", id) \/ \E i \in 1 .. Len(queue) : Waits(i, "Join", id)
LeavePending(id) ==
    InHand("Leave", id) \/ \E i \in 1 .. Len(queue) : Waits(i, "Leave", id)
LeaveComes ==
    \A id \in Ids :
        session[id] = "Left" /\ (mPlayers[id] # NoPlayer \/ JoinPending(id))
            => LeavePending(id) \/ id \in overtaken

Protocol == Hand /\ NewClean /\ JoinOnce /\ LeaveComes

IInv == Types /\ Protocol /\ ObjectsOwned /\ SectorsAgree

--------------------------------------------------------------------------------
(* What the handlers come to.                                              *)

\* the handler has taken its event, and is done with it
Handled ==
    /\ update = "Handle" /\ update' = "Dequeue" /\ event' = NoEvent
    /\ UNCHANGED <<queue, session>>

\* no player object changes its place, its session or its owner
Stayed ==
    /\ UNCHANGED <<mPlayers, mSectors, free>>
    /\ player' \in [Objects -> Players]
    /\ \A o \in Objects : player'[o].sector = player[o].sector /\ player'[o].id = player[o].id

\* the player of the event is removed from everything
Removed ==
    /\ event.event # "Join" /\ Me # NoPlayer
    /\ mPlayers' = [mPlayers EXCEPT ![event.id] = NoPlayer]
    /\ mSectors' = [mSectors EXCEPT ![player[Me].sector][event.id] = NoPlayer]
    /\ free' = free \cup {Me}
    /\ player' \in [Objects -> Players]
    /\ \A o \in Objects : player'[o].sector = player[o].sector /\ player'[o].id = player[o].id

LEMMA EventInHand ==
  ASSUME Types, Hand, update = "Handle"
  PROVE  /\ event \in Events /\ event.id \in Ids
         /\ event.event \in {"Join", "Leave", "PacketReceived"}
         /\ event.event = "PacketReceived" => event.payload \in Packets
<1>1. event.event # "None"
  BY DEF Hand, Idle
<1>2. event # NoEvent
  BY <1>1 DEF NoEvent
<1>3. event \in Events
  BY <1>2 DEF Types
<1>4. event.id \in Ids /\ event.event \in {"Join", "Leave", "PacketReceived"}
  BY <1>3 DEF Events
<1>5. ASSUME event.event = "PacketReceived" PROVE event.payload \in Packets
  BY <1>3, <1>5 DEF Events
<1> QED BY <1>3, <1>4, <1>5

LEMMA MyObject ==
  ASSUME IInv, update = "Handle", Me # NoPlayer
  PROVE  /\ Me \in Objects /\ player[Me].id = event.id /\ player[Me] \in Players
         /\ player[Me].sector \in Places
<1>1. event.id \in Ids
  BY EventInHand DEF IInv, Protocol
<1>2. Me \in Objects /\ player[Me].id = event.id
  BY <1>1 DEF IInv, Types, ObjectsOwned, Me
<1>3. player[Me] \in Players
  BY <1>2 DEF IInv, Types
<1> QED BY <1>2, <1>3 DEF Players

LEMMA LeaveSteps ==
  ASSUME IInv, Leave
  PROVE  Handled /\ event.event = "Leave" /\ ((Stayed /\ Me = NoPlayer) \/ Removed)
<1>1. Handled /\ event.event = "Leave"
  BY DEF Leave, LeaveDone, Handle, Handled, netVars
<1>2. CASE Me = NoPlayer
  <2>1. UNCHANGED gameVars
    BY <1>2 DEF Leave, Me
  <2> QED BY <1>1, <1>2, <2>1 DEF gameVars, Stayed, IInv, Types
<1>3. CASE Me # NoPlayer
  <2>1. removePlayer(Me) /\ UNCHANGED player
    BY <1>3 DEF Leave, Me
  <2>2. player[Me].id = event.id
    BY <1>1, <1>3, MyObject DEF Handled
  <2> QED BY <1>1, <1>3, <2>1, <2>2 DEF removePlayer, Removed, IInv, Types
<1> QED BY <1>2, <1>3

LEMMA KickSteps ==
  ASSUME IInv, Kick
  PROVE  Handled /\ event.event = "PacketReceived" /\ Removed
<1>1. Handled /\ event.event = "PacketReceived" /\ Me # NoPlayer
  BY DEF Kick, Done, Packet, Handle, Handled, netVars, Me
<1>2. removePlayer(Me) /\ UNCHANGED player
  BY DEF Kick
<1>3. player[Me].id = event.id
  BY <1>1, MyObject DEF Handled
<1> QED BY <1>1, <1>2, <1>3 DEF removePlayer, Removed, IInv, Types

LEMMA LoginSteps ==
  ASSUME IInv, Login
  PROVE  Handled /\ event.event = "PacketReceived" /\ (Stayed \/ Removed)
<1>1. Handled /\ event.event = "PacketReceived" /\ Me # NoPlayer
  BY DEF Login, Done, Packet, Handle, Handled, netVars, Me
<1>2. Me \in Objects
  BY <1>1, MyObject DEF Handled
<1>3. event.payload.account \in Accounts
  BY <1>1, EventInHand, ChatAssumption DEF Handled, IInv, Protocol
<1>4. player' = [player EXCEPT ![Me].account = event.payload.account]
  BY DEF Login
<1>5. \A o \in Objects :
        /\ player'[o] = [player[o] EXCEPT !.account =
                            IF o = Me THEN event.payload.account ELSE player[o].account]
        /\ player'[o] \in Players
        /\ player'[o].sector = player[o].sector /\ player'[o].id = player[o].id
  <2> TAKE o \in Objects
  <2>1. player \in [Objects -> Players] /\ player[o] \in Players
    BY DEF IInv, Types
  <2>2. CASE o = Me
    BY <1>2, <1>3, <1>4, <2>1, <2>2 DEF Players
  <2>3. CASE o # Me
    BY <1>2, <1>4, <2>1, <2>3 DEF Players
  <2> QED BY <2>2, <2>3
<1>6. player' \in [Objects -> Players]
  BY <1>2, <1>4, <1>5 DEF IInv, Types
<1>7. CASE event.payload.account \notin mLoginAccountNumbers
  BY <1>1, <1>5, <1>6, <1>7 DEF Login, Stayed
<1>8. CASE event.payload.account \in mLoginAccountNumbers
  BY <1>1, <1>5, <1>6, <1>8 DEF Login, Removed
<1> QED BY <1>1, <1>7, <1>8

LEMMA OtherSteps ==
  ASSUME IInv, Ignore \/ Chat
  PROVE  Handled /\ event.event = "PacketReceived" /\ Stayed
<1>1. Handled /\ event.event = "PacketReceived" /\ UNCHANGED gameVars
  BY DEF Ignore, Chat, Done, Packet, Handle, Handled, netVars
<1> QED BY <1>1 DEF gameVars, Stayed, IInv, Types

LEMMA MoveSteps ==
  ASSUME IInv, Move
  PROVE  /\ Handled /\ event.event = "PacketReceived" /\ UNCHANGED <<mPlayers, free>>
         /\ \E to \in Sectors :
              /\ mSectors' = [mSectors EXCEPT ![player[Me].sector][event.id] = NoPlayer,
                                              ![to][event.id] = Me]
              /\ player' = [player EXCEPT ![Me].sector = to]
         /\ Me # NoPlayer
  BY DEF Move, Valid, Done, Packet, Handle, Handled, netVars, Me

LEMMA JoinSteps ==
  ASSUME IInv, Join
  PROVE  /\ Handled /\ event.event = "Join" /\ UNCHANGED mSectors
         /\ \E o \in free :
              /\ free' = free \ {o}
              /\ player' = [player EXCEPT ![o].sector = Nowhere, ![o].id = event.id]
              /\ mPlayers' = [mPlayers EXCEPT ![event.id] = o]
  BY DEF Join, Done, Handle, Handled, netVars

--------------------------------------------------------------------------------
(* The callbacks and the queue.                                            *)

\* Where the elements of a sequence are when another is inserted.
LEMMA Inserted ==
  ASSUME NEW S, NEW s \in Seq(S), NEW i \in 1 .. Len(s) + 1, NEW e \in S
  PROVE  /\ InsertAt(s, i, e) \in Seq(S) /\ Len(InsertAt(s, i, e)) = Len(s) + 1
         /\ \A j \in 1 .. Len(s) + 1 :
               InsertAt(s, i, e)[j] = IF j < i THEN s[j] ELSE IF j = i THEN e ELSE s[j - 1]
<1> DEFINE front == SubSeq(s, 1, i - 1)
           back == SubSeq(s, i, Len(s))
           most == front \o <<e>>
<1>0. Len(s) \in Nat /\ i \in Int /\ i - 1 \in Int /\ i - 1 <= Len(s) /\ i >= 1
  BY LenProperties
<1>1. \A j \in 1 .. Len(s) : s[j] \in S
  BY ElementOfSeq
<1>2. /\ front \in Seq(S) /\ Len(front) = i - 1
      /\ \A j \in 1 .. i - 1 : front[j] = s[j]
  <2>1. \A j \in 1 .. i - 1 : s[j] \in S
    BY <1>0, <1>1
  <2>2. /\ front \in Seq(S)
        /\ Len(front) = IF 1 <= i - 1 THEN i - 1 - 1 + 1 ELSE 0
        /\ \A j \in 1 .. i - 1 - 1 + 1 : front[j] = s[1 + j - 1]
    BY <1>0, <2>1, SubSeqProperties
  <2> HIDE DEF front
  <2> QED BY <1>0, <2>2
<1>3. /\ back \in Seq(S) /\ Len(back) = Len(s) - i + 1
      /\ \A j \in 1 .. Len(s) - i + 1 : back[j] = s[i + j - 1]
  <2>1. \A j \in i .. Len(s) : s[j] \in S
    BY <1>0, <1>1
  <2>2. /\ back \in Seq(S)
        /\ Len(back) = IF i <= Len(s) THEN Len(s) - i + 1 ELSE 0
        /\ \A j \in 1 .. Len(s) - i + 1 : back[j] = s[i + j - 1]
    BY <1>0, <2>1, SubSeqProperties
  <2> HIDE DEF back
  <2> QED BY <1>0, <2>2
<1>4. <<e>> \in Seq(S) /\ Len(<<e>>) = 1 /\ <<e>>[1] = e
  OBVIOUS
<1> HIDE DEF front, back
<1>5. /\ most \in Seq(S) /\ Len(most) = i
      /\ \A j \in 1 .. i : most[j] = IF j < i THEN s[j] ELSE e
  <2>1. /\ most \in Seq(S) /\ Len(most) = Len(front) + Len(<<e>>)
        /\ \A j \in 1 .. Len(front) + Len(<<e>>) :
              most[j] = IF j <= Len(front) THEN front[j] ELSE <<e>>[j - Len(front)]
    BY <1>2, <1>4, ConcatProperties
  <2> HIDE DEF most
  <2>2. Len(most) = i
    BY <1>0, <1>2, <1>4, <2>1
  <2>3. ASSUME NEW j \in 1 .. i PROVE most[j] = IF j < i THEN s[j] ELSE e
    <3>1. CASE j < i
      <4>1. j \in 1 .. i - 1 /\ j \in 1 .. Len(front) + Len(<<e>>) /\ j <= Len(front)
        BY <1>0, <1>2, <1>4, <3>1
      <4> QED BY <1>2, <2>1, <3>1, <4>1
    <3>2. CASE j = i
      <4>1. /\ j \in 1 .. Len(front) + Len(<<e>>) /\ ~ (j <= Len(front))
            /\ j - Len(front) = 1
        BY <1>0, <1>2, <1>4, <3>2
      <4> QED BY <1>4, <2>1, <3>2, <4>1
    <3> QED BY <1>0, <3>1, <3>2
  <2> QED BY <2>1, <2>2, <2>3
<1> HIDE DEF most
<1> DEFINE whole == most \o back
<1>6. /\ whole \in Seq(S) /\ Len(whole) = Len(most) + Len(back)
      /\ \A j \in 1 .. Len(most) + Len(back) :
            whole[j] = IF j <= Len(most) THEN most[j] ELSE back[j - Len(most)]
  BY <1>3, <1>5, ConcatProperties
<1> HIDE DEF whole
<1>7. InsertAt(s, i, e) = whole
  BY DEF InsertAt, whole, most, front, back
<1>8. ASSUME NEW j \in 1 .. Len(s) + 1
      PROVE  whole[j] = IF j < i THEN s[j] ELSE IF j = i THEN e ELSE s[j - 1]
  <2>1. CASE j <= i
    BY <1>0, <1>3, <1>5, <1>6, <2>1
  <2>2. CASE j > i
    <3>1. j - i \in 1 .. Len(s) - i + 1 /\ i + (j - i) - 1 = j - 1
      BY <1>0, <2>2
    <3>2. back[j - i] = s[j - 1]
      BY <1>3, <3>1
    <3>3. j \in 1 .. Len(most) + Len(back) /\ ~ (j <= Len(most)) /\ Len(most) = i
      BY <1>0, <1>3, <1>5, <2>2
    <3>4. whole[j] = back[j - i]
      BY <1>6, <3>3
    <3>5. ~ (j < i) /\ j # i
      BY <1>0, <2>2
    <3> QED BY <3>2, <3>4, <3>5
  <2> QED BY <1>0, <2>1, <2>2
<1>9. Len(whole) = Len(s) + 1
  BY <1>0, <1>3, <1>5, <1>6
<1> QED BY <1>6, <1>7, <1>8, <1>9

\* a callback of a session puts an event on the queue, somewhere
Arrives(id, e) ==
    /\ \E i \in 1 .. Len(queue) + 1 : queue' = InsertAt(queue, i, e)
    /\ e \in Events /\ e.id = id
    /\ UNCHANGED <<update, event, overtaken, gameVars>>

LEMMA CallbackSteps ==
  ASSUME IInv, NEW id \in Ids, Callback(id)
  PROVE  \/ /\ session[id] = "New" /\ session' = [session EXCEPT ![id] = "Open"]
            /\ \E e : e.event = "Join" /\ Arrives(id, e)
         \/ /\ session[id] = "Open" /\ session' = session
            /\ \E e : e.event = "PacketReceived" /\ Arrives(id, e)
         \/ /\ session[id] = "Open" /\ session' = [session EXCEPT ![id] = "Left"]
            /\ \E e : e.event = "Leave" /\ Arrives(id, e)
         \/ UNCHANGED <<session, queue, update, event, overtaken, gameVars>>
<1>1. CASE OnClientJoin(id)
  <2> DEFINE e == [event |-> "Join", id |-> id]
  <2>1. e \in Events /\ e.id = id /\ e.event = "Join"
    BY DEF Events
  <2> QED BY <1>1, <2>1 DEF OnClientJoin, Enqueue, Arrives
<1>2. ASSUME NEW p \in Packets, OnRecv(id, p)
      PROVE  /\ session[id] = "Open" /\ session' = session
             /\ \E e : e.event = "PacketReceived" /\ Arrives(id, e)
  <2> DEFINE e == [event |-> "PacketReceived", id |-> id, payload |-> p]
  <2>1. e \in Events /\ e.id = id /\ e.event = "PacketReceived"
    BY DEF Events
  <2> QED BY <1>2, <2>1 DEF OnRecv, Enqueue, Arrives
<1>3. CASE OnClientLeave(id)
  <2> DEFINE e == [event |-> "Leave", id |-> id]
  <2>1. e \in Events /\ e.id = id /\ e.event = "Leave"
    BY DEF Events
  <2> QED BY <1>3, <2>1 DEF OnClientLeave, Enqueue, Arrives
<1>4. CASE Count(id) \/ SetEvent(id)
  BY <1>4 DEF Count, SetEvent
<1> QED BY <1>1, <1>2, <1>3, <1>4 DEF Callback

LEMMA PutSomewhere ==
  ASSUME Types, NEW id \in Ids, NEW e, Arrives(id, e)
  PROVE  \E i \in 1 .. Len(queue) + 1 :
            /\ queue' \in Seq(Events) /\ Len(queue) \in Nat
            /\ Len(queue') = Len(queue) + 1
            /\ \A j \in 1 .. Len(queue) + 1 : queue'[j] =
                  IF j < i THEN queue[j] ELSE IF j = i THEN e ELSE queue[j - 1]
<1>1. queue \in Seq(Events) /\ e \in Events /\ Len(queue) \in Nat
  BY LenProperties DEF Types, Arrives
<1>2. PICK i \in 1 .. Len(queue) + 1 : queue' = InsertAt(queue, i, e)
  BY DEF Arrives
<1>3. InsertAt(queue, i, e) \in Seq(Events) /\ Len(InsertAt(queue, i, e)) = Len(queue) + 1
  BY <1>1, <1>2, Inserted
<1>4. \A j \in 1 .. Len(queue) + 1 : InsertAt(queue, i, e)[j] =
            IF j < i THEN queue[j] ELSE IF j = i THEN e ELSE queue[j - 1]
  BY <1>1, <1>2, Inserted
<1> QED BY <1>1, <1>2, <1>3, <1>4

\* Each event that waited still waits, once, and besides only the new one.
LEMMA StillWait ==
  ASSUME Types, NEW id \in Ids, NEW e, Arrives(id, e)
  PROVE  /\ queue' \in Seq(Events)
         /\ \A j \in 1 .. Len(queue') :
               queue'[j] = e \/ \E k \in 1 .. Len(queue) : queue'[j] = queue[k]
         /\ \A k \in 1 .. Len(queue) : \E j \in 1 .. Len(queue') : queue'[j] = queue[k]
         /\ \E j \in 1 .. Len(queue') : queue'[j] = e
<1>1. PICK i \in 1 .. Len(queue) + 1 :
            /\ queue' \in Seq(Events) /\ Len(queue) \in Nat
            /\ Len(queue') = Len(queue) + 1
            /\ \A j \in 1 .. Len(queue) + 1 : queue'[j] =
                  IF j < i THEN queue[j] ELSE IF j = i THEN e ELSE queue[j - 1]
  BY PutSomewhere
<1>2. ASSUME NEW j \in 1 .. Len(queue')
      PROVE  queue'[j] = e \/ \E k \in 1 .. Len(queue) : queue'[j] = queue[k]
  <2>1. CASE j < i
    <3>1. j \in 1 .. Len(queue) /\ queue'[j] = queue[j]
      BY <1>1, <2>1
    <3> QED BY <3>1
  <2>2. CASE j > i
    <3>1. j - 1 \in 1 .. Len(queue) /\ queue'[j] = queue[j - 1]
      BY <1>1, <2>2
    <3> QED BY <3>1
  <2>3. CASE j = i
    BY <1>1, <2>3
  <2> QED BY <1>1, <2>1, <2>2, <2>3
<1>3. ASSUME NEW k \in 1 .. Len(queue)
      PROVE  \E j \in 1 .. Len(queue') : queue'[j] = queue[k]
  <2>1. CASE k < i
    <3>1. k \in 1 .. Len(queue') /\ queue'[k] = queue[k]
      BY <1>1, <2>1
    <3> QED BY <3>1
  <2>2. CASE ~ (k < i)
    <3>1. k + 1 \in 1 .. Len(queue) + 1 /\ ~ (k + 1 < i) /\ k + 1 # i /\ (k + 1) - 1 = k
      BY <1>1, <2>2
    <3>2. k + 1 \in 1 .. Len(queue') /\ queue'[k + 1] = queue[k]
      BY <1>1, <3>1
    <3> QED BY <3>2
  <2> QED BY <2>1, <2>2
<1>4. i \in 1 .. Len(queue') /\ queue'[i] = e
  BY <1>1
<1> QED BY <1>1, <1>2, <1>3, <1>4

LEMMA DequeueSteps ==
  ASSUME IInv, TryDequeue
  PROVE  /\ update = "Dequeue" /\ UNCHANGED <<session, gameVars>>
         /\ UNCHANGED overtaken
         /\ \/ update' = "Wait" /\ UNCHANGED <<queue, event>>
            \/ /\ queue' \in Seq(Events) /\ Len(queue) \in Nat /\ Len(queue') = Len(queue) - 1
               /\ Len(queue) > 0
               /\ \A i \in 1 .. Len(queue') : queue'[i] = queue[i + 1]
               /\ event' = queue[1] /\ queue[1] \in Events /\ update' = "Handle"
<1>1. update = "Dequeue" /\ UNCHANGED <<session, overtaken, gameVars>>
  BY DEF TryDequeue, netVars
<1>2. CASE mSize <= 0
  BY <1>1, <1>2 DEF TryDequeue
<1>3. CASE ~ (mSize <= 0)
  <2>0. queue # <<>>
    BY <1>3 DEF TryDequeue
  <2>1. queue \in Seq(Events)
    BY DEF IInv, Types
  <2>2. /\ Head(queue) \in Events /\ Tail(queue) \in Seq(Events)
        /\ Len(Tail(queue)) = Len(queue) - 1
        /\ \A i \in 1 .. Len(Tail(queue)) : Tail(queue)[i] = queue[i + 1]
    BY <2>0, <2>1, HeadTailProperties
  <2>3. Len(queue) \in Nat \ {0}
    BY <2>0, <2>1, EmptySeq
  <2>4. Head(queue) = queue[1]
    <3>1. Head(SubSeq(queue, 1, Len(queue))) = queue[1]
      BY <2>1, <2>3, HeadTailOfSubSeq
    <3>2. SubSeq(queue, 1, Len(queue)) = queue
      BY <2>1, SubSeqFull
    <3> QED BY <3>1, <3>2
  <2>5. event' = Head(queue) /\ queue' = Tail(queue) /\ update' = "Handle"
    BY <1>3 DEF TryDequeue
  <2>6. Len(queue) > 0 /\ Len(queue) \in Nat
    BY <2>3
  <2> QED BY <1>1, <2>2, <2>4, <2>5, <2>6
<1> QED BY <1>2, <1>3

--------------------------------------------------------------------------------
(* Types and the update thread.                                            *)

LEMMA TypesKept ==
  ASSUME IInv, [Next]_vars
  PROVE  Types' /\ Hand'
<1>0. Types /\ Hand /\ NoPlayer \notin Objects
  BY ChatAssumption DEF IInv, Protocol
<1>a. \A e \in Events : e.event # "None" /\ e # NoEvent
  BY DEF Events, NoEvent
<1>b. Handled => update' = "Dequeue" /\ Idle' /\ event' = NoEvent /\ UNCHANGED <<queue, session>>
  BY DEF Handled, Idle, NoEvent
<1>1. ASSUME NEW id \in Ids, Callback(id)
      PROVE  Types' /\ Hand'
  <2>1. ASSUME NEW e, Arrives(id, e), session' \in [Ids -> {"New", "Open", "Left"}]
        PROVE  Types' /\ Hand'
    <3>1. queue' \in Seq(Events)
      BY <1>0, <2>1, StillWait
    <3> QED BY <1>0, <2>1, <3>1 DEF Types, Hand, Idle, Arrives, gameVars
  <2>2. CASE UNCHANGED <<session, queue, update, event, overtaken, gameVars>>
    BY <1>0, <2>2 DEF Types, Hand, Idle, gameVars
  <2>3. /\ [session EXCEPT ![id] = "Open"] \in [Ids -> {"New", "Open", "Left"}]
        /\ [session EXCEPT ![id] = "Left"] \in [Ids -> {"New", "Open", "Left"}]
        /\ session \in [Ids -> {"New", "Open", "Left"}]
    BY <1>0 DEF Types
  <2> QED BY <1>1, <2>1, <2>2, <2>3, CallbackSteps
<1>2. CASE TryDequeue
  <2>1. CASE UNCHANGED <<queue, event>> /\ update' = "Wait"
    BY <1>0, <1>2, <2>1, DequeueSteps DEF Types, Hand, Idle, gameVars
  <2>2. CASE /\ queue' \in Seq(Events) /\ event' = queue[1] /\ queue[1] \in Events
             /\ update' = "Handle"
    BY <1>0, <1>a, <1>2, <2>2, DequeueSteps DEF Types, Hand, Idle, gameVars
  <2> QED BY <1>2, <2>1, <2>2, DequeueSteps
<1>3. CASE Wake
  BY <1>0, <1>3 DEF Wake, Types, Hand, Idle, netVars, gameVars
<1>4. CASE Handled /\ Stayed
  BY <1>0, <1>b, <1>4 DEF Stayed, Types, Hand
<1>5. CASE Handled /\ Removed
  <2>1. Me \in Objects /\ player[Me].sector \in Places /\ event.id \in Ids
    BY <1>0, <1>5, MyObject, EventInHand DEF Handled, Removed
  <2>2. mPlayers' \in [Ids -> Objects \cup {NoPlayer}]
    BY <1>0, <1>5 DEF Removed, Types
  <2>3. mSectors' \in [Places -> [Ids -> Objects \cup {NoPlayer}]]
    BY <1>0, <1>5, <2>1 DEF Removed, Types
  <2> QED BY <1>0, <1>b, <1>5, <2>1, <2>2, <2>3 DEF Removed, Types, Hand
<1>6. CASE Join
  <2>1. PICK o \in free : /\ free' = free \ {o}
                          /\ player' = [player EXCEPT ![o].sector = Nowhere, ![o].id = event.id]
                          /\ mPlayers' = [mPlayers EXCEPT ![event.id] = o]
    BY <1>6, JoinSteps
  <2>2. Handled /\ UNCHANGED mSectors /\ event.id \in Ids /\ o \in Objects
    BY <1>0, <1>6, <2>1, JoinSteps, EventInHand DEF Handled, Types
  <2>3. player' \in [Objects -> Players]
    BY ZenonT(60), <1>0, <2>1, <2>2 DEF Types, Players, Places
  <2> QED BY <1>0, <1>b, <2>1, <2>2, <2>3 DEF Types, Hand
<1>7. CASE Move
  <2>1. PICK to \in Sectors :
              /\ mSectors' = [mSectors EXCEPT ![player[Me].sector][event.id] = NoPlayer,
                                              ![to][event.id] = Me]
              /\ player' = [player EXCEPT ![Me].sector = to]
    BY <1>7, MoveSteps
  <2>2. /\ Handled /\ UNCHANGED <<mPlayers, free>> /\ Me \in Objects /\ event.id \in Ids
        /\ player[Me].sector \in Places
    BY <1>0, <1>7, MoveSteps, EventInHand, MyObject DEF Handled
  <2>3. player' \in [Objects -> Players]
    <3> DEFINE me == [player[Me] EXCEPT !.sector = to]
    <3>1. player \in [Objects -> Players] /\ player[Me] \in Players /\ to \in Places
      BY <1>0, <2>2 DEF Types, Places
    <3>2. me \in Players
      BY <3>1 DEF Players
    <3>3. player' = [player EXCEPT ![Me] = me]
      BY <2>1
    <3> HIDE DEF me
    <3> QED BY <3>1, <3>2, <3>3
  <2>4. mSectors' \in [Places -> [Ids -> Objects \cup {NoPlayer}]]
    BY <1>0, <2>1, <2>2 DEF Types, Places
  <2> QED BY <1>0, <1>b, <2>1, <2>2, <2>3, <2>4 DEF Types, Hand
<1>8. CASE UNCHANGED vars
  BY <1>0, <1>8 DEF Types, Hand, Idle, vars, netVars, threadVars, gameVars
<1> QED BY <1>1, <1>2, <1>3, <1>4, <1>5, <1>6, <1>7, <1>8, LeaveSteps, KickSteps, LoginSteps,
           OtherSteps DEF Next, UpdateStep

--------------------------------------------------------------------------------
(* The order of a session's events.                                        *)

Handlers == Join \/ Leave \/ Ignore \/ Login \/ Kick \/ Move \/ Chat

\* Only the player of the event changes; only a Join makes one, and a Leave
\* ends one.
LEMMA HandlerSteps ==
  ASSUME IInv, Handlers
  PROVE  /\ Handled /\ Idle' /\ event.id \in Ids /\ About(event.id)
         /\ \A id \in Ids \ {event.id} : mPlayers'[id] = mPlayers[id]
         /\ event.event # "Join" => mPlayers'[event.id] \in {mPlayers[event.id], NoPlayer}
         /\ event.event = "Leave" => mPlayers'[event.id] = NoPlayer
<1>0. Types /\ Hand
  BY DEF IInv, Protocol
<1>1. ASSUME Handled
      PROVE  Idle' /\ event.id \in Ids /\ About(event.id)
  BY <1>0, <1>1, EventInHand DEF Handled, Hand, Idle, About, NoEvent
<1>2. ASSUME Handled, Stayed, event.event = "Leave" => Me = NoPlayer
      PROVE  /\ \A id \in Ids \ {event.id} : mPlayers'[id] = mPlayers[id]
             /\ mPlayers'[event.id] = mPlayers[event.id]
             /\ event.event = "Leave" => mPlayers'[event.id] = NoPlayer
  BY <1>2 DEF Stayed, Me
<1>3. ASSUME Handled, Removed
      PROVE  /\ \A id \in Ids \ {event.id} : mPlayers'[id] = mPlayers[id]
             /\ mPlayers'[event.id] = NoPlayer
  BY <1>0, <1>1, <1>3 DEF Removed, Types
<1>4. CASE Join
  BY <1>0, <1>1, <1>4, JoinSteps DEF Types
<1>5. CASE Leave
  BY <1>1, <1>2, <1>3, <1>5, LeaveSteps
<1>6. CASE Ignore \/ Chat
  BY <1>1, <1>2, <1>6, OtherSteps
<1>7. CASE Login
  BY <1>1, <1>2, <1>3, <1>7, LoginSteps
<1>8. CASE Kick
  BY <1>1, <1>2, <1>3, <1>8, KickSteps
<1>9. CASE Move
  BY <1>1, <1>9, MoveSteps
<1> QED BY <1>4, <1>5, <1>6, <1>7, <1>8, <1>9 DEF Handlers

\* Every step is a callback's, a look at the queue, a handler's or no step of
\* the server at all.
LEMMA Cases ==
  ASSUME [Next]_vars
  PROVE  \/ \E id \in Ids : Callback(id)
         \/ TryDequeue
         \/ Handlers
         \/ UNCHANGED <<session, queue, event, gameVars>>
<1>1. CASE Wake
  BY <1>1 DEF Wake, netVars
<1>2. CASE UNCHANGED vars
  BY <1>2 DEF vars, netVars, threadVars
<1> QED BY <1>1, <1>2 DEF Next, UpdateStep, Handlers

LEMMA NewCleanKept ==
  ASSUME IInv, [Next]_vars
  PROVE  NewClean'
<1>0. Types /\ Hand /\ NewClean
  BY DEF IInv, Protocol
<1> SUFFICES ASSUME NEW id \in Ids, session'[id] = "New"
             PROVE  /\ mPlayers'[id] = NoPlayer /\ ~ About(id)'
                    /\ \A i \in 1 .. Len(queue') : queue'[i].id # id
  BY DEF NewClean, About
<1>1. ASSUME NEW other \in Ids, NEW e, Arrives(other, e), other # id, session[id] = "New"
      PROVE  /\ mPlayers'[id] = NoPlayer /\ ~ About(id)'
             /\ \A i \in 1 .. Len(queue') : queue'[i].id # id
  <2>1. mPlayers'[id] = NoPlayer /\ ~ About(id)'
    BY <1>0, <1>1 DEF NewClean, Arrives, gameVars, About
  <2>2. ASSUME NEW i \in 1 .. Len(queue') PROVE queue'[i].id # id
    <3>1. queue'[i] = e \/ \E k \in 1 .. Len(queue) : queue'[i] = queue[k]
      BY <1>0, <1>1, StillWait
    <3> QED BY <1>0, <1>1, <3>1 DEF NewClean, Arrives
  <2> QED BY <2>1, <2>2
<1>2. ASSUME NEW other \in Ids, Callback(other)
      PROVE  \/ \E e : Arrives(other, e) /\ other # id /\ session[id] = "New"
             \/ UNCHANGED <<session, queue, event, gameVars>>
  BY <1>0, <1>2, CallbackSteps DEF Types
<1>3. CASE UNCHANGED <<session, queue, event, gameVars>>
  BY <1>0, <1>3 DEF NewClean, About, gameVars
<1>4. CASE TryDequeue
  <2>1. session[id] = "New" /\ mPlayers'[id] = NoPlayer
    BY <1>0, <1>4, DequeueSteps DEF NewClean, gameVars
  <2>2. CASE UNCHANGED <<queue, event>>
    BY <1>0, <2>1, <2>2 DEF NewClean, About
  <2>3. CASE /\ Len(queue) \in Nat /\ Len(queue') = Len(queue) - 1 /\ Len(queue) > 0
             /\ \A i \in 1 .. Len(queue') : queue'[i] = queue[i + 1]
             /\ event' = queue[1]
    BY <1>0, <2>1, <2>3 DEF NewClean, About
  <2> QED BY <1>4, <2>2, <2>3, DequeueSteps
<1>5. CASE Handlers
  <2>1. session[id] = "New" /\ UNCHANGED queue /\ Idle'
    BY <1>5, HandlerSteps DEF Handled
  <2>2. id # event.id
    BY <1>0, <1>5, <2>1, HandlerSteps DEF NewClean
  <2> QED BY <1>0, <1>5, <2>1, <2>2, HandlerSteps DEF NewClean, About, Idle
<1> QED BY <1>1, <1>2, <1>3, <1>4, <1>5, Cases

LEMMA JoinOnceKept ==
  ASSUME IInv, [Next]_vars
  PROVE  JoinOnce'
<1>0. Types /\ Hand /\ NewClean /\ JoinOnce
  BY DEF IInv, Protocol
<1> SUFFICES ASSUME NEW id \in Ids
             PROVE  /\ \A j \in 1 .. Len(queue') : Waits(j, "Join", id)' =>
                          /\ mPlayers'[id] = NoPlayer /\ ~ InHand("Join", id)'
                          /\ \A i \in 1 .. Len(queue') : Waits(i, "Join", id)' => i = j
                    /\ InHand("Join", id)' => mPlayers'[id] = NoPlayer
  BY DEF JoinOnce, Waits, InHand
<1>1. ASSUME NEW other \in Ids, NEW e, Arrives(other, e),
             e.event = "Join" => session[other] = "New"
      PROVE  /\ \A j \in 1 .. Len(queue') : Waits(j, "Join", id)' =>
                   /\ mPlayers'[id] = NoPlayer /\ ~ InHand("Join", id)'
                   /\ \A i \in 1 .. Len(queue') : Waits(i, "Join", id)' => i = j
             /\ InHand("Join", id)' => mPlayers'[id] = NoPlayer
  <2>0. UNCHANGED <<event, mPlayers>> /\ e.id = other
    BY <1>1 DEF Arrives, gameVars
  <2>1. InHand("Join", id)' => mPlayers'[id] = NoPlayer
    BY <1>0, <2>0 DEF JoinOnce, InHand
  <2>2. PICK n \in 1 .. Len(queue) + 1 :
              /\ queue' \in Seq(Events) /\ Len(queue) \in Nat
              /\ Len(queue') = Len(queue) + 1
              /\ \A j \in 1 .. Len(queue) + 1 : queue'[j] =
                    IF j < n THEN queue[j] ELSE IF j = n THEN e ELSE queue[j - 1]
    BY <1>0, <1>1, PutSomewhere
  <2>3. CASE e.event = "Join" /\ other = id
    <3>1. /\ mPlayers[id] = NoPlayer /\ ~ InHand("Join", id)
          /\ \A k \in 1 .. Len(queue) : queue[k].id # id
      BY <1>0, <1>1, <2>3 DEF NewClean, About, InHand
    <3>2. ASSUME NEW i \in 1 .. Len(queue'), Waits(i, "Join", id)' PROVE i = n
      <4>1. CASE i < n
        <5>1. i \in 1 .. Len(queue) /\ queue'[i] = queue[i]
          BY <2>2, <4>1
        <5> QED BY <3>1, <3>2, <5>1 DEF Waits
      <4>2. CASE i > n
        <5>1. i - 1 \in 1 .. Len(queue) /\ queue'[i] = queue[i - 1]
          BY <2>2, <4>2
        <5> QED BY <3>1, <3>2, <5>1 DEF Waits
      <4> QED BY <2>2, <4>1, <4>2
    <3> QED BY <2>0, <2>1, <3>1, <3>2 DEF InHand
  <2>4. CASE ~ (e.event = "Join" /\ other = id)
    \* where an event that waits now waited before
    <3> DEFINE old(i) == IF i < n THEN i ELSE i - 1
    <3>1. ASSUME NEW i \in 1 .. Len(queue'), Waits(i, "Join", id)'
          PROVE  i # n /\ old(i) \in 1 .. Len(queue) /\ Waits(old(i), "Join", id)
      <4>1. i # n
        BY <2>0, <2>2, <2>4, <3>1 DEF Waits
      <4>2. old(i) \in 1 .. Len(queue) /\ queue'[i] = queue[old(i)]
        BY <2>2, <4>1
      <4> QED BY <3>1, <4>1, <4>2 DEF Waits
    <3>2. ASSUME NEW j \in 1 .. Len(queue'), Waits(j, "Join", id)'
          PROVE  /\ mPlayers'[id] = NoPlayer /\ ~ InHand("Join", id)'
                 /\ \A i \in 1 .. Len(queue') : Waits(i, "Join", id)' => i = j
      <4>1. j # n /\ old(j) \in 1 .. Len(queue) /\ Waits(old(j), "Join", id)
        BY <3>1, <3>2
      <4>2. mPlayers[id] = NoPlayer /\ ~ InHand("Join", id)
        BY <1>0, <4>1 DEF JoinOnce
      <4>3. ASSUME NEW i \in 1 .. Len(queue'), Waits(i, "Join", id)' PROVE i = j
        <5>1. i # n /\ old(i) \in 1 .. Len(queue) /\ Waits(old(i), "Join", id)
          BY <3>1, <4>3
        <5>2. old(i) = old(j)
          BY <1>0, <4>1, <5>1 DEF JoinOnce
        <5> QED BY <2>2, <4>1, <5>1, <5>2
      <4> QED BY <2>0, <4>2, <4>3 DEF InHand
    <3> QED BY <2>1, <3>2
  <2> QED BY <2>3, <2>4
<1>2. ASSUME NEW other \in Ids, Callback(other)
      PROVE  \/ \E e : Arrives(other, e) /\ (e.event = "Join" => session[other] = "New")
             \/ UNCHANGED <<session, queue, event, gameVars>>
  BY <1>2, CallbackSteps
<1>3. CASE UNCHANGED <<session, queue, event, gameVars>>
  BY <1>0, <1>3 DEF JoinOnce, InHand, Waits, gameVars
<1>4. CASE TryDequeue
  <2>1. mPlayers' = mPlayers
    BY <1>4, DequeueSteps DEF gameVars
  <2>2. CASE UNCHANGED <<queue, event>>
    BY <1>0, <2>1, <2>2 DEF JoinOnce, InHand, Waits
  <2>3. CASE /\ Len(queue) \in Nat /\ Len(queue') = Len(queue) - 1 /\ Len(queue) > 0
             /\ \A i \in 1 .. Len(queue') : queue'[i] = queue[i + 1]
             /\ event' = queue[1]
    <3>1. 1 \in 1 .. Len(queue) /\ (InHand("Join", id)' => Waits(1, "Join", id))
      BY <2>3 DEF InHand, Waits
    <3>2. InHand("Join", id)' => mPlayers'[id] = NoPlayer
      BY <1>0, <2>1, <3>1 DEF JoinOnce
    <3>3. ASSUME NEW i \in 1 .. Len(queue'), Waits(i, "Join", id)'
          PROVE  i + 1 \in 1 .. Len(queue) /\ Waits(i + 1, "Join", id)
      BY <2>3, <3>3 DEF Waits
    <3>4. ASSUME NEW j \in 1 .. Len(queue'), Waits(j, "Join", id)'
          PROVE  /\ mPlayers'[id] = NoPlayer /\ ~ InHand("Join", id)'
                 /\ \A i \in 1 .. Len(queue') : Waits(i, "Join", id)' => i = j
      <4>1. j + 1 \in 1 .. Len(queue) /\ Waits(j + 1, "Join", id)
        BY <3>3, <3>4
      <4>2. /\ mPlayers[id] = NoPlayer
            /\ \A i \in 1 .. Len(queue) : Waits(i, "Join", id) => i = j + 1
        BY <1>0, <4>1 DEF JoinOnce
      <4>3. ~ InHand("Join", id)'
        BY <2>3, <3>1, <4>2
      <4>4. ASSUME NEW i \in 1 .. Len(queue'), Waits(i, "Join", id)' PROVE i = j
        <5>1. i + 1 \in 1 .. Len(queue) /\ Waits(i + 1, "Join", id)
          BY <3>3, <4>4
        <5> QED BY <4>2, <5>1
      <4> QED BY <2>1, <4>2, <4>3, <4>4
    <3> QED BY <3>2, <3>4
  <2> QED BY <1>4, <2>2, <2>3, DequeueSteps
<1>5. CASE Handlers
  <2>1. UNCHANGED queue /\ Idle'
    BY <1>5, HandlerSteps DEF Handled
  <2>2. ~ InHand("Join", id)'
    BY <2>1 DEF Idle, InHand
  <2>3. ASSUME NEW j \in 1 .. Len(queue'), Waits(j, "Join", id)'
        PROVE  /\ mPlayers'[id] = NoPlayer
               /\ \A i \in 1 .. Len(queue') : Waits(i, "Join", id)' => i = j
    <3>1. Waits(j, "Join", id) /\ j \in 1 .. Len(queue)
      BY <2>1, <2>3 DEF Waits
    <3>2. /\ mPlayers[id] = NoPlayer /\ ~ InHand("Join", id)
          /\ \A i \in 1 .. Len(queue) : Waits(i, "Join", id) => i = j
      BY <1>0, <3>1 DEF JoinOnce
    <3>3. mPlayers'[id] = NoPlayer
      BY <1>5, <3>2, HandlerSteps DEF InHand
    <3> QED BY <2>1, <3>2, <3>3 DEF Waits
  <2> QED BY <2>2, <2>3
<1> QED BY <1>1, <1>2, <1>3, <1>4, <1>5, Cases

\* A session stays overtaken; it becomes so when its Leave is handled while its
\* Join still waits.
LEMMA OvertakenGrows ==
  ASSUME IInv, [Next]_vars
  PROVE  /\ overtaken \subseteq overtaken'
         /\ Leave /\ (\E i \in 1 .. Len(queue) : Waits(i, "Join", event.id)) =>
               event.id \in overtaken'
<1>1. CASE \E id \in Ids : Callback(id)
  <2>1. PICK id \in Ids : Callback(id)
    BY <1>1
  <2>2. UNCHANGED <<update, overtaken>>
    BY <2>1, CallbackSteps DEF Arrives
  <2>3. ~ Leave
    BY <2>2 DEF Leave, LeaveDone, Handle
  <2> QED BY <2>2, <2>3
<1>2. CASE Leave
  <2>1. DOMAIN queue = 1 .. Len(queue)
    BY LenProperties DEF IInv, Types
  <2>2. LeaveDone
    BY <1>2 DEF Leave
  <2> QED BY <2>1, <2>2 DEF LeaveDone, Waiting, Waits
<1>3. CASE Join \/ Ignore \/ Login \/ Kick \/ Move \/ Chat
  <2>1. Done /\ ~ Handle("Leave")
    BY <1>3 DEF Join, Ignore, Login, Kick, Move, Chat, Packet, Handle
  <2> QED BY <2>1 DEF Done, Leave
<1>4. CASE TryDequeue \/ Wake
  BY <1>4 DEF TryDequeue, Wake, Leave, Handle
<1>5. CASE UNCHANGED vars
  <2>1. ~ Leave
    BY <1>5 DEF vars, threadVars, Leave, LeaveDone, Handle
  <2> QED BY <1>5, <2>1 DEF vars, threadVars
<1> QED BY <1>1, <1>2, <1>3, <1>4, <1>5 DEF Next, UpdateStep

LEMMA LeaveComesKept ==
  ASSUME IInv, [Next]_vars
  PROVE  LeaveComes'
<1>0. Types /\ Hand /\ NewClean /\ JoinOnce /\ LeaveComes
  BY DEF IInv, Protocol
<1> SUFFICES ASSUME NEW id \in Ids, session'[id] = "Left", id \notin overtaken',
                    mPlayers'[id] # NoPlayer \/ JoinPending(id)'
             PROVE  LeavePending(id)'
  BY DEF LeaveComes, JoinPending, LeavePending, InHand, Waits
<1>a. id \notin overtaken
  BY OvertakenGrows
<1>1. ASSUME NEW other \in Ids, NEW e, Arrives(other, e),
             \/ session' = session /\ (e.event = "Join" => other # id)
             \/ e.event = "Leave" /\ other = id
             \/ session'[id] = session[id] /\ other # id
      PROVE  LeavePending(id)'
  <2>0. UNCHANGED <<event, mPlayers>> /\ e.id = other
    BY <1>1 DEF Arrives, gameVars
  <2>1. /\ \A j \in 1 .. Len(queue') :
              queue'[j] = e \/ \E k \in 1 .. Len(queue) : queue'[j] = queue[k]
        /\ \A k \in 1 .. Len(queue) : \E j \in 1 .. Len(queue') : queue'[j] = queue[k]
        /\ \E j \in 1 .. Len(queue') : queue'[j] = e
    BY <1>0, <1>1, StillWait
  <2>2. CASE e.event = "Leave" /\ other = id
    BY <2>0, <2>1, <2>2 DEF LeavePending, Waits
  <2>3. CASE session'[id] = session[id] /\ (e.event = "Join" => other # id)
    <3>1. JoinPending(id)' => JoinPending(id)
      BY <2>0, <2>1, <2>3 DEF JoinPending, InHand, Waits
    <3>2. LeavePending(id)
      BY <1>0, <1>a, <2>0, <2>3, <3>1 DEF LeaveComes
    <3> QED BY <2>0, <2>1, <3>2 DEF LeavePending, InHand, Waits
  <2> QED BY <1>1, <2>2, <2>3
<1>2. ASSUME NEW other \in Ids, Callback(other)
      PROVE  \/ \E e : /\ Arrives(other, e)
                       /\ \/ session' = session /\ (e.event = "Join" => other # id)
                          \/ e.event = "Leave" /\ other = id
                          \/ session'[id] = session[id] /\ other # id
             \/ UNCHANGED <<session, queue, event, gameVars>>
  BY <1>0, <1>2, CallbackSteps DEF Types
<1>3. CASE UNCHANGED <<session, queue, event, gameVars>>
  BY <1>0, <1>a, <1>3 DEF LeaveComes, JoinPending, LeavePending, InHand, Waits, gameVars
<1>4. CASE TryDequeue
  <2>1. mPlayers' = mPlayers /\ session' = session /\ Idle
    BY <1>0, <1>4, DequeueSteps DEF gameVars, Hand
  <2>2. CASE UNCHANGED <<queue, event>>
    BY <1>0, <1>a, <2>1, <2>2 DEF LeaveComes, JoinPending, LeavePending, InHand, Waits
  <2>3. CASE /\ Len(queue) \in Nat /\ Len(queue') = Len(queue) - 1 /\ Len(queue) > 0
             /\ \A i \in 1 .. Len(queue') : queue'[i] = queue[i + 1]
             /\ event' = queue[1]
    <3>1. JoinPending(id)' => JoinPending(id)
      <4>1. InHand("Join", id)' => Waits(1, "Join", id) /\ 1 \in 1 .. Len(queue)
        BY <2>3 DEF InHand, Waits
      <4>2. \A i \in 1 .. Len(queue') :
              Waits(i, "Join", id)' => Waits(i + 1, "Join", id) /\ i + 1 \in 1 .. Len(queue)
        BY <2>3 DEF Waits
      <4> QED BY <4>1, <4>2 DEF JoinPending, InHand, Waits
    <3>2. LeavePending(id)
      BY <1>0, <1>a, <2>1, <3>1 DEF LeaveComes
    <3>3. PICK i \in 1 .. Len(queue) : Waits(i, "Leave", id)
      BY <2>1, <3>2 DEF LeavePending, InHand, Idle
    <3>4. CASE i = 1
      BY <2>3, <3>3, <3>4 DEF LeavePending, InHand, Waits
    <3>5. CASE i # 1
      <4>1. i - 1 \in 1 .. Len(queue') /\ queue'[i - 1] = queue[i]
        BY <2>3, <3>5
      <4> QED BY <3>3, <4>1 DEF LeavePending, Waits
    <3> QED BY <3>4, <3>5
  <2> QED BY <1>4, <2>2, <2>3, DequeueSteps
<1>5. CASE Handlers
  <2>1. UNCHANGED <<queue, session>> /\ Idle'
    BY <1>5, HandlerSteps DEF Handled
  <2>2. JoinPending(id)' => \E i \in 1 .. Len(queue) : Waits(i, "Join", id)
    BY <2>1 DEF JoinPending, Idle, InHand, Waits
  <2>3. mPlayers'[id] # NoPlayer => mPlayers[id] # NoPlayer \/ InHand("Join", id)
    BY <1>5, HandlerSteps DEF InHand
  <2>4. LeavePending(id)
    BY <1>0, <1>a, <2>1, <2>2, <2>3 DEF LeaveComes, JoinPending
  <2>5. ~ InHand("Leave", id)
    <3> SUFFICES ASSUME InHand("Leave", id) PROVE FALSE
      OBVIOUS
    <3>1. mPlayers'[id] = NoPlayer /\ event.event = "Leave" /\ event.id = id
      BY <1>5, HandlerSteps DEF InHand
    <3>2. \E i \in 1 .. Len(queue) : Waits(i, "Join", id)
      BY <2>2, <3>1
    <3>3. Leave
      BY <1>5, <3>1, JoinSteps, KickSteps, LoginSteps, OtherSteps, MoveSteps DEF Handlers
    <3> QED BY <3>1, <3>2, <3>3, OvertakenGrows
  <2> QED BY <2>1, <2>4, <2>5 DEF LeavePending, Waits
<1> QED BY <1>1, <1>2, <1>3, <1>4, <1>5, Cases

--------------------------------------------------------------------------------
(* Objects and sectors.                                                    *)

LEMMA ObjectsOwnedKept ==
  ASSUME IInv, [Next]_vars
  PROVE  ObjectsOwned'
<1>0. /\ Types /\ Hand /\ ObjectsOwned /\ NoPlayer \notin Objects
      /\ \A o \in Objects : player[o] \in Players
  BY ChatAssumption DEF IInv, Protocol, Types
<1>1. ASSUME UNCHANGED <<mPlayers, free>>, \A o \in Objects : player'[o].id = player[o].id
      PROVE  ObjectsOwned'
  <2>1. \A id \in Ids : mPlayers[id] # NoPlayer => mPlayers[id] \in Objects
    BY <1>0 DEF Types
  <2> QED BY <1>0, <1>1, <2>1 DEF ObjectsOwned
<1>2. CASE UNCHANGED <<session, queue, event, gameVars>>
  BY <1>1, <1>2 DEF gameVars
<1>3. CASE \E id \in Ids : Callback(id)
  <2>1. UNCHANGED gameVars
    BY <1>3, CallbackSteps DEF Arrives
  <2> QED BY <1>1, <2>1 DEF gameVars
<1>4. CASE TryDequeue
  BY <1>1, <1>4, DequeueSteps DEF gameVars
<1>5. CASE Handled /\ Stayed
  BY <1>1, <1>5 DEF Stayed
<1>6. CASE Handled /\ Removed
  <2>1. /\ Me \in Objects /\ player[Me].id = event.id /\ event.id \in Ids
        /\ Me = mPlayers[event.id]
    BY <1>0, <1>6, MyObject, EventInHand DEF Handled, Removed, Me
  <2>2. \A id \in Ids :
          mPlayers'[id] = IF id = event.id THEN NoPlayer ELSE mPlayers[id]
    BY <1>0, <1>6 DEF Removed, Types
  <2>3. \A id \in Ids \ {event.id} : mPlayers[id] # Me
    BY <1>0, <2>1 DEF ObjectsOwned
  <2>4. ASSUME NEW o \in Objects
        PROVE  (o \in free') <=> (\A id \in Ids : mPlayers'[id] # o)
    <3>1. free' = free \cup {Me}
      BY <1>6 DEF Removed
    <3>2. CASE o = Me
      BY <1>0, <2>1, <2>2, <2>3, <3>1, <3>2
    <3>3. CASE o # Me
      <4>1. mPlayers[event.id] # o
        BY <2>1, <3>3
      <4>2. \A id \in Ids : mPlayers'[id] # o <=> mPlayers[id] # o
        BY <1>0, <2>2, <4>1
      <4> QED BY <1>0, <3>1, <3>3, <4>2 DEF ObjectsOwned
    <3> QED BY <3>2, <3>3
  <2>5. \A id \in Ids : mPlayers'[id] # NoPlayer => player'[mPlayers'[id]].id = id
    <3>1. \A id \in Ids \ {event.id} : mPlayers[id] # NoPlayer => mPlayers[id] \in Objects
      BY <1>0 DEF Types
    <3> QED BY <1>0, <1>6, <2>2, <3>1 DEF ObjectsOwned, Removed
  <2> QED BY <2>4, <2>5 DEF ObjectsOwned
<1>7. CASE Join
  <2>1. PICK o \in free : /\ free' = free \ {o}
                          /\ player' = [player EXCEPT ![o].sector = Nowhere, ![o].id = event.id]
                          /\ mPlayers' = [mPlayers EXCEPT ![event.id] = o]
    BY <1>7, JoinSteps
  <2>2. event.id \in Ids /\ o \in Objects /\ mPlayers[event.id] = NoPlayer
    BY <1>0, <1>7, JoinSteps, EventInHand DEF Handled, Types, IInv, Protocol, JoinOnce, InHand
  <2>3. \A id \in Ids : mPlayers'[id] = IF id = event.id THEN o ELSE mPlayers[id]
    BY <1>0, <2>1, <2>2 DEF Types
  <2>4. \A id \in Ids : mPlayers[id] # o
    BY <1>0, <2>2 DEF ObjectsOwned
  <2>5. \A p \in Objects : player'[p].id = IF p = o THEN event.id ELSE player[p].id
    BY <1>0, <2>1, <2>2 DEF Types, Players
  <2>6. ASSUME NEW p \in Objects
        PROVE  (p \in free') <=> (\A id \in Ids : mPlayers'[id] # p)
    <3>1. CASE p = o
      BY <2>1, <2>2, <2>3, <3>1
    <3>2. CASE p # o
      <4>1. \A id \in Ids : mPlayers'[id] # p <=> mPlayers[id] # p
        BY <1>0, <2>2, <2>3, <3>2
      <4> QED BY <1>0, <2>1, <3>2, <4>1 DEF ObjectsOwned
    <3> QED BY <3>1, <3>2
  <2>7. \A id \in Ids : mPlayers'[id] # NoPlayer => player'[mPlayers'[id]].id = id
    <3>1. \A id \in Ids \ {event.id} : mPlayers[id] # NoPlayer => mPlayers[id] \in Objects
      BY <1>0 DEF Types
    <3> QED BY <1>0, <2>2, <2>3, <2>4, <2>5, <3>1 DEF ObjectsOwned
  <2> QED BY <2>6, <2>7 DEF ObjectsOwned
<1>8. CASE Move
  <2>1. UNCHANGED <<mPlayers, free>>
    BY <1>8, MoveSteps
  <2>2. Me \in Objects
    BY <1>8, MoveSteps, MyObject DEF Handled
  <2>3. PICK to \in Sectors : player' = [player EXCEPT ![Me].sector = to]
    BY <1>8, MoveSteps
  <2>4. \A o \in Objects : player'[o].id = player[o].id
    BY <1>0, <2>2, <2>3 DEF Types, Players
  <2> QED BY <1>1, <2>1, <2>4
<1> QED BY <1>2, <1>3, <1>4, <1>5, <1>6, <1>7, <1>8, Cases, LeaveSteps, KickSteps, LoginSteps,
           OtherSteps DEF Handlers

\* where the sectors must have a session's player
At(s, id) ==
    IF mPlayers[id] # NoPlayer /\ player[mPlayers[id]].sector = s THEN mPlayers[id] ELSE NoPlayer

LEMMA SectorsAgreeKept ==
  ASSUME IInv, [Next]_vars
  PROVE  SectorsAgree'
<1>0. /\ Types /\ Hand /\ ObjectsOwned /\ NoPlayer \notin Objects /\ Nowhere \notin Sectors
      /\ \A o \in Objects : player[o] \in Players
  BY ChatAssumption DEF IInv, Protocol, Types
<1>a. \A s \in Sectors, id \in Ids : mSectors[s][id] = At(s, id)
  BY DEF IInv, SectorsAgree, At
<1>b. \A id \in Ids : mPlayers[id] # NoPlayer =>
        mPlayers[id] \in Objects /\ player[mPlayers[id]].id = id
  BY <1>0 DEF Types, ObjectsOwned
<1> SUFFICES ASSUME NEW s \in Sectors, NEW id \in Ids
             PROVE  mSectors'[s][id] = At(s, id)'
  BY DEF SectorsAgree, At
<1>1. ASSUME UNCHANGED <<mPlayers, mSectors>>,
             \A o \in Objects : player'[o].sector = player[o].sector
      PROVE  mSectors'[s][id] = At(s, id)'
  BY <1>0, <1>1, <1>a, <1>b DEF At
<1>2. CASE UNCHANGED <<session, queue, event, gameVars>>
  BY <1>1, <1>2 DEF gameVars
<1>3. CASE \E other \in Ids : Callback(other)
  <2>1. UNCHANGED gameVars
    BY <1>3, CallbackSteps DEF Arrives
  <2> QED BY <1>1, <2>1 DEF gameVars
<1>4. CASE TryDequeue
  BY <1>1, <1>4, DequeueSteps DEF gameVars
<1>5. CASE Handled /\ Stayed
  BY <1>1, <1>5 DEF Stayed
<1>6. CASE Handled /\ Removed
  <2>1. /\ Me \in Objects /\ player[Me].id = event.id /\ event.id \in Ids
        /\ Me = mPlayers[event.id] /\ player[Me].sector \in Places
    BY <1>0, <1>6, MyObject, EventInHand DEF Handled, Removed, Me
  <2>2. mPlayers'[id] = IF id = event.id THEN NoPlayer ELSE mPlayers[id]
    BY <1>0, <1>6 DEF Removed, Types
  <2>3. mSectors'[s][id] =
          IF s = player[Me].sector /\ id = event.id THEN NoPlayer ELSE mSectors[s][id]
    BY <1>0, <1>6, <2>1 DEF Removed, Types, Places
  <2>4. CASE id = event.id
    BY <1>a, <2>1, <2>2, <2>3, <2>4 DEF At
  <2>5. CASE id # event.id
    BY <1>6, <1>a, <1>b, <2>2, <2>3, <2>5 DEF At, Removed
  <2> QED BY <2>4, <2>5
<1>7. CASE Join
  <2>1. PICK o \in free : /\ free' = free \ {o}
                          /\ player' = [player EXCEPT ![o].sector = Nowhere, ![o].id = event.id]
                          /\ mPlayers' = [mPlayers EXCEPT ![event.id] = o]
    BY <1>7, JoinSteps
  <2>2. /\ event.id \in Ids /\ o \in Objects /\ mPlayers[event.id] = NoPlayer
        /\ mSectors' = mSectors
    BY <1>0, <1>7, JoinSteps, EventInHand DEF Handled, Types, IInv, Protocol, JoinOnce, InHand
  <2>3. mPlayers'[id] = IF id = event.id THEN o ELSE mPlayers[id]
    BY <1>0, <2>1, <2>2 DEF Types
  <2>4. mPlayers[id] # o
    BY <1>0, <2>2 DEF ObjectsOwned
  <2>5. \A p \in Objects : player'[p].sector = IF p = o THEN Nowhere ELSE player[p].sector
    BY <1>0, <2>1, <2>2 DEF Types, Players
  <2>6. CASE id = event.id
    BY <1>0, <1>a, <2>2, <2>3, <2>5, <2>6 DEF At
  <2>7. CASE id # event.id
    BY <1>0, <1>a, <1>b, <2>2, <2>3, <2>4, <2>5, <2>7 DEF At
  <2> QED BY <2>6, <2>7
<1>8. CASE Move
  <2>1. PICK to \in Sectors :
              /\ mSectors' = [mSectors EXCEPT ![player[Me].sector][event.id] = NoPlayer,
                                              ![to][event.id] = Me]
              /\ player' = [player EXCEPT ![Me].sector = to]
    BY <1>8, MoveSteps
  <2>2. /\ Me \in Objects /\ event.id \in Ids /\ mPlayers' = mPlayers /\ Me # NoPlayer
        /\ player[Me].sector \in Places /\ Me = mPlayers[event.id] /\ player[Me].id = event.id
    BY <1>0, <1>8, MoveSteps, MyObject, EventInHand DEF Handled, Me
  <2>3. mSectors'[s][id] =
          IF s = to /\ id = event.id THEN Me
          ELSE IF s = player[Me].sector /\ id = event.id THEN NoPlayer ELSE mSectors[s][id]
    BY <1>0, <2>1, <2>2 DEF Types, Places
  <2>4. \A p \in Objects : player'[p].sector = IF p = Me THEN to ELSE player[p].sector
    BY <1>0, <2>1, <2>2 DEF Types, Players
  <2>5. CASE id = event.id
    BY <1>a, <2>2, <2>3, <2>4, <2>5 DEF At
  <2>6. CASE id # event.id
    <3>1. mPlayers[id] # Me
      BY <1>0, <1>b, <2>2, <2>6
    <3> QED BY <1>a, <1>b, <2>2, <2>3, <2>4, <2>6, <3>1 DEF At
  <2> QED BY <2>5, <2>6
<1> QED BY <1>2, <1>3, <1>4, <1>5, <1>6, <1>7, <1>8, Cases, LeaveSteps, KickSteps, LoginSteps,
           OtherSteps DEF Handlers

--------------------------------------------------------------------------------
(* The inductive invariant holds.                                          *)

LEMMA InitIInv == Init => IInv
<1> SUFFICES ASSUME Init PROVE IInv
  OBVIOUS
<1>1. Types
  <2>1. queue \in Seq(Events)
    BY DEF Init
  <2> QED BY <2>1 DEF Init, Types, Nobody, Players, Places
<1>2. Len(queue) = 0 /\ Idle
  BY EmptySeq DEF Init, Idle, NoEvent
<1>3. Protocol
  BY <1>2 DEF Init, Nobody, Protocol, Hand, NewClean, JoinOnce, LeaveComes, About, InHand, Idle
<1>4. ObjectsOwned /\ SectorsAgree
  BY ChatAssumption DEF Init, Nobody, ObjectsOwned, SectorsAgree, Places
<1> QED BY <1>1, <1>3, <1>4 DEF IInv

LEMMA StepIInv == IInv /\ [Next]_vars => IInv'
  BY TypesKept, NewCleanKept, JoinOnceKept, LeaveComesKept, ObjectsOwnedKept, SectorsAgreeKept
  DEF IInv, Protocol

LEMMA Inductive == Spec => []IInv
  BY InitIInv, StepIInv, PTL DEF Spec

--------------------------------------------------------------------------------
(* Wake-ups.                                                               *)

Counting == {id \in Ids : callback[id] = "Count"}

\* mSize is the number of links but for those that are not counted yet; and when
\* the update thread sleeps although something is counted, the signal is given or
\* about to be.
WakeInv ==
    /\ callback \in [Ids -> {"None", "Count", "SetEvent"}]
    /\ mSize \in Int /\ IsFiniteSet(Counting)
    /\ Len(queue) = mSize + Cardinality(Counting)
    /\ update = "Wait" /\ ~ signalled /\ mSize > 0 => \E id \in Ids : callback[id] = "SetEvent"

LEMMA CallbackWakes ==
  ASSUME IInv, WakeInv, NEW id \in Ids, Callback(id)
  PROVE  WakeInv'
<1>0. /\ callback \in [Ids -> {"None", "Count", "SetEvent"}]
      /\ mSize \in Int /\ IsFiniteSet(Counting) /\ Cardinality(Counting) \in Nat
      /\ Len(queue) = mSize + Cardinality(Counting)
      /\ update' = update
  BY FS_CardinalityType DEF WakeInv, Callback, OnClientJoin, OnRecv, OnClientLeave, Count, SetEvent
<1>1. ASSUME callback[id] = "None", callback' = [callback EXCEPT ![id] = "Count"],
             Len(queue') = Len(queue) + 1, UNCHANGED <<mSize, signalled>>
      PROVE  WakeInv'
  <2>1. Counting' = Counting \cup {id} /\ id \notin Counting
    BY <1>0, <1>1 DEF Counting
  <2>2. IsFiniteSet(Counting') /\ Cardinality(Counting') = Cardinality(Counting) + 1
    BY <1>0, <2>1, FS_AddElement
  <2>3. \A x \in Ids : callback[x] = "SetEvent" => callback'[x] = "SetEvent"
    BY <1>0, <1>1
  <2>4. callback' \in [Ids -> {"None", "Count", "SetEvent"}]
    BY <1>0, <1>1
  <2>5. Len(queue') = mSize' + Cardinality(Counting')
    BY <1>0, <1>1, <2>2
  <2> QED BY <1>0, <1>1, <2>2, <2>3, <2>4, <2>5 DEF WakeInv
<1>2. ASSUME NEW e, Enqueue(id, e), Arrives(id, e), UNCHANGED <<mSize, signalled>>
      PROVE  WakeInv'
  <2>1. Len(queue') = Len(queue) + 1
    BY <1>2, PutSomewhere DEF IInv
  <2> QED BY <1>1, <1>2, <2>1 DEF Enqueue
<1>3. CASE OnClientJoin(id)
  <2> DEFINE e == [event |-> "Join", id |-> id]
  <2>1. e \in Events /\ e.id = id
    BY DEF Events
  <2>2. Enqueue(id, e) /\ UNCHANGED <<mSize, signalled>>
    BY <1>3 DEF OnClientJoin
  <2>3. Arrives(id, e)
    BY <1>3, <2>1 DEF OnClientJoin, Enqueue, Arrives
  <2> QED BY <1>2, <2>2, <2>3
<1>4. ASSUME NEW p \in Packets, OnRecv(id, p) PROVE WakeInv'
  <2> DEFINE e == [event |-> "PacketReceived", id |-> id, payload |-> p]
  <2>1. e \in Events /\ e.id = id
    BY DEF Events
  <2>2. Enqueue(id, e) /\ UNCHANGED <<mSize, signalled>>
    BY <1>4 DEF OnRecv
  <2>3. Arrives(id, e)
    BY <1>4, <2>1 DEF OnRecv, Enqueue, Arrives
  <2> QED BY <1>2, <2>2, <2>3
<1>5. CASE OnClientLeave(id)
  <2> DEFINE e == [event |-> "Leave", id |-> id]
  <2>1. e \in Events /\ e.id = id
    BY DEF Events
  <2>2. Enqueue(id, e) /\ UNCHANGED <<mSize, signalled>>
    BY <1>5 DEF OnClientLeave
  <2>3. Arrives(id, e)
    BY <1>5, <2>1 DEF OnClientLeave, Enqueue, Arrives
  <2> QED BY <1>2, <2>2, <2>3
<1>6. CASE Count(id)
  <2>1. /\ callback[id] = "Count" /\ mSize' = mSize + 1 /\ queue' = queue
        /\ callback' = [callback EXCEPT ![id] = "SetEvent"]
    BY <1>6 DEF Count
  <2>2. Counting' = Counting \ {id} /\ id \in Counting
    BY <1>0, <2>1 DEF Counting
  <2>3. IsFiniteSet(Counting') /\ Cardinality(Counting') = Cardinality(Counting) - 1
    BY <1>0, <2>2, FS_RemoveElement
  <2>4. callback' \in [Ids -> {"None", "Count", "SetEvent"}] /\ callback'[id] = "SetEvent"
    BY <1>0, <2>1
  <2>5. Len(queue') = mSize' + Cardinality(Counting') /\ mSize' \in Int
    BY <1>0, <2>1, <2>3
  <2> QED BY <2>3, <2>4, <2>5 DEF WakeInv
<1>7. CASE SetEvent(id)
  <2>1. /\ callback[id] = "SetEvent" /\ signalled' = TRUE /\ UNCHANGED <<queue, mSize>>
        /\ callback' = [callback EXCEPT ![id] = "None"]
    BY <1>7 DEF SetEvent
  <2>2. Counting' = Counting
    BY <1>0, <2>1 DEF Counting
  <2>3. callback' \in [Ids -> {"None", "Count", "SetEvent"}]
    BY <1>0, <2>1
  <2> QED BY <1>0, <2>1, <2>2, <2>3 DEF WakeInv
<1> QED BY <1>3, <1>4, <1>5, <1>6, <1>7 DEF Callback

LEMMA UpdateWakes ==
  ASSUME IInv, WakeInv, UpdateStep
  PROVE  WakeInv'
<1>0. /\ callback \in [Ids -> {"None", "Count", "SetEvent"}] /\ callback' = callback
      /\ mSize \in Int /\ IsFiniteSet(Counting) /\ Counting' = Counting
      /\ Cardinality(Counting) \in Nat
      /\ Len(queue) = mSize + Cardinality(Counting)
  <2>1. callback' = callback
    BY DEF UpdateStep, TryDequeue, Wake, Join, Leave, LeaveDone, Ignore, Login, Kick, Move,
           Chat, Done, netVars
  <2>2. IsFiniteSet(Counting) /\ Counting' = Counting
    BY <2>1 DEF WakeInv, Counting
  <2> QED BY <2>1, <2>2, FS_CardinalityType DEF WakeInv
<1>1. CASE TryDequeue
  <2>1. CASE mSize <= 0
    <3>1. UNCHANGED <<queue, mSize>>
      BY <1>1, <2>1 DEF TryDequeue
    <3>2. ~ (mSize' > 0)
      BY <1>0, <2>1, <3>1
    <3> QED BY <1>0, <3>1, <3>2 DEF WakeInv
  <2>2. CASE ~ (mSize <= 0)
    <3>1. queue # <<>> /\ queue' = Tail(queue) /\ mSize' = mSize - 1 /\ update' = "Handle"
      BY <1>1, <2>2 DEF TryDequeue
    <3>2. Len(queue') = Len(queue) - 1
      BY <3>1, HeadTailProperties DEF IInv, Types
    <3>3. Len(queue') = mSize' + Cardinality(Counting') /\ mSize' \in Int
      BY <1>0, <3>1, <3>2
    <3> QED BY <1>0, <3>1, <3>3 DEF WakeInv
  <2> QED BY <2>1, <2>2
<1>2. CASE ~ TryDequeue
  <2>1. UNCHANGED <<queue, mSize>> /\ update' = "Dequeue"
    BY <1>2 DEF UpdateStep, Wake, Join, Leave, LeaveDone, Ignore, Login, Kick, Move, Chat, Done
  <2> QED BY <1>0, <2>1 DEF WakeInv
<1> QED BY <1>1, <1>2

LEMMA WakeInductive == Spec => [](IInv /\ WakeInv)
<1>1. Init => IInv /\ WakeInv
  <2> SUFFICES ASSUME Init PROVE WakeInv
    BY InitIInv
  <2>1. Counting = {} /\ Len(queue) = 0
    BY EmptySeq DEF Init, Counting
  <2>2. IsFiniteSet(Counting) /\ Cardinality(Counting) = 0
    BY <2>1, FS_EmptySet
  <2> QED BY <2>1, <2>2 DEF Init, WakeInv
<1>2. IInv /\ WakeInv /\ [Next]_vars => (IInv /\ WakeInv)'
  <2> SUFFICES ASSUME IInv, WakeInv, [Next]_vars PROVE IInv' /\ WakeInv'
    OBVIOUS
  <2>1. IInv'
    BY StepIInv
  <2>2. CASE UNCHANGED vars
    <3>1. UNCHANGED <<queue, mSize, callback, update, signalled>>
      BY <2>2 DEF vars, netVars, threadVars
    <3>2. Counting' = Counting
      BY <3>1 DEF Counting
    <3> QED BY <2>1, <3>1, <3>2 DEF WakeInv
  <2> QED BY <2>1, <2>2, CallbackWakes, UpdateWakes DEF Next
<1> QED BY <1>1, <1>2, PTL DEF Spec

--------------------------------------------------------------------------------
(* The theorems.                                                           *)

\* A player object is in the pool or belongs to exactly one session, whatever
\* order the packets, kicks and leaves of the sessions are handled in: the pool
\* gives no object to two sessions, and removePlayer gives none back twice.
THEOREM ObjectsNotShared == Spec => []ObjectsOwned
<1>1. IInv => ObjectsOwned
  BY DEF IInv
<1> QED BY <1>1, Inductive, PTL

\* The sector maps hold each player in the one sector its object names and
\* nowhere else, so no message is sent for a player that was removed.
THEOREM SectorsExact == Spec => []SectorsAgree
<1>1. IInv => SectorsAgree
  BY DEF IInv
<1> QED BY <1>1, Inductive, PTL

\* A session that has left is a player only until its Leave is handled, also
\* when it left before the update thread had looked at its Join, and whatever
\* overtakes what in mMessageQueue; except when the Leave overtakes the Join.
THEOREM LeaversRemoved == Spec => []NoZombie
<1>1. IInv => NoZombie
  <2> SUFFICES ASSUME IInv, NEW id \in Ids, mPlayers[id] # NoPlayer, session[id] # "Open",
                      id \notin overtaken
               PROVE  Pending("Leave", id)
    BY DEF NoZombie
  <2>1. session[id] = "Left"
    BY DEF IInv, Types, Protocol, NewClean
  <2>2. LeavePending(id)
    BY <2>1 DEF IInv, Protocol, LeaveComes
  <2>3. DOMAIN queue = 1 .. Len(queue)
    BY LenProperties DEF IInv, Types
  <2> QED BY <2>2, <2>3 DEF LeavePending, InHand, Waits, Pending, Waiting
<1> QED BY <1>1, Inductive, PTL

\* The update thread never sleeps over an event: while it waits without a signal
\* and an event is in mMessageQueue, a callback has still to count it or to give
\* the signal, for any number of sessions and however their callbacks interleave.
THEOREM WakesUp == Spec => []NoEventMissed
<1>1. IInv /\ WakeInv => NoEventMissed
  <2> SUFFICES ASSUME IInv, WakeInv, update = "Wait", ~ signalled, queue # <<>>,
                      \A id \in Ids : callback[id] = "None"
               PROVE  FALSE
    BY DEF NoEventMissed
  <2>1. Counting = {}
    BY DEF Counting
  <2>2. Cardinality(Counting) = 0
    BY <2>1, FS_EmptySet
  <2>3. ~ (mSize > 0)
    BY DEF WakeInv
  <2>4. queue \in Seq(Events) /\ Len(queue) \in Nat /\ Len(queue) # 0
    BY EmptySeq, LenProperties DEF IInv, Types
  <2>5. mSize \in Int /\ Len(queue) = mSize + Cardinality(Counting)
    BY DEF WakeInv
  <2> QED BY <2>2, <2>3, <2>4, <2>5
<1> QED BY <1>1, WakeInductive, PTL

--------------------------------------------------------------------------------
(* Broadcast: the inductive invariant.                                     *)

MessageValues == [data : Seq(Byte), room : Nat, mCapacity : Nat, mbEncoded : BOOLEAN,
                  freed : BOOLEAN]

RelayTypes ==
    /\ msg \in [Messages -> MessageValues]
    /\ header \in [Messages -> [checkSum : Byte, key : Byte]]
    /\ refs \in [Messages -> Nat]
    /\ written \in [Messages -> Seq(Seq(Byte))]
    /\ inbox \in Seq(Messages)
    /\ pc \in {"Idle", "Write", "Send"}
    /\ in \in Messages \cup {NoMessage} /\ out \in Messages \cup {NoMessage}
    /\ heard \in Seq(Seq(Byte))
    /\ todo \subseteq Sessions
    /\ open \in [Sessions -> BOOLEAN]
    /\ sendQueue \in [Sessions -> Seq(Messages)]

Single(s) == \A i, j \in 1 .. Len(s) : s[i] = s[j] => i = j

\* A message is at most once in the inbox, and then not in the listener's hands;
\* what it handles is not what it builds; and a session that has still to be sent
\* the message does not have it yet.
InPlaces ==
    /\ in = NoMessage <=> pc = "Idle"
    /\ out = NoMessage <=> pc # "Send"
    /\ todo # {} => pc = "Send"
    /\ pc = "Send" => in # out
    /\ in \notin ToSet(inbox) /\ out \notin ToSet(inbox)
    /\ Single(inbox)
    /\ \A s \in Sessions : Single(sendQueue[s])
    /\ \A s \in todo : out \notin ToSet(sendQueue[s])

\* as it was written
Plain(m) == ~ msg[m].mbEncoded /\ msg[m].data = FlattenSeq(written[m])

\* the packet that its buffer makes decodes to what was written
Packed(m) ==
    LET plain == Decode(header[m].key, header[m].checkSum, msg[m].data)
    IN /\ msg[m].mbEncoded
       /\ plain.data = FlattenSeq(written[m]) /\ plain.checkSum = calculateCheckSum(plain.data)

Placed(m) == ~ msg[m].freed => msg[m].room = HeaderSize

\* A message is plain until the listener sends it, and encoded from then on.
InForm ==
    /\ \A m \in ToSet(inbox) : Plain(m)
    /\ pc # "Idle" => ~ msg[in].mbEncoded /\ heard = written[in]
    /\ pc = "Send" => Placed(out) /\ (Plain(out) \/ Packed(out))
    /\ \A s \in Sessions : \A m \in ToSet(sendQueue[s]) : Packed(m) /\ Placed(m)

Blanked(m) == m = [Blank EXCEPT !.mCapacity = m.mCapacity, !.freed = m.freed]

\* the sessions in whose queue it is
Having(q, m) == {s \in Sessions : m \in ToSet(q[s])}

\* the places of a message, with what the variables for them hold
PlacesOf(box, i, o, q, m) ==
    (IF m \in ToSet(box) THEN 1 ELSE 0) + (IF m \in {i, o} THEN 1 ELSE 0)
        + Cardinality(Having(q, m))

Counted == \A m \in Messages : refs[m] = PlacesOf(inbox, in, out, sendQueue, m)
PoolBlank == \A m \in Messages : refs[m] = 0 => Blanked(msg[m])

RelayInv == RelayTypes /\ InPlaces /\ InForm /\ Counted /\ PoolBlank

--------------------------------------------------------------------------------
(* Recursive functions.                                                    *)

\* a set that has 0 and with a number the next has all numbers
LEMMA UpTo ==
  ASSUME NEW n \in Nat, NEW S, 0 \in S, \A i \in 1 .. n : i - 1 \in S => i \in S
  PROVE  \A i \in 0 .. n : i \in S
<1> DEFINE K == {i \in 1 .. n : i \notin S}
           T == {1 .. k : k \in K}
<1>1. SUFFICES ASSUME K # {} PROVE FALSE
  <2>1. \A i \in 0 .. n : i = 0 \/ i \in 1 .. n
    OBVIOUS
  <2> QED BY <2>1
<1>2. T \subseteq FiniteSubsetsOf(1 .. n) /\ T # {}
  <2>1. ASSUME NEW k \in K PROVE 1 .. k \in FiniteSubsetsOf(1 .. n)
    <3>1. k \in Int /\ 1 .. k \subseteq 1 .. n
      OBVIOUS
    <3> QED BY <3>1, FS_Interval DEF FiniteSubsetsOf
  <2> QED BY <1>1, <2>1
<1>3. IsWellFoundedOn(StrictSubsetOrdering(1 .. n), FiniteSubsetsOf(1 .. n))
  BY FS_StrictSubsetOrderingWellFounded
<1> HIDE DEF T
<1>4. \E x \in T : \A y \in T : ~ (<<y, x>> \in StrictSubsetOrdering(1 .. n))
  BY <1>2, <1>3, WFMin
<1>5. PICK k \in K : \A j \in K : ~ (<<1 .. j, 1 .. k>> \in StrictSubsetOrdering(1 .. n))
  BY <1>4 DEF T
<1>6. k \in 1 .. n /\ k - 1 \notin S
  OBVIOUS
<1>7. k - 1 \in 1 .. n
  <2>1. k - 1 # 0
    BY <1>6
  <2> QED BY <1>6, <2>1
<1>8. k - 1 \in K
  BY <1>6, <1>7
<1>9. /\ 1 .. (k - 1) \subseteq 1 .. k /\ k \in 1 .. k /\ k \notin 1 .. (k - 1)
      /\ 1 .. k \subseteq 1 .. n /\ 1 .. (k - 1) \subseteq 1 .. n
  BY <1>6
<1>10. <<1 .. (k - 1), 1 .. k>> \in StrictSubsetOrdering(1 .. n)
  BY <1>9 DEF StrictSubsetOrdering
<1> QED BY <1>5, <1>8, <1>10

\* what begins with b and goes on by F
Runs(g, n, b, F) == g[0] = b /\ \A i \in 1 .. n : g[i] = F[i][g[i - 1]]

\* there is such a function
LEMMA Recursion ==
  ASSUME NEW n \in Nat, NEW X, NEW b \in X, NEW F \in [1 .. n -> [X -> X]]
  PROVE  \E g \in [0 .. n -> X] : Runs(g, n, b, F)
<1> DEFINE S == {k \in 0 .. n : \E g \in [0 .. k -> X] : Runs(g, k, b, F)}
<1>1. 0 \in S
  <2> DEFINE g == [i \in 0 .. 0 |-> b]
  <2>1. g \in [0 .. 0 -> X] /\ g[0] = b /\ \A i \in 1 .. 0 : FALSE
    OBVIOUS
  <2> HIDE DEF g
  <2>2. Runs(g, 0, b, F) /\ 0 \in 0 .. n
    BY <2>1 DEF Runs
  <2> QED BY <2>1, <2>2
<1>2. ASSUME NEW k \in 1 .. n, k - 1 \in S PROVE k \in S
  <2>1. PICK g \in [0 .. (k - 1) -> X] : Runs(g, k - 1, b, F)
    BY <1>2
  <2> DEFINE h == [i \in 0 .. k |-> IF i = k THEN F[k][g[k - 1]] ELSE g[i]]
  <2>2. /\ 0 \in 0 .. k /\ k # 0 /\ k - 1 \in 0 .. (k - 1)
        /\ \A i \in 0 .. k : i = k \/ i \in 0 .. (k - 1)
        /\ \A i \in 1 .. k : i \in 0 .. k /\ i - 1 \in 0 .. k /\ i - 1 # k
        /\ \A i \in 1 .. k : i = k \/ i \in 1 .. (k - 1)
    OBVIOUS
  <2>3. F[k][g[k - 1]] \in X
    BY <2>2
  <2>4. h \in [0 .. k -> X]
    BY <2>2, <2>3
  <2>5. h[0] = b
    BY <2>1, <2>2 DEF Runs
  <2>6. ASSUME NEW i \in 1 .. k PROVE h[i] = F[i][h[i - 1]]
    <3>1. h[i - 1] = g[i - 1]
      BY <2>2
    <3>2. CASE i = k
      BY <2>2, <3>1, <3>2
    <3>3. CASE i \in 1 .. (k - 1)
      <4>1. h[i] = g[i] /\ g[i] = F[i][g[i - 1]]
        BY <2>1, <2>2, <3>3 DEF Runs
      <4> QED BY <3>1, <4>1
    <3> QED BY <2>2, <3>2, <3>3
  <2> HIDE DEF h
  <2>7. Runs(h, k, b, F)
    BY <2>5, <2>6 DEF Runs
  <2> QED BY <2>4, <2>7
<1> HIDE DEF S
<1>3. \A i \in 0 .. n : i \in S
  BY <1>1, <1>2, UpTo
<1>4. n \in S
  BY <1>3
<1> QED BY <1>4 DEF S

\* a function on 1 .. n is a sequence
LEMMA ArrayIsSeq ==
  ASSUME NEW n \in Nat, NEW S, NEW f \in [1 .. n -> S]
  PROVE  f \in Seq(S) /\ Len(f) = n /\ DOMAIN f = 1 .. n
<1>1. f \in Seq(S)
  BY SeqDef
<1> QED BY <1>1, LenProperties

--------------------------------------------------------------------------------
(* Bytes.                                                                  *)

Nibble == 0 .. 15

\* four bits, and what is left of them when some are shifted out
LEMMA Bits ==
  ASSUME NEW x \in Nibble
  PROVE  \E a, b, c, d \in 0 .. 1 :
            /\ x = 8 * a + 4 * b + 2 * c + d
            /\ x \div 8 = a /\ x \div 4 = 2 * a + b /\ x \div 2 = 4 * a + 2 * b + c
<1> DEFINE a == x \div 8
           b == (x \div 4) % 2
           c == (x \div 2) % 2
           d == x % 2
<1>1. a \in 0 .. 1 /\ b \in 0 .. 1 /\ c \in 0 .. 1 /\ d \in 0 .. 1
  BY DEF Nibble
<1>2. /\ x = 8 * a + 4 * b + 2 * c + d
      /\ x \div 4 = 2 * a + b /\ x \div 2 = 4 * a + 2 * b + c
  BY DEF Nibble
<1> QED BY <1>1, <1>2

Bit(x, y) == (x + y) % 2

LEMMA BitTwice ==
  ASSUME NEW x \in 0 .. 1, NEW y \in 0 .. 1
  PROVE  Bit(x, y) \in 0 .. 1 /\ Bit(Bit(x, y), y) = x
BY DEF Bit

\* the exclusive or of four bits is that of each
LEMMA NibbleBits ==
  ASSUME NEW a \in 0 .. 1, NEW b \in 0 .. 1, NEW c \in 0 .. 1, NEW d \in 0 .. 1,
         NEW e \in 0 .. 1, NEW f \in 0 .. 1, NEW g \in 0 .. 1, NEW h \in 0 .. 1
  PROVE  /\ 8 * a + 4 * b + 2 * c + d \in Nibble
         /\ Nibbles[8 * a + 4 * b + 2 * c + d][8 * e + 4 * f + 2 * g + h] =
                8 * Bit(a, e) + 4 * Bit(b, f) + 2 * Bit(c, g) + Bit(d, h)
<1> DEFINE x == 8 * a + 4 * b + 2 * c + d
           y == 8 * e + 4 * f + 2 * g + h
<1>1. x \in 0 .. 15 /\ y \in 0 .. 15
  OBVIOUS
<1>2. /\ x \div 8 = a /\ x \div 4 = 2 * a + b /\ x \div 2 = 4 * a + 2 * b + c
      /\ y \div 8 = e /\ y \div 4 = 2 * e + f /\ y \div 2 = 4 * e + 2 * f + g
  OBVIOUS
<1>3. /\ (a + e) % 2 = Bit(a, e)
      /\ (2 * a + b + (2 * e + f)) % 2 = Bit(b, f)
      /\ (4 * a + 2 * b + c + (4 * e + 2 * f + g)) % 2 = Bit(c, g)
      /\ (x + y) % 2 = Bit(d, h)
  BY DEF Bit
<1> HIDE DEF x, y
<1>4. Nibbles[x][y] = 8 * ((x \div 8 + y \div 8) % 2) + 4 * ((x \div 4 + y \div 4) % 2)
                        + 2 * ((x \div 2 + y \div 2) % 2) + ((x + y) % 2)
  BY <1>1 DEF Nibbles
<1>5. Nibbles[x][y] = 8 * Bit(a, e) + 4 * Bit(b, f) + 2 * Bit(c, g) + Bit(d, h)
  BY <1>2, <1>3, <1>4
<1> QED BY <1>1, <1>5 DEF x, y, Nibble

LEMMA NibbleTwice ==
  ASSUME NEW x \in Nibble, NEW y \in Nibble
  PROVE  Nibbles[x][y] \in Nibble /\ Nibbles[Nibbles[x][y]][y] = x
<1>1. PICK a, b, c, d \in 0 .. 1 : x = 8 * a + 4 * b + 2 * c + d
  BY Bits
<1>2. PICK e, f, g, h \in 0 .. 1 : y = 8 * e + 4 * f + 2 * g + h
  BY Bits
<1> DEFINE A == Bit(a, e)
           B == Bit(b, f)
           C == Bit(c, g)
           D == Bit(d, h)
<1>3. /\ A \in 0 .. 1 /\ B \in 0 .. 1 /\ C \in 0 .. 1 /\ D \in 0 .. 1
      /\ Bit(A, e) = a /\ Bit(B, f) = b /\ Bit(C, g) = c /\ Bit(D, h) = d
  BY BitTwice
<1>4. Nibbles[x][y] = 8 * A + 4 * B + 2 * C + D
  BY <1>1, <1>2, NibbleBits
<1> HIDE DEF A, B, C, D
<1>5. /\ 8 * A + 4 * B + 2 * C + D \in Nibble
      /\ Nibbles[8 * A + 4 * B + 2 * C + D][y] =
            8 * Bit(A, e) + 4 * Bit(B, f) + 2 * Bit(C, g) + Bit(D, h)
  <2>1. /\ 8 * A + 4 * B + 2 * C + D \in Nibble
        /\ Nibbles[8 * A + 4 * B + 2 * C + D][8 * e + 4 * f + 2 * g + h] =
              8 * Bit(A, e) + 4 * Bit(B, f) + 2 * Bit(C, g) + Bit(D, h)
    <3>1. A \in 0 .. 1 /\ B \in 0 .. 1 /\ C \in 0 .. 1 /\ D \in 0 .. 1
      BY <1>3
    <3> QED BY <3>1, NibbleBits
  <2> QED BY <1>2, <2>1
<1>6. Nibbles[8 * A + 4 * B + 2 * C + D][y] = 8 * a + 4 * b + 2 * c + d
  BY <1>3, <1>5
<1> QED BY <1>1, <1>4, <1>5, <1>6

\* mixing a byte with another one twice gives it back
LEMMA MixedTwice ==
  ASSUME NEW x \in Byte, NEW y \in Byte
  PROVE  Mixed(x, y) \in Byte /\ Mixed(Mixed(x, y), y) = x
<1> DEFINE h == Nibbles[x \div 16][y \div 16]
           l == Nibbles[x % 16][y % 16]
<1>1. /\ x \div 16 \in Nibble /\ x % 16 \in Nibble /\ x = 16 * (x \div 16) + (x % 16)
      /\ y \div 16 \in Nibble /\ y % 16 \in Nibble
  BY DEF Byte, Nibble
<1>2. /\ h \in Nibble /\ Nibbles[h][y \div 16] = x \div 16
      /\ l \in Nibble /\ Nibbles[l][y % 16] = x % 16
  BY <1>1, NibbleTwice
<1> HIDE DEF h, l
<1>3. Mixed(x, y) = 16 * h + l
  BY DEF Mixed, h, l
<1>4. 16 * h + l \in Byte /\ (16 * h + l) \div 16 = h /\ (16 * h + l) % 16 = l
  BY <1>2 DEF Byte, Nibble
<1>5. Mixed(16 * h + l, y) = 16 * Nibbles[h][y \div 16] + Nibbles[l][y % 16]
  BY <1>4 DEF Mixed
<1> QED BY <1>1, <1>2, <1>3, <1>4, <1>5

LEMMA LowIsByte ==
  ASSUME NEW x \in Int
  PROVE  Low(x) \in Byte
BY DEF Low, Byte

\* sums of bytes, cut off
LEMMA LowOfSums ==
  ASSUME NEW x \in Byte, NEW y \in Byte, NEW i \in Nat
  PROVE  /\ Low(x + y) \in Byte
         /\ Low(x + y + i + 1) \in Byte /\ Low(x + y + i + 1) = Low(y + x + i + 1)
<1>1. x + y \in Int /\ x + y + i + 1 \in Int /\ x + y + i + 1 = y + x + i + 1
  BY DEF Byte
<1> QED BY <1>1, LowIsByte

LEMMA FixedKeyIsByte == FIXED_KEY \in Byte /\ FIXED_KEY + 1 \in Byte
BY DEF FIXED_KEY, Byte

\* the check sum is a byte
LEMMA CheckSumIsByte ==
  ASSUME NEW data \in Seq(Byte)
  PROVE  calculateCheckSum(data) \in Byte
<1> DEFINE n == Len(data)
           Body(g) == [i \in 0 .. n |-> IF i = 0 THEN 0 ELSE Low(g[i - 1] + data[i])]
           F == [i \in 1 .. n |-> [x \in Byte |-> Low(x + data[i])]]
           P(g) == g = Body(g)
           sum == CHOOSE g : P(g)
<1>1. n \in Nat /\ \A i \in 1 .. n : data[i] \in Byte
  BY LenProperties, ElementOfSeq
<1>2. F \in [1 .. n -> [Byte -> Byte]] /\ 0 \in Byte
  <2>1. \A i \in 1 .. n : \A x \in Byte : Low(x + data[i]) \in Byte
    <3> SUFFICES ASSUME NEW i \in 1 .. n, NEW x \in Byte PROVE Low(x + data[i]) \in Byte
      OBVIOUS
    <3>1. data[i] \in Byte
      BY <1>1
    <3> QED BY <3>1, LowOfSums
  <2>2. 0 \in Byte
    BY DEF Byte
  <2> QED BY <2>1, <2>2
<1>3. PICK g \in [0 .. n -> Byte] : Runs(g, n, 0, F)
  <2> HIDE DEF F, n
  <2> QED BY <1>1, <1>2, Recursion
<1>4. P(g)
  <2>1. \A i \in 0 .. n : g[i] = IF i = 0 THEN 0 ELSE Low(g[i - 1] + data[i])
    <3> SUFFICES ASSUME NEW i \in 0 .. n
                 PROVE  g[i] = IF i = 0 THEN 0 ELSE Low(g[i - 1] + data[i])
      OBVIOUS
    <3>1. i = 0 \/ (i # 0 /\ i \in 1 .. n /\ i - 1 \in 0 .. n)
      BY <1>1
    <3>2. g[0] = 0 /\ \A j \in 1 .. n : g[j] = F[j][g[j - 1]]
      BY <1>3 DEF Runs
    <3>3. i \in 1 .. n => F[i][g[i - 1]] = Low(g[i - 1] + data[i])
      BY <1>3, <3>1
    <3> QED BY <3>1, <3>2, <3>3
  <2> QED BY <2>1
<1> HIDE DEF P, sum
<1>5. P(sum)
  BY <1>4 DEF sum
<1>6. sum[n] = IF n = 0 THEN 0 ELSE Low(sum[n - 1] + data[n])
  <2>1. sum = Body(sum) /\ n \in 0 .. n
    BY <1>1, <1>5 DEF P
  <2> QED BY <2>1
<1>7. calculateCheckSum(data) = sum[n]
  BY DEF calculateCheckSum, sum, P
<1>8. \A i \in 0 .. n : sum[i] \in Byte
  <2> DEFINE S == {i \in 0 .. n : sum[i] \in Byte}
  <2>0. /\ sum[0] = 0
        /\ \A i \in 1 .. n : i - 1 \in 0 .. n /\ i \in 0 .. n /\ sum[i] = Low(sum[i - 1] + data[i])
    <3>1. sum = Body(sum)
      BY <1>5 DEF P
    <3>2. 0 \in 0 .. n /\ \A i \in 1 .. n : i - 1 \in 0 .. n /\ i \in 0 .. n /\ i # 0
      BY <1>1
    <3> QED BY <3>1, <3>2
  <2>1. 0 \in S
    BY <1>1, <1>2, <2>0
  <2>2. ASSUME NEW i \in 1 .. n, i - 1 \in S PROVE i \in S
    <3>1. sum[i - 1] \in Byte /\ data[i] \in Byte
      BY <1>1, <2>2
    <3>2. Low(sum[i - 1] + data[i]) \in Byte
      BY <3>1, LowOfSums
    <3> QED BY <2>0, <3>2
  <2> HIDE DEF S, n
  <2>3. \A i \in 0 .. n : i \in S
    BY <1>1, <2>1, <2>2, UpTo
  <2> QED BY <2>3 DEF S
<1> QED BY <1>1, <1>7, <1>8

Scalars == [scalar : Byte, encoded : Byte]
FirstScalar(key, checkSum) ==
    [scalar |-> Mixed(checkSum, Low(key + 1)),
     encoded |-> Mixed(Mixed(checkSum, Low(key + 1)), FIXED_KEY + 1)]
NextScalar(key, last, byte, i) ==
    [scalar |-> Mixed(byte, Low(key + last.scalar + i + 1)),
     encoded |-> Mixed(Mixed(byte, Low(key + last.scalar + i + 1)),
                       Low(FIXED_KEY + last.encoded + i + 1))]

LEMMA ScalarsAreBytes ==
  ASSUME NEW key \in Byte, NEW checkSum \in Byte
  PROVE  /\ FirstScalar(key, checkSum) \in Scalars
         /\ \A last \in Scalars, byte \in Byte, i \in Nat :
                NextScalar(key, last, byte, i) \in Scalars
<1>1. Low(key + 1) \in Byte /\ FIXED_KEY + 1 \in Byte
  BY LowIsByte DEF Byte, FIXED_KEY
<1>2. FirstScalar(key, checkSum) \in Scalars
  BY <1>1, MixedTwice DEF FirstScalar, Scalars
<1>3. ASSUME NEW last \in Scalars, NEW byte \in Byte, NEW i \in Nat
      PROVE  NextScalar(key, last, byte, i) \in Scalars
  <2>1. last.scalar \in Byte /\ last.encoded \in Byte
    BY DEF Scalars
  <2>2. Low(key + last.scalar + i + 1) \in Byte /\ Low(FIXED_KEY + last.encoded + i + 1) \in Byte
    BY <2>1, FixedKeyIsByte, LowOfSums
  <2> QED BY <2>2, MixedTwice DEF NextScalar, Scalars
<1> QED BY <1>2, <1>3

\* what Encode goes through
LEMMA EncodeRuns ==
  ASSUME NEW key \in Byte, NEW checkSum \in Byte, NEW data \in Seq(Byte)
  PROVE  \E at \in [0 .. Len(data) -> Scalars] :
            /\ at[0] = FirstScalar(key, checkSum)
            /\ \A i \in 1 .. Len(data) : at[i] = NextScalar(key, at[i - 1], data[i], i)
            /\ Encode(key, checkSum, data) =
                  [checkSum |-> at[0].encoded, data |-> [i \in 1 .. Len(data) |-> at[i].encoded]]
<1> DEFINE n == Len(data)
           b == FirstScalar(key, checkSum)
           Body(g) == [i \in 0 .. n |-> IF i = 0 THEN b ELSE NextScalar(key, g[i - 1], data[i], i)]
           F == [i \in 1 .. n |-> [x \in Scalars |-> NextScalar(key, x, data[i], i)]]
           P(g) == g = Body(g)
           at == CHOOSE g : P(g)
<1>1. n \in Nat /\ \A i \in 1 .. n : data[i] \in Byte /\ i \in Nat
  BY LenProperties, ElementOfSeq
<1>2. F \in [1 .. n -> [Scalars -> Scalars]] /\ b \in Scalars
  BY <1>1, ScalarsAreBytes
<1>3. PICK g \in [0 .. n -> Scalars] : Runs(g, n, b, F)
  <2> HIDE DEF F, n, b
  <2> QED BY <1>1, <1>2, Recursion
<1>4. P(g)
  <2>1. \A i \in 0 .. n : g[i] = IF i = 0 THEN b ELSE NextScalar(key, g[i - 1], data[i], i)
    <3> SUFFICES ASSUME NEW i \in 0 .. n
                 PROVE  g[i] = IF i = 0 THEN b ELSE NextScalar(key, g[i - 1], data[i], i)
      OBVIOUS
    <3>1. i = 0 \/ (i # 0 /\ i \in 1 .. n /\ i - 1 \in 0 .. n)
      BY <1>1
    <3>2. g[0] = b /\ \A j \in 1 .. n : g[j] = F[j][g[j - 1]]
      BY <1>3 DEF Runs
    <3>3. ASSUME i \in 1 .. n PROVE F[i][g[i - 1]] = NextScalar(key, g[i - 1], data[i], i)
      <4>1. g[i - 1] \in Scalars
        BY <1>3, <3>1, <3>3
      <4>2. F[i] = [x \in Scalars |-> NextScalar(key, x, data[i], i)]
        BY <3>3
      <4> QED BY <4>1, <4>2
    <3> HIDE DEF F, n, b
    <3> QED BY <3>1, <3>2, <3>3
  <2> QED BY <2>1
<1>5. Encode(key, checkSum, data) =
          [checkSum |-> at[0].encoded, data |-> [i \in 1 .. n |-> at[i].encoded]]
  BY DEF Encode, FirstScalar, NextScalar
<1> HIDE DEF P, at
<1>6. P(at)
  BY <1>4 DEF at
<1>7. /\ at[0] = b
      /\ \A i \in 1 .. n : i - 1 \in 0 .. n /\ i \in 0 .. n
      /\ \A i \in 1 .. n : at[i] = NextScalar(key, at[i - 1], data[i], i)
  <2> HIDE DEF b
  <2>1. at = Body(at)
    BY <1>6 DEF P
  <2>2. 0 \in 0 .. n /\ \A i \in 1 .. n : i - 1 \in 0 .. n /\ i \in 0 .. n /\ i # 0
    BY <1>1
  <2> QED BY <2>1, <2>2
<1>8. \A i \in 0 .. n : at[i] \in Scalars
  <2> DEFINE S == {i \in 0 .. n : at[i] \in Scalars}
  <2>1. 0 \in S
    BY <1>1, <1>2, <1>7
  <2>2. ASSUME NEW i \in 1 .. n, i - 1 \in S PROVE i \in S
    <3>1. at[i - 1] \in Scalars /\ data[i] \in Byte /\ i \in Nat /\ i \in 0 .. n
      BY <1>1, <1>7, <2>2
    <3>2. NextScalar(key, at[i - 1], data[i], i) \in Scalars
      BY <3>1, ScalarsAreBytes
    <3> QED BY <1>7, <3>1, <3>2
  <2> HIDE DEF S, n
  <2>3. \A i \in 0 .. n : i \in S
    BY <1>1, <2>1, <2>2, UpTo
  <2> QED BY <2>3 DEF S
<1>9. at \in [0 .. n -> Scalars]
  <2> HIDE DEF b
  <2>1. at = Body(at)
    BY <1>6 DEF P
  <2>2. at = [i \in 0 .. n |-> at[i]]
    BY <2>1
  <2> QED BY <1>8, <2>2
<1> QED BY <1>5, <1>7, <1>9

\* Of any bytes, with any key and check sum, what encode makes is bytes again, and
\* decode gives back both, although each byte depends on what came before it
\* (WanServer::encode and decode).
THEOREM DecodeEncode ==
  ASSUME NEW key \in Byte, NEW checkSum \in Byte, NEW data \in Seq(Byte)
  PROVE  LET packet == Encode(key, checkSum, data)
         IN /\ packet.checkSum \in Byte /\ packet.data \in Seq(Byte)
            /\ Decode(key, packet.checkSum, packet.data) = [checkSum |-> checkSum, data |-> data]
<1> DEFINE n == Len(data)
           packet == Encode(key, checkSum, data)
<1>1. PICK at \in [0 .. n -> Scalars] :
          /\ at[0] = FirstScalar(key, checkSum)
          /\ \A i \in 1 .. n : at[i] = NextScalar(key, at[i - 1], data[i], i)
          /\ packet = [checkSum |-> at[0].encoded, data |-> [i \in 1 .. n |-> at[i].encoded]]
  BY EncodeRuns
<1>2. n \in Nat /\ 0 \in 0 .. n
      /\ \A i \in 1 .. n : data[i] \in Byte /\ i \in 0 .. n /\ i - 1 \in 0 .. n /\ i # 0 /\ i \in Nat
  BY LenProperties, ElementOfSeq
<1>3. \A i \in 0 .. n : at[i].encoded \in Byte /\ at[i].scalar \in Byte
  BY <1>1 DEF Scalars
<1> DEFINE sent == [i \in 1 .. n |-> at[i].encoded]
<1>4. sent \in Seq(Byte) /\ Len(sent) = n /\ DOMAIN sent = 1 .. n
  <2>1. sent \in [1 .. n -> Byte]
    BY <1>2, <1>3
  <2> HIDE DEF sent, n
  <2> QED BY <1>2, <2>1, ArrayIsSeq
<1>5. packet.checkSum = at[0].encoded /\ packet.data = sent
  BY <1>1
<1> DEFINE e == [i \in 0 .. n |-> IF i = 0 THEN at[0].encoded ELSE sent[i]]
           p == [i \in 0 .. n |->
                   IF i = 0 THEN Mixed(e[0], FIXED_KEY + 1)
                   ELSE Mixed(e[i], Low(e[i - 1] + FIXED_KEY + i + 1))]
           plain == [i \in 1 .. n |-> Mixed(p[i], Low(p[i - 1] + key + i + 1))]
<1>6. Decode(key, at[0].encoded, sent) = [checkSum |-> Mixed(p[0], Low(key + 1)), data |-> plain]
  <2> HIDE DEF sent, n
  <2> QED BY <1>4 DEF Decode
<1>7. \A i \in 0 .. n : e[i] = at[i].encoded
  BY <1>2
<1>8. \A i \in 0 .. n : p[i] = at[i].scalar
  <2> SUFFICES ASSUME NEW i \in 0 .. n PROVE p[i] = at[i].scalar
    OBVIOUS
  <2>1. CASE i = 0
    <3>1. p[0] = Mixed(at[0].encoded, FIXED_KEY + 1)
      BY <1>2, <1>7
    <3>2. at[0].encoded = Mixed(at[0].scalar, FIXED_KEY + 1) /\ FIXED_KEY + 1 \in Byte
      BY <1>1, FixedKeyIsByte DEF FirstScalar
    <3> QED BY <1>3, <2>1, <3>1, <3>2, MixedTwice
  <2>2. CASE i # 0
    <3> DEFINE f == Low(FIXED_KEY + at[i - 1].encoded + i + 1)
    <3>0. i \in 1 .. n /\ i - 1 \in 0 .. n /\ i \in Nat
      BY <1>2, <2>2
    <3>1. p[i] = Mixed(e[i], Low(e[i - 1] + FIXED_KEY + i + 1))
      BY <2>2
    <3>2. /\ at[i - 1].encoded \in Byte
          /\ e[i] = at[i].encoded /\ e[i - 1] = at[i - 1].encoded
      BY <1>3, <1>7, <3>0
    <3>3. p[i] = Mixed(at[i].encoded, f) /\ f \in Byte
      <4> HIDE DEF e, p, n
      <4> QED BY <3>0, <3>1, <3>2, LowOfSums, FixedKeyIsByte
    <3>4. at[i].encoded = Mixed(at[i].scalar, f)
      <4>1. at[i] = NextScalar(key, at[i - 1], data[i], i)
        BY <1>1, <3>0
      <4> QED BY <4>1 DEF NextScalar
    <3>5. at[i].scalar \in Byte
      BY <1>3
    <3> HIDE DEF f, p, e
    <3> QED BY <3>3, <3>4, <3>5, MixedTwice
  <2> QED BY <2>1, <2>2
<1> HIDE DEF p, e
<1>9. Mixed(p[0], Low(key + 1)) = checkSum
  <2>1. p[0] = Mixed(checkSum, Low(key + 1)) /\ key + 1 \in Int
    BY <1>1, <1>2, <1>8 DEF FirstScalar, Byte
  <2> QED BY <2>1, LowIsByte, MixedTwice
<1>10. \A i \in 1 .. n : plain[i] = data[i]
  <2> SUFFICES ASSUME NEW i \in 1 .. n PROVE plain[i] = data[i]
    OBVIOUS
  <2> DEFINE f == Low(key + at[i - 1].scalar + i + 1)
  <2>1. i \in 0 .. n /\ i - 1 \in 0 .. n /\ i \in Nat /\ data[i] \in Byte
    BY <1>2
  <2>2. /\ at[i - 1].scalar \in Byte
        /\ p[i] = at[i].scalar /\ p[i - 1] = at[i - 1].scalar
    BY <1>3, <1>8, <2>1
  <2>3. plain[i] = Mixed(at[i].scalar, f) /\ f \in Byte
    <3>1. plain[i] = Mixed(p[i], Low(p[i - 1] + key + i + 1))
      OBVIOUS
    <3> HIDE DEF plain, n
    <3> QED BY <2>1, <2>2, <3>1, LowOfSums
  <2>4. at[i].scalar = Mixed(data[i], f)
    <3>1. at[i] = NextScalar(key, at[i - 1], data[i], i)
      BY <1>1
    <3> QED BY <3>1 DEF NextScalar
  <2> HIDE DEF f, plain
  <2> QED BY <2>1, <2>3, <2>4, MixedTwice
<1>11. plain = data
  <2>1. data = [i \in 1 .. n |-> data[i]]
    BY LenProperties
  <2> QED BY <1>10, <2>1
<1> HIDE DEF plain, sent
<1> QED BY <1>2, <1>3, <1>4, <1>5, <1>6, <1>9, <1>11

--------------------------------------------------------------------------------
(* Values written one after the other, and read again.                     *)

\* how a sequence of sequences is put together
LEMMA Flattened ==
  ASSUME NEW S, NEW q \in Seq(Seq(S))
  PROVE  \E f \in [0 .. Len(q) -> Seq(S)] :
            /\ f[0] = <<>> /\ FlattenSeq(q) = f[Len(q)]
            /\ \A i \in 1 .. Len(q) : f[i] = f[i - 1] \o q[i]
<1> DEFINE n == Len(q)
           F == [i \in 1 .. n |-> [x \in Seq(S) |-> x \o q[i]]]
<1>1. n \in Nat /\ \A i \in 1 .. n : q[i] \in Seq(S)
  BY LenProperties, ElementOfSeq
<1>2. F \in [1 .. n -> [Seq(S) -> Seq(S)]] /\ <<>> \in Seq(S)
  BY <1>1, ConcatProperties, EmptySeq
<1>3. PICK g \in [0 .. n -> Seq(S)] : Runs(g, n, <<>>, F)
  <2> HIDE DEF F, n
  <2> QED BY <1>1, <1>2, Recursion
<1>4. g[0] = <<>> /\ \A i \in 1 .. n : g[i] = g[i - 1] \o q[i]
  <2>1. \A i \in 1 .. n : i - 1 \in 0 .. n
    BY <1>1
  <2>2. \A i \in 1 .. n : g[i - 1] \in Seq(S)
    BY <1>3, <2>1
  <2>3. g[0] = <<>> /\ \A i \in 1 .. n : g[i] = F[i][g[i - 1]]
    BY <1>3 DEF Runs
  <2> QED BY <2>2, <2>3
<1>5. ASSUME n # 0 PROVE g[1] = q[1]
  <2>1. 1 \in 1 .. n /\ 1 - 1 = 0
    BY <1>1, <1>5
  <2>2. g[1] = <<>> \o q[1] /\ q[1] \in Seq(S)
    <3>1. g[1] = g[1 - 1] \o q[1]
      BY <1>4, <2>1
    <3> HIDE DEF n
    <3> QED BY <1>1, <1>4, <2>1, <3>1
  <2> QED BY <2>2, ConcatEmptySeq
<1>6. FlattenSeq(q) = g[n]
  <2>1. CASE n = 0
    BY <1>1, <1>4, <2>1, EmptySeq DEF FlattenSeq
  <2>2. CASE n # 0
    <3> DEFINE Body(h) == [i \in 1 .. n |-> IF i = 1 THEN q[i] ELSE h[i - 1] \o q[i]]
               P(h) == h = Body(h)
               flat == CHOOSE h : P(h)
               known == [i \in 1 .. n |-> g[i]]
    <3>1. FlattenSeq(q) = flat[n]
      BY <2>2 DEF FlattenSeq
    <3>2. P(known)
      <4>1. \A i \in 1 .. n : g[i] = IF i = 1 THEN q[i] ELSE known[i - 1] \o q[i]
        <5> SUFFICES ASSUME NEW i \in 1 .. n
                     PROVE  g[i] = IF i = 1 THEN q[i] ELSE known[i - 1] \o q[i]
          OBVIOUS
        <5>1. i = 1 => g[i] = q[i]
          BY <1>5, <2>2
        <5>2. i # 1 => i - 1 \in 1 .. n
          BY <1>1
        <5> HIDE DEF n
        <5> QED BY <1>4, <5>1, <5>2
      <4> QED BY <4>1
    <3> HIDE DEF P, flat
    <3>3. P(flat)
      BY <3>2 DEF flat
    <3>4. flat = Body(flat)
      BY <3>3 DEF P
    <3>5. \A i \in 1 .. n : flat[i] = IF i = 1 THEN q[i] ELSE flat[i - 1] \o q[i]
      BY <3>4
    <3> DEFINE Same == {i \in 0 .. n : i = 0 \/ flat[i] = g[i]}
    <3>6. 0 \in Same
      BY <1>1
    <3>7. ASSUME NEW i \in 1 .. n, i - 1 \in Same PROVE i \in Same
      <4>1. i \in 0 .. n /\ (i = 1 \/ (i # 1 /\ i - 1 # 0))
        BY <1>1
      <4>2. CASE i = 1
        <5>1. 1 \in 1 .. n
          BY <4>2
        <5>2. flat[1] = q[1]
          BY <3>5, <5>1
        <5> QED BY <1>5, <2>2, <4>1, <4>2, <5>2
      <4>3. CASE i # 1
        <5>1. flat[i - 1] = g[i - 1]
          BY <3>7, <4>1, <4>3
        <5> QED BY <1>4, <3>5, <4>1, <4>3, <5>1
      <4> QED BY <4>2, <4>3
    <3> HIDE DEF Same, n
    <3>8. \A i \in 0 .. n : i \in Same
      BY <1>1, <3>6, <3>7, UpTo
    <3>9. n \in 0 .. n
      BY <1>1
    <3> QED BY <2>2, <3>1, <3>8, <3>9 DEF Same
  <2> QED BY <2>1, <2>2
<1> QED BY <1>3, <1>4, <1>6

LEMMA GetFields ==
  ASSUME NEW m \in MessageValues, NEW size \in Nat
  PROVE  /\ Get(m, size) \in MessageValues
         /\ Get(m, size).mbEncoded = m.mbEncoded /\ Get(m, size).freed = m.freed
         /\ size <= Len(m.data) =>
              /\ Len(Get(m, size).data) = Len(m.data) - size
              /\ \A j \in 1 .. Len(m.data) - size : Get(m, size).data[j] = m.data[size + j]
              /\ Len(FrontBytes(m, size)) = size /\ FrontBytes(m, size) \in Seq(Byte)
              /\ \A j \in 1 .. size : FrontBytes(m, size)[j] = m.data[j]
<1> DEFINE len == Len(m.data)
           rest == SubSeq(m.data, size + 1, len)
           front == SubSeq(m.data, 1, size)
<1>1. /\ m.data \in Seq(Byte) /\ len \in Nat /\ m.room \in Nat /\ m.mCapacity \in Nat
      /\ m.mbEncoded \in BOOLEAN /\ m.freed \in BOOLEAN
      /\ \A i \in 1 .. len : m.data[i] \in Byte
  <2>1. m.data \in Seq(Byte)
    BY DEF MessageValues
  <2> QED BY <2>1, LenProperties, ElementOfSeq DEF MessageValues
<1>2. Get(m, size) = [data |-> rest, room |-> m.room + size, mCapacity |-> m.mCapacity,
                      mbEncoded |-> m.mbEncoded, freed |-> m.freed]
  <2>1. /\ m = [data |-> m.data, room |-> m.room, mCapacity |-> m.mCapacity,
                mbEncoded |-> m.mbEncoded, freed |-> m.freed]
        /\ Get(m, size) = [m EXCEPT !.data = rest, !.room = m.room + size]
    BY DEF Get, MessageValues
  <2> HIDE DEF rest
  <2> DEFINE d == m.data  r == m.room  c == m.mCapacity  e == m.mbEncoded  h == m.freed
             room == m.room + size
  <2>2. m = [data |-> d, room |-> r, mCapacity |-> c, mbEncoded |-> e, freed |-> h]
        /\ Get(m, size) = [m EXCEPT !.data = rest, !.room = room]
    BY <2>1
  <2> HIDE DEF d, r, c, e, h, room
  <2>3. Get(m, size) = [data |-> rest, room |-> room, mCapacity |-> c, mbEncoded |-> e,
                        freed |-> h]
    BY <2>2
  <2> QED BY <2>3 DEF room, c, e, h
<1>3. /\ rest \in Seq(Byte)
      /\ Len(rest) = IF size + 1 <= len THEN len - (size + 1) + 1 ELSE 0
      /\ \A i \in 1 .. len - (size + 1) + 1 : rest[i] = m.data[size + 1 + i - 1]
  <2>1. size + 1 \in Int /\ len \in Int /\ \A i \in size + 1 .. len : i \in 1 .. len
    BY <1>1
  <2>2. \A i \in size + 1 .. len : m.data[i] \in Byte
    BY <1>1, <2>1
  <2> HIDE DEF len
  <2> QED BY <2>1, <2>2, SubSeqProperties
<1>4. m.room + size \in Nat
  BY <1>1
<1>5. ASSUME size <= len
      PROVE  Len(rest) = len - size /\ \A j \in 1 .. len - size : rest[j] = m.data[size + j]
  <2> HIDE DEF rest, len
  <2>1. /\ len - (size + 1) + 1 = len - size
        /\ (IF size + 1 <= len THEN len - (size + 1) + 1 ELSE 0) = len - size
        /\ \A j \in 1 .. len - size : size + 1 + j - 1 = size + j
    BY <1>1, <1>5
  <2> QED BY <1>3, <2>1
<1>6. ASSUME size <= len
      PROVE  /\ Len(front) = size /\ front \in Seq(Byte)
             /\ \A j \in 1 .. size : front[j] = m.data[j]
  <2>1. /\ 1 \in Int /\ size \in Int /\ \A i \in 1 .. size : i \in 1 .. len
        /\ size - 1 + 1 = size /\ (IF 1 <= size THEN size - 1 + 1 ELSE 0) = size
        /\ \A j \in 1 .. size : 1 + j - 1 = j
    BY <1>1, <1>6
  <2>2. \A i \in 1 .. size : m.data[i] \in Byte
    BY <1>1, <2>1
  <2>3. /\ front \in Seq(Byte)
        /\ Len(front) = IF 1 <= size THEN size - 1 + 1 ELSE 0
        /\ \A i \in 1 .. size - 1 + 1 : front[i] = m.data[1 + i - 1]
    <3> HIDE DEF len
    <3> QED BY <2>1, <2>2, SubSeqProperties
  <2> HIDE DEF front, len
  <2> QED BY <2>1, <2>3
<1> HIDE DEF rest, front, len
<1>7. Get(m, size) \in MessageValues
  BY <1>1, <1>2, <1>3, <1>4 DEF MessageValues
<1> QED BY <1>2, <1>5, <1>6, <1>7 DEF FrontBytes, len, front

LEMMA StillAtMost ==
  ASSUME NEW a \in Nat, NEW b \in Nat, NEW c \in Nat, a <= b
  PROVE  a <= b + c
OBVIOUS

\* what is put together up to a value begins what is put together
LEMMA Together ==
  ASSUME NEW S, NEW q \in Seq(Seq(S))
  PROVE  \E f \in [0 .. Len(q) -> Seq(S)] :
            /\ f[0] = <<>> /\ FlattenSeq(q) = f[Len(q)]
            /\ \A i \in 1 .. Len(q) :
                /\ Len(f[i]) = Len(f[i - 1]) + Len(q[i])
                /\ \A j \in 1 .. Len(q[i]) : f[i][Len(f[i - 1]) + j] = q[i][j]
            /\ \A i \in 0 .. Len(q) :
                /\ Len(f[i]) <= Len(f[Len(q)])
                /\ \A j \in 1 .. Len(f[i]) : f[Len(q)][j] = f[i][j]
<1> DEFINE n == Len(q)
<1>0. PICK f \in [0 .. n -> Seq(S)] :
          /\ f[0] = <<>> /\ FlattenSeq(q) = f[n]
          /\ \A i \in 1 .. n : f[i] = f[i - 1] \o q[i]
  BY Flattened
<1>1. n \in Nat /\ \A i \in 1 .. n : q[i] \in Seq(S) /\ i \in 0 .. n /\ i - 1 \in 0 .. n
  <2>1. n \in Nat
    BY LenProperties
  <2> QED BY <2>1, ElementOfSeq
<1>2. \A i \in 0 .. n : Len(f[i]) \in Nat
  BY LenProperties
<1>3. ASSUME NEW i \in 1 .. n
      PROVE  /\ Len(f[i]) = Len(f[i - 1]) + Len(q[i]) /\ Len(q[i]) \in Nat
             /\ \A j \in 1 .. Len(f[i - 1]) : f[i][j] = f[i - 1][j]
             /\ \A j \in 1 .. Len(q[i]) : f[i][Len(f[i - 1]) + j] = q[i][j]
  <2> DEFINE a == f[i - 1]
             b == q[i]
  <2>1. a \in Seq(S) /\ b \in Seq(S) /\ f[i] = a \o b
    BY <1>0, <1>1
  <2> HIDE DEF a, b, n
  <2>2. Len(a) \in Nat /\ Len(b) \in Nat
    BY <2>1, LenProperties
  <2>3. /\ Len(a \o b) = Len(a) + Len(b)
        /\ \A j \in 1 .. Len(a) + Len(b) :
                (a \o b)[j] = IF j <= Len(a) THEN a[j] ELSE b[j - Len(a)]
    BY <2>1, ConcatProperties
  <2>4. \A j \in 1 .. Len(a) : (a \o b)[j] = a[j]
    BY <2>2, <2>3
  <2>5. ASSUME NEW j \in 1 .. Len(b) PROVE (a \o b)[Len(a) + j] = b[j]
    <3>1. /\ Len(a) + j \in 1 .. Len(a) + Len(b) /\ ~ (Len(a) + j <= Len(a))
          /\ Len(a) + j - Len(a) = j
      BY <2>2
    <3> QED BY <2>3, <3>1
  <2> QED BY <2>1, <2>2, <2>3, <2>4, <2>5 DEF a, b
<1>4. ASSUME NEW i \in 0 .. n
      PROVE  Len(f[i]) <= Len(f[n]) /\ \A j \in 1 .. Len(f[i]) : f[n][j] = f[i][j]
  <2> DEFINE From == {k \in 0 .. n : i <= k => Len(f[i]) <= Len(f[k])
                                     /\ \A j \in 1 .. Len(f[i]) : f[k][j] = f[i][j]}
  <2>1. 0 \in From
    <3>1. i <= 0 => i = 0
      BY <1>1
    <3> QED BY <1>1, <1>2, <3>1
  <2>2. ASSUME NEW k \in 1 .. n, k - 1 \in From PROVE k \in From
    <3>1. CASE i = k
      BY <1>1, <1>2, <3>1
    <3>2. CASE i # k /\ i <= k
      <4>1. /\ k - 1 \in 0 .. n /\ i <= k - 1 /\ k \in 0 .. n
        BY <1>1, <3>2
      <4>2. Len(f[i]) <= Len(f[k - 1]) /\ \A j \in 1 .. Len(f[i]) : f[k - 1][j] = f[i][j]
        BY <2>2, <4>1
      <4>3. /\ Len(f[i]) \in Nat /\ Len(f[k - 1]) \in Nat
            /\ Len(f[k]) = Len(f[k - 1]) + Len(q[k]) /\ Len(q[k]) \in Nat
            /\ \A j \in 1 .. Len(f[k - 1]) : f[k][j] = f[k - 1][j]
        BY <1>2, <1>3, <4>1
      <4> HIDE DEF n
      <4>4. Len(f[i]) <= Len(f[k])
        BY <4>2, <4>3, StillAtMost
      <4>5. \A j \in 1 .. Len(f[i]) : j \in 1 .. Len(f[k - 1])
        BY <4>2, <4>3
      <4> QED BY <4>1, <4>2, <4>3, <4>4, <4>5
    <3>3. CASE ~ (i <= k)
      BY <1>1, <3>3
    <3> QED BY <3>1, <3>2, <3>3
  <2>3. n \in 0 .. n /\ i <= n
    BY <1>1
  <2> HIDE DEF From, n
  <2>4. \A k \in 0 .. n : k \in From
    BY <1>1, <2>1, <2>2, UpTo
  <2> QED BY <2>3, <2>4 DEF From
<1> QED BY <1>0, <1>3, <1>4

\* Reading as many bytes as each value has, one after the other, gives the values
\* that the bytes were put together from (Message's operator>> and Read, after its
\* operator<< and Write).
THEOREM ReadBack ==
  ASSUME NEW m \in MessageValues, NEW q \in Seq(Seq(Byte)), m.data = FlattenSeq(q)
  PROVE  LET r == Read(m, [i \in DOMAIN q |-> Len(q[i])])
         IN /\ r.values = q
            /\ r.m \in MessageValues /\ r.m.mbEncoded = m.mbEncoded /\ r.m.freed = m.freed
<1> DEFINE n == Len(q)
           widths == [i \in DOMAIN q |-> Len(q[i])]
           Body(g) == [i \in 0 .. n |-> IF i = 0 THEN m ELSE Get(g[i - 1], widths[i])]
           F == [i \in 1 .. n |-> [x \in MessageValues |-> Get(x, widths[i])]]
           P(g) == g = Body(g)
           at == CHOOSE g : P(g)
           values == [i \in 1 .. n |-> FrontBytes(at[i - 1], widths[i])]
<1>1. /\ n \in Nat /\ DOMAIN q = 1 .. n
      /\ \A i \in 1 .. n : q[i] \in Seq(Byte) /\ widths[i] = Len(q[i]) /\ widths[i] \in Nat
  <2>1. n \in Nat /\ DOMAIN q = 1 .. n
    BY LenProperties
  <2>2. \A i \in 1 .. n : q[i] \in Seq(Byte) /\ Len(q[i]) \in Nat
    BY <2>1, ElementOfSeq, LenProperties
  <2> HIDE DEF n
  <2> QED BY <2>1, <2>2
<1>2. /\ n \in Nat /\ 0 \in 0 .. n /\ n \in 0 .. n
      /\ \A i \in 1 .. n : i - 1 \in 0 .. n /\ i \in 0 .. n /\ i # 0
  BY <1>1
<1>3. widths \in [1 .. n -> Nat] /\ Len(widths) = n /\ DOMAIN widths = 1 .. n
  <2>1. widths \in [1 .. n -> Nat]
    BY <1>1
  <2> HIDE DEF widths, n
  <2> QED BY <1>1, <2>1, ArrayIsSeq
<1>4. Read(m, widths) = [m |-> at[n], values |-> values]
  <2> HIDE DEF widths, n
  <2> QED BY <1>3 DEF Read
<1> HIDE DEF widths
<1>5. F \in [1 .. n -> [MessageValues -> MessageValues]]
  BY <1>3, GetFields
<1>6. PICK g \in [0 .. n -> MessageValues] : Runs(g, n, m, F)
  <2> HIDE DEF F, n
  <2> QED BY <1>1, <1>5, Recursion
<1>7. P(g)
  <2>1. \A i \in 0 .. n : g[i] = IF i = 0 THEN m ELSE Get(g[i - 1], widths[i])
    <3> SUFFICES ASSUME NEW i \in 0 .. n
                 PROVE  g[i] = IF i = 0 THEN m ELSE Get(g[i - 1], widths[i])
      OBVIOUS
    <3>1. i = 0 \/ (i # 0 /\ i \in 1 .. n /\ i - 1 \in 0 .. n)
      BY <1>1
    <3>2. g[0] = m /\ \A j \in 1 .. n : g[j] = F[j][g[j - 1]]
      BY <1>6 DEF Runs
    <3>3. ASSUME i \in 1 .. n PROVE F[i][g[i - 1]] = Get(g[i - 1], widths[i])
      <4>1. g[i - 1] \in MessageValues
        <5>1. i - 1 \in 0 .. n
          BY <1>2, <3>3
        <5> HIDE DEF n, F
        <5> QED BY <1>6, <5>1
      <4>2. F[i] = [x \in MessageValues |-> Get(x, widths[i])]
        BY <3>3
      <4> QED BY <4>1, <4>2
    <3> HIDE DEF F, n
    <3> QED BY <3>1, <3>2, <3>3
  <2> QED BY <2>1
<1> HIDE DEF P, at
<1>8. P(at)
  BY <1>7 DEF at
<1>9. at[0] = m /\ \A i \in 1 .. n : at[i] = Get(at[i - 1], widths[i])
  <2>1. at = Body(at)
    BY <1>8 DEF P
  <2> QED BY <1>2, <2>1
<1>10. PICK f \in [0 .. n -> Seq(Byte)] :
          /\ f[0] = <<>> /\ m.data = f[n]
          /\ \A i \in 1 .. n :
                /\ Len(f[i]) = Len(f[i - 1]) + Len(q[i])
                /\ \A j \in 1 .. Len(q[i]) : f[i][Len(f[i - 1]) + j] = q[i][j]
          /\ \A i \in 0 .. n :
                /\ Len(f[i]) <= Len(f[n])
                /\ \A j \in 1 .. Len(f[i]) : f[n][j] = f[i][j]
  BY Together
<1>11. \A i \in 0 .. n : f[i] \in Seq(Byte) /\ Len(f[i]) \in Nat
  BY <1>10, LenProperties
<1>12. Len(f[0]) = 0
  BY <1>10
<1> DEFINE Left(i) == /\ at[i] \in MessageValues
                      /\ at[i].mbEncoded = m.mbEncoded /\ at[i].freed = m.freed
                      /\ Len(at[i].data) = Len(f[n]) - Len(f[i])
                      /\ \A j \in 1 .. Len(f[n]) - Len(f[i]) : at[i].data[j] = f[n][Len(f[i]) + j]
<1> HIDE DEF n
<1>13. Left(0)
  <2>1. Len(f[n]) - 0 = Len(f[n]) /\ \A j \in 1 .. Len(f[n]) : 0 + j = j
    BY <1>2, <1>11
  <2> QED BY <1>9, <1>10, <1>12, <2>1
<1>14. ASSUME NEW i \in 1 .. n, Left(i - 1)
       PROVE  /\ Left(i)
              /\ FrontBytes(at[i - 1], widths[i]) = q[i]
  <2> DEFINE x == at[i - 1]
             w == Len(q[i])
             N == Len(f[n])
             A == Len(f[i - 1])
             B == Len(f[i])
             front == FrontBytes(x, w)
  <2>1. /\ x \in MessageValues /\ x.mbEncoded = m.mbEncoded /\ x.freed = m.freed
        /\ Len(x.data) = N - A
        /\ \A j \in 1 .. N - A : x.data[j] = f[n][A + j]
    BY <1>14
  <2>2. /\ w \in Nat /\ N \in Nat /\ A \in Nat /\ B \in Nat
        /\ B = A + w /\ A <= N /\ B <= N
        /\ q[i] \in Seq(Byte) /\ widths[i] = w
    BY <1>1, <1>2, <1>10, <1>11
  <2>3. /\ \A j \in 1 .. w : f[i][A + j] = q[i][j]
        /\ \A j \in 1 .. B : f[n][j] = f[i][j]
    BY <1>2, <1>10
  <2>4. at[i] = Get(x, w)
    BY <1>9, <2>2
  <2> HIDE DEF x, w, N, A, B, front
  <2>5. /\ w <= N - A /\ N - A - w = N - B
        /\ \A j \in 1 .. N - B : w + j \in 1 .. N - A /\ A + (w + j) = B + j
        /\ \A j \in 1 .. w : j \in 1 .. N - A /\ A + j \in 1 .. B
    BY <2>2
  <2>6. /\ Get(x, w) \in MessageValues /\ Get(x, w).mbEncoded = x.mbEncoded
        /\ Get(x, w).freed = x.freed
        /\ Len(Get(x, w).data) = N - A - w
        /\ \A j \in 1 .. N - A - w : Get(x, w).data[j] = x.data[w + j]
        /\ Len(front) = w /\ front \in Seq(Byte) /\ \A j \in 1 .. w : front[j] = x.data[j]
    <3>1. /\ Get(x, w) \in MessageValues /\ Get(x, w).mbEncoded = x.mbEncoded
          /\ Get(x, w).freed = x.freed
          /\ w <= Len(x.data) =>
               /\ Len(Get(x, w).data) = Len(x.data) - w
               /\ \A j \in 1 .. Len(x.data) - w : Get(x, w).data[j] = x.data[w + j]
               /\ Len(front) = w /\ front \in Seq(Byte) /\ \A j \in 1 .. w : front[j] = x.data[j]
      BY <2>1, <2>2, GetFields, Zenon DEF front
    <3> QED BY <2>1, <2>5, <3>1, Zenon
  <2>7. ASSUME NEW j \in 1 .. w PROVE front[j] = q[i][j]
    <3>1. front[j] = x.data[j] /\ x.data[j] = f[n][A + j]
      BY <2>1, <2>5, <2>6
    <3>2. f[n][A + j] = f[i][A + j] /\ f[i][A + j] = q[i][j]
      BY <2>3, <2>5
    <3> QED BY <3>1, <3>2
  <2>8. front = q[i]
    BY <2>2, <2>6, <2>7, SeqEqual DEF w
  <2>9. /\ Len(Get(x, w).data) = N - B
        /\ \A j \in 1 .. N - B : Get(x, w).data[j] = f[n][B + j]
    BY <2>1, <2>5, <2>6
  <2>10. Left(i)
    BY <2>1, <2>4, <2>6, <2>9 DEF B, N
  <2> QED BY <2>2, <2>8, <2>10 DEF front, x
<1> DEFINE S == {i \in 0 .. n : Left(i)}
<1>15. 0 \in S
  BY <1>2, <1>13
<1>16. \A i \in 1 .. n : i - 1 \in S => i \in S
  BY <1>2, <1>14
<1> HIDE DEF Left
<1>17. \A i \in 0 .. n : Left(i)
  <2> HIDE DEF S
  <2>1. \A i \in 0 .. n : i \in S
    BY <1>2, <1>15, <1>16, UpTo
  <2> QED BY <2>1 DEF S
<1>18. values = q
  <2>1. q = [i \in 1 .. n |-> q[i]]
    BY <1>1 DEF n
  <2>2. \A i \in 1 .. n : FrontBytes(at[i - 1], widths[i]) = q[i]
    BY <1>2, <1>14, <1>17
  <2> QED BY <2>1, <2>2
<1>19. at[n] \in MessageValues /\ at[n].mbEncoded = m.mbEncoded /\ at[n].freed = m.freed
  BY <1>2, <1>17 DEF Left
<1> HIDE DEF values
<1> QED BY <1>4, <1>18, <1>19 DEF widths

LEMMA PutFields ==
  ASSUME NEW m \in MessageValues, NEW bytes \in Seq(Byte)
  PROVE  /\ Put(m, bytes) \in MessageValues
         /\ Put(m, bytes).data = m.data \o bytes /\ Put(m, bytes).mbEncoded = m.mbEncoded
         /\ ~ Put(m, bytes).freed => ~ m.freed /\ Put(m, bytes).room = m.room
<1> DEFINE capacity == m.mCapacity * 2
<1>1. /\ m.data \in Seq(Byte) /\ m.room \in Nat /\ m.mCapacity \in Nat
      /\ m.mbEncoded \in BOOLEAN /\ m.freed \in BOOLEAN
      /\ m = [data |-> m.data, room |-> m.room, mCapacity |-> m.mCapacity,
              mbEncoded |-> m.mbEncoded, freed |-> m.freed]
  BY DEF MessageValues
<1>2. capacity \in Nat
  BY <1>1
<1>3. m.data \o bytes \in Seq(Byte)
  BY <1>1, ConcatProperties
<1> HIDE DEF capacity
<1> DEFINE grown == Reserve(m, capacity)
           into == IF getEnquableSize(m) < Len(bytes) THEN grown ELSE m
           data == m.data \o bytes
<1>4. /\ grown \in MessageValues /\ grown.mbEncoded = m.mbEncoded
      /\ grown = m \/ grown.freed
  <2>1. CASE capacity <= m.mCapacity
    BY <2>1 DEF Reserve
  <2>2. CASE ~ (capacity <= m.mCapacity)
    <3>1. grown = [m EXCEPT !.mCapacity = capacity, !.room = 0, !.freed = TRUE]
      BY <2>2 DEF Reserve
    <3> HIDE DEF grown
    <3> QED BY <1>2, <3>1 DEF MessageValues
  <2> QED BY <2>1, <2>2
<1> HIDE DEF grown
<1>5. /\ into \in MessageValues /\ into.mbEncoded = m.mbEncoded
      /\ ~ into.freed => into = m
  BY <1>4
<1>6. Put(m, bytes) = [into EXCEPT !.data = data]
  BY DEF Put, grown, capacity
<1> HIDE DEF into, data
<1>7. /\ [into EXCEPT !.data = data] \in MessageValues
      /\ [into EXCEPT !.data = data].data = data
      /\ [into EXCEPT !.data = data].mbEncoded = into.mbEncoded
      /\ [into EXCEPT !.data = data].freed = into.freed
      /\ [into EXCEPT !.data = data].room = into.room
  BY <1>3, <1>5 DEF MessageValues, data
<1> QED BY <1>5, <1>6, <1>7 DEF data

\* values written into an empty message are put together
LEMMA PutAllTogether ==
  ASSUME NEW m \in MessageValues, NEW q \in Seq(Seq(Byte)), m.data = <<>>
  PROVE  LET r == PutAll(m, q)
         IN /\ r \in MessageValues /\ r.data = FlattenSeq(q) /\ r.mbEncoded = m.mbEncoded
            /\ ~ r.freed => r.room = m.room
<1> DEFINE n == Len(q)
           Body(g) == [i \in 0 .. n |-> IF i = 0 THEN m ELSE Put(g[i - 1], q[i])]
           F == [i \in 1 .. n |-> [x \in MessageValues |-> Put(x, q[i])]]
           P(g) == g = Body(g)
           at == CHOOSE g : P(g)
<1>1. n \in Nat /\ \A i \in 1 .. n : q[i] \in Seq(Byte)
  BY LenProperties, ElementOfSeq
<1>2. /\ n \in Nat /\ 0 \in 0 .. n /\ n \in 0 .. n
      /\ \A i \in 1 .. n : i - 1 \in 0 .. n /\ i \in 0 .. n /\ i # 0
  BY <1>1
<1>3. PutAll(m, q) = at[n]
  BY DEF PutAll
<1>4. F \in [1 .. n -> [MessageValues -> MessageValues]]
  BY <1>1, PutFields
<1>5. PICK g \in [0 .. n -> MessageValues] : Runs(g, n, m, F)
  <2> HIDE DEF F, n
  <2> QED BY <1>1, <1>4, Recursion
<1>6. P(g)
  <2>1. \A i \in 0 .. n : g[i] = IF i = 0 THEN m ELSE Put(g[i - 1], q[i])
    <3> SUFFICES ASSUME NEW i \in 0 .. n
                 PROVE  g[i] = IF i = 0 THEN m ELSE Put(g[i - 1], q[i])
      OBVIOUS
    <3>1. i = 0 \/ (i # 0 /\ i \in 1 .. n /\ i - 1 \in 0 .. n)
      BY <1>1
    <3>2. g[0] = m /\ \A j \in 1 .. n : g[j] = F[j][g[j - 1]]
      BY <1>5 DEF Runs
    <3>3. ASSUME i \in 1 .. n PROVE F[i][g[i - 1]] = Put(g[i - 1], q[i])
      <4>1. g[i - 1] \in MessageValues
        <5>1. i - 1 \in 0 .. n
          BY <1>2, <3>3
        <5> HIDE DEF n, F
        <5> QED BY <1>5, <5>1
      <4>2. F[i] = [x \in MessageValues |-> Put(x, q[i])]
        BY <3>3
      <4> QED BY <4>1, <4>2
    <3> HIDE DEF F, n
    <3> QED BY <3>1, <3>2, <3>3
  <2> QED BY <2>1
<1> HIDE DEF P, at
<1>7. P(at)
  BY <1>6 DEF at
<1>8. at[0] = m /\ \A i \in 1 .. n : at[i] = Put(at[i - 1], q[i])
  <2>1. at = Body(at)
    BY <1>7 DEF P
  <2> QED BY <1>2, <2>1
<1>9. PICK f \in [0 .. n -> Seq(Byte)] :
          /\ f[0] = <<>> /\ FlattenSeq(q) = f[n]
          /\ \A i \in 1 .. n : f[i] = f[i - 1] \o q[i]
  BY Flattened
<1> DEFINE Wrote(i) == /\ at[i] \in MessageValues /\ at[i].data = f[i]
                       /\ at[i].mbEncoded = m.mbEncoded
                       /\ ~ at[i].freed => at[i].room = m.room
           S == {i \in 0 .. n : Wrote(i)}
<1> HIDE DEF n
<1>10. 0 \in S
  BY <1>2, <1>8, <1>9
<1>11. ASSUME NEW i \in 1 .. n, i - 1 \in S PROVE i \in S
  <2> DEFINE x == at[i - 1]
             y == Put(x, q[i])
  <2>1. /\ x \in MessageValues /\ x.data = f[i - 1] /\ x.mbEncoded = m.mbEncoded
        /\ ~ x.freed => x.room = m.room
    BY <1>11
  <2>2. at[i] = y /\ f[i] = f[i - 1] \o q[i] /\ i \in 0 .. n /\ q[i] \in Seq(Byte)
    BY <1>1, <1>2, <1>8, <1>9 DEF n
  <2> HIDE DEF x
  <2>3. /\ y \in MessageValues /\ y.data = x.data \o q[i] /\ y.mbEncoded = x.mbEncoded
        /\ ~ y.freed => ~ x.freed /\ y.room = x.room
    BY <2>1, <2>2, PutFields
  <2> HIDE DEF y
  <2> QED BY <2>1, <2>2, <2>3
<1> HIDE DEF S
<1>12. \A i \in 0 .. n : i \in S
  BY <1>2, <1>10, <1>11, UpTo
<1>13. Wrote(n)
  BY <1>2, <1>12 DEF S
<1> QED BY <1>3, <1>9, <1>13

--------------------------------------------------------------------------------
(* Queues, and who has a message.                                          *)

LEMMA AppendSet ==
  ASSUME NEW S, NEW q \in Seq(S), NEW e \in S
  PROVE  /\ Append(q, e) \in Seq(S) /\ ToSet(Append(q, e)) = ToSet(q) \cup {e}
         /\ Single(q) /\ e \notin ToSet(q) => Single(Append(q, e))
<1> DEFINE a == Append(q, e)
           n == Len(q)
<1>1. /\ a \in Seq(S) /\ Len(a) = n + 1 /\ \A i \in 1 .. n : a[i] = q[i]
      /\ a[n + 1] = e /\ n \in Nat /\ DOMAIN a = 1 .. n + 1 /\ DOMAIN q = 1 .. n
  <2>1. /\ a \in Seq(S) /\ Len(a) = n + 1 /\ \A i \in 1 .. n : a[i] = q[i] /\ a[n + 1] = e
    BY AppendProperties
  <2> HIDE DEF a
  <2> QED BY <2>1, AppendProperties, LenProperties DEF a
<1> HIDE DEF a
<1>2. \A i \in 1 .. n + 1 : i \in 1 .. n \/ i = n + 1
  BY <1>1
<1>3. \A i \in 1 .. n : i \in 1 .. n + 1 /\ n + 1 \in 1 .. n + 1
  BY <1>1
<1>4. n + 1 \in 1 .. n + 1
  BY <1>1
<1> HIDE DEF n
<1>5. ToSet(a) = ToSet(q) \cup {e}
  BY <1>1, <1>2, <1>3, <1>4 DEF ToSet
<1>6. ASSUME Single(q), e \notin ToSet(q) PROVE Single(a)
  <2>1. \A i, j \in 1 .. n : q[i] = q[j] => i = j
    BY <1>6 DEF Single, n
  <2>2. \A i \in 1 .. n : q[i] # e
    BY <1>1, <1>6 DEF ToSet
  <2> QED BY <1>1, <1>2, <2>1, <2>2 DEF Single
<1> QED BY <1>1, <1>5, <1>6 DEF a

LEMMA TailSet ==
  ASSUME NEW S, NEW q \in Seq(S), q # <<>>, Single(q)
  PROVE  /\ Head(q) \in S /\ Head(q) \in ToSet(q)
         /\ Tail(q) \in Seq(S) /\ Single(Tail(q)) /\ ToSet(Tail(q)) = ToSet(q) \ {Head(q)}
<1> DEFINE t == Tail(q)
           n == Len(q)
<1>1. /\ Head(q) \in S /\ t \in Seq(S) /\ Len(t) = n - 1
      /\ \A i \in 1 .. Len(t) : t[i] = q[i + 1]
  BY HeadTailProperties
<1>2. /\ n \in Nat /\ n # 0 /\ DOMAIN q = 1 .. n /\ Head(q) = q[1]
  BY LenProperties, EmptySeq
<1> HIDE DEF t
<1>3. DOMAIN t = 1 .. n - 1 /\ \A i \in 1 .. n - 1 : t[i] = q[i + 1]
  BY <1>1, LenProperties
<1>4. \A i, j \in 1 .. n : q[i] = q[j] => i = j
  BY DEF Single
<1> HIDE DEF n
<1>5. /\ 1 \in 1 .. n
      /\ \A i \in 1 .. n - 1 : i + 1 \in 1 .. n /\ i + 1 # 1
      /\ \A i, j \in 1 .. n - 1 : i + 1 = j + 1 => i = j
      /\ \A i \in 1 .. n : i = 1 \/ (i - 1 \in 1 .. n - 1 /\ i - 1 + 1 = i)
  BY <1>2
<1>6. Single(t)
  <2>1. ASSUME NEW i \in 1 .. n - 1, NEW j \in 1 .. n - 1, t[i] = t[j] PROVE i = j
    <3>1. q[i + 1] = q[j + 1] /\ i + 1 \in 1 .. n /\ j + 1 \in 1 .. n
      BY <1>3, <1>5, <2>1
    <3> QED BY <1>4, <1>5, <3>1
  <2> QED BY <1>1, <2>1 DEF Single
<1>7. ToSet(t) = ToSet(q) \ {Head(q)}
  <2>1. ASSUME NEW x \in ToSet(t) PROVE x \in ToSet(q) /\ x # Head(q)
    <3>1. PICK i \in 1 .. n - 1 : x = q[i + 1]
      BY <1>3 DEF ToSet
    <3> QED BY <1>2, <1>4, <1>5, <3>1 DEF ToSet
  <2>2. ASSUME NEW x \in ToSet(q), x # Head(q) PROVE x \in ToSet(t)
    <3>1. PICK i \in 1 .. n : x = q[i]
      BY <1>2 DEF ToSet
    <3>2. i - 1 \in 1 .. n - 1 /\ i - 1 + 1 = i
      BY <1>2, <1>5, <2>2, <3>1
    <3>3. t[i - 1] = x
      BY <1>3, <3>1, <3>2
    <3> QED BY <1>3, <3>2, <3>3 DEF ToSet
  <2> QED BY <2>1, <2>2
<1>8. Head(q) \in ToSet(q)
  BY <1>2, <1>5 DEF ToSet
<1> QED BY <1>1, <1>6, <1>7, <1>8 DEF t

\* in an inbox where every message is once, it is counted once
LEMMA CountInbox ==
  ASSUME NEW S, NEW q \in Seq(S), Single(q), NEW m
  PROVE  Cardinality({i \in DOMAIN q : q[i] = m}) = IF m \in ToSet(q) THEN 1 ELSE 0
<1> DEFINE at == {i \in DOMAIN q : q[i] = m}
<1>1. DOMAIN q = 1 .. Len(q)
  BY LenProperties
<1>2. CASE m \in ToSet(q)
  <2>1. PICK i \in DOMAIN q : q[i] = m
    BY <1>2 DEF ToSet
  <2>2. at = {i}
    BY <1>1, <2>1 DEF Single
  <2> QED BY <1>2, <2>2, FS_Singleton
<1>3. CASE m \notin ToSet(q)
  <2>1. at = {}
    BY <1>3 DEF ToSet
  <2> QED BY <1>3, <2>1, FS_EmptySet
<1> QED BY <1>2, <1>3

LEMMA SessionsCounted ==
  ASSUME NEW q, NEW m
  PROVE  /\ IsFiniteSet(Having(q, m)) /\ Cardinality(Having(q, m)) \in Nat
         /\ Cardinality(Having(q, m)) = 0 <=> \A s \in Sessions : m \notin ToSet(q[s])
<1> DEFINE has == {s \in Sessions : m \in ToSet(q[s])}
<1>1. IsFiniteSet(has)
  BY BroadcastAssumption, FS_Subset
<1>2. Cardinality(has) \in Nat /\ (Cardinality(has) = 0 <=> has = {})
  BY <1>1, FS_CardinalityType, FS_EmptySet
<1> QED BY <1>1, <1>2 DEF Having

\* a message without references is nowhere
LEMMA NoPlaces ==
  ASSUME NEW box, NEW i, NEW o, NEW q, NEW m
  PROVE  /\ PlacesOf(box, i, o, q, m) \in Nat
         /\ PlacesOf(box, i, o, q, m) = 0 <=>
                /\ m \notin ToSet(box) /\ m # i /\ m # o
                /\ \A s \in Sessions : m \notin ToSet(q[s])
<1> DEFINE c == Cardinality(Having(q, m))
           a == IF m \in ToSet(box) THEN 1 ELSE 0
           b == IF m \in {i, o} THEN 1 ELSE 0
<1>1. c \in Nat /\ (c = 0 <=> \A s \in Sessions : m \notin ToSet(q[s]))
  BY SessionsCounted
<1>2. a \in Nat /\ (a = 0 <=> m \notin ToSet(box)) /\ b \in Nat /\ (b = 0 <=> m # i /\ m # o)
  OBVIOUS
<1>3. PlacesOf(box, i, o, q, m) = a + b + c
  BY DEF PlacesOf
<1> HIDE DEF a, b, c
<1>4. a + b + c \in Nat /\ (a + b + c = 0 <=> a = 0 /\ b = 0 /\ c = 0)
  BY <1>1, <1>2
<1> QED BY <1>1, <1>2, <1>3, <1>4

\* the queue of one session changes
LEMMA OneQueueChanges ==
  ASSUME NEW q, NEW r, NEW m, NEW s \in Sessions, \A t \in Sessions : t # s => r[t] = q[t]
  PROVE  /\ (m \in ToSet(q[s]) <=> m \in ToSet(r[s])) => Having(r, m) = Having(q, m)
         /\ m \notin ToSet(q[s]) /\ m \in ToSet(r[s]) =>
                Cardinality(Having(r, m)) = Cardinality(Having(q, m)) + 1
         /\ m \in ToSet(q[s]) /\ m \notin ToSet(r[s]) =>
                Cardinality(Having(r, m)) + 1 = Cardinality(Having(q, m))
<1> DEFINE A == Having(q, m)
           B == Having(r, m)
<1>1. IsFiniteSet(A) /\ IsFiniteSet(B)
  BY SessionsCounted
<1>2. ASSUME m \in ToSet(q[s]) <=> m \in ToSet(r[s]) PROVE A = B
  BY <1>2 DEF Having
<1>3. ASSUME m \notin ToSet(q[s]), m \in ToSet(r[s])
      PROVE  Cardinality(B) = Cardinality(A) + 1
  <2>1. B = A \cup {s} /\ s \notin A
    BY <1>3 DEF Having
  <2> HIDE DEF A, B
  <2> QED BY <1>1, <2>1, FS_AddElement
<1>4. ASSUME m \in ToSet(q[s]), m \notin ToSet(r[s])
      PROVE  Cardinality(B) + 1 = Cardinality(A)
  <2>1. A = B \cup {s} /\ s \notin B
    BY <1>4 DEF Having
  <2> HIDE DEF A, B
  <2> QED BY <1>1, <2>1, FS_AddElement
<1> QED BY <1>2, <1>3, <1>4

LEMMA LeavesOneQueue ==
  ASSUME NEW q, NEW r, NEW m, NEW s \in Sessions, \A t \in Sessions : t # s => r[t] = q[t],
         m \in ToSet(q[s]), m \notin ToSet(r[s])
  PROVE  Cardinality(Having(r, m)) + 1 = Cardinality(Having(q, m))
BY OneQueueChanges

LEMMA SameForm ==
  ASSUME NEW m, msg'[m] = msg[m], written'[m] = written[m], header'[m] = header[m]
  PROVE  (Plain(m)' <=> Plain(m)) /\ (Packed(m)' <=> Packed(m)) /\ (Placed(m)' <=> Placed(m))
BY DEF Plain, Packed, Placed

\* what goes back to the pool is as good as new
LEMMA ClearedIsBlank ==
  ASSUME NEW m \in MessageValues
  PROVE  LET v == [Clear(m) EXCEPT !.mbEncoded = FALSE]
         IN v \in MessageValues /\ Blanked(v)
<1> DEFINE d == m.data  r == m.room  c == m.mCapacity  e == m.mbEncoded  h == m.freed
           w == Clear(m)
           v == [w EXCEPT !.mbEncoded = FALSE]
           new == Blank
           u == [new EXCEPT !.mCapacity = c, !.freed = h]
<1>1. /\ m = [data |-> d, room |-> r, mCapacity |-> c, mbEncoded |-> e, freed |-> h]
      /\ w = [m EXCEPT !.data = <<>>, !.room = 0]
      /\ c \in Nat /\ h \in BOOLEAN /\ <<>> \in Seq(Byte)
  BY EmptySeq DEF MessageValues, Clear
<1>2. new = [data |-> <<>>, room |-> 0, mCapacity |-> DEFAULT_SIZE, mbEncoded |-> FALSE,
             freed |-> FALSE]
  BY DEF Blank
<1>3. v = [w EXCEPT !.mbEncoded = FALSE] /\ u = [new EXCEPT !.mCapacity = c, !.freed = h]
  OBVIOUS
<1> HIDE DEF d, r, c, e, h, w, v, new, u
<1>4. w = [data |-> <<>>, room |-> 0, mCapacity |-> c, mbEncoded |-> e, freed |-> h]
  BY <1>1
<1>5. v = [data |-> <<>>, room |-> 0, mCapacity |-> c, mbEncoded |-> FALSE, freed |-> h]
  BY <1>3, <1>4
<1>6. u = v
  <2>1. u = [data |-> <<>>, room |-> 0, mCapacity |-> c, mbEncoded |-> FALSE, freed |-> h]
    BY <1>2, <1>3
  <2> QED BY <1>5, <2>1
<1>7. v \in MessageValues /\ v.mCapacity = c /\ v.freed = h
  BY <1>1, <1>5 DEF MessageValues
<1>8. v = [Blank EXCEPT !.mCapacity = c, !.freed = h]
  BY <1>3, <1>6 DEF new
<1>9. Blanked(v)
  BY <1>7, <1>8 DEF Blanked
<1> QED BY <1>7, <1>9 DEF v, w

\* when references are dropped
LEMMA Releasing ==
  ASSUME RelayTypes, PoolBlank, NEW ms \in SUBSET Messages, \A m \in ms : refs[m] # 0,
         Release(ms)
  PROVE  /\ msg' \in [Messages -> MessageValues] /\ refs' \in [Messages -> Nat]
         /\ written' \in [Messages -> Seq(Seq(Byte))] /\ header' = header
         /\ \A m \in ms : refs[m] = refs'[m] + 1
         /\ \A m \in Messages \ ms : refs'[m] = refs[m]
         /\ \A m \in Messages :
                refs'[m] # 0 => msg'[m] = msg[m] /\ written'[m] = written[m]
         /\ PoolBlank'
<1> DEFINE cleared(m) == [Clear(msg[m]) EXCEPT !.mbEncoded = FALSE]
<1>1. \A m \in Messages : refs[m] \in Nat /\ msg[m] \in MessageValues
                          /\ written[m] \in Seq(Seq(Byte)) /\ <<>> \in Seq(Seq(Byte))
  BY EmptySeq DEF RelayTypes
<1>2. ASSUME NEW m \in Messages
      PROVE  cleared(m) \in MessageValues /\ Blanked(cleared(m))
  BY <1>1, ClearedIsBlank
<1> HIDE DEF cleared
<1>3. /\ refs' = [m \in Messages |-> IF m \in ms THEN refs[m] - 1 ELSE refs[m]]
      /\ msg' = [m \in Messages |-> IF m \in ms /\ refs[m] = 1 THEN cleared(m) ELSE msg[m]]
      /\ written' = [m \in Messages |-> IF m \in ms /\ refs[m] = 1 THEN <<>> ELSE written[m]]
      /\ header' = header
  BY DEF Release, cleared
<1>4. \A m \in ms : refs[m] - 1 \in Nat /\ refs[m] = refs[m] - 1 + 1
                    /\ (refs[m] - 1 = 0 <=> refs[m] = 1)
  BY <1>1
<1>5. /\ msg' \in [Messages -> MessageValues] /\ written' \in [Messages -> Seq(Seq(Byte))]
  BY <1>1, <1>2, <1>3
<1>6. /\ refs' \in [Messages -> Nat]
      /\ \A m \in ms : refs'[m] = refs[m] - 1
      /\ \A m \in Messages \ ms : refs'[m] = refs[m]
  BY <1>1, <1>3, <1>4
<1>7. ASSUME NEW m \in Messages, refs'[m] # 0
      PROVE  msg'[m] = msg[m] /\ written'[m] = written[m]
  BY <1>3, <1>4, <1>6, <1>7
<1>8. ASSUME NEW m \in Messages, refs'[m] = 0 PROVE Blanked(msg'[m])
  <2>1. CASE m \in ms
    <3>1. msg'[m] = cleared(m)
      BY <1>3, <1>4, <1>6, <1>8, <2>1
    <3> QED BY <1>2, <3>1
  <2>2. CASE m \notin ms
    <3>1. msg'[m] = msg[m] /\ refs[m] = 0
      BY <1>3, <1>6, <1>8, <2>2
    <3> QED BY <3>1 DEF PoolBlank
  <2> QED BY <2>1, <2>2
<1>9. PoolBlank'
  BY <1>8 DEF PoolBlank, Blanked
<1> QED BY <1>3, <1>4, <1>5, <1>6, <1>7, <1>9

LEMMA FlatIsSeq ==
  ASSUME NEW S, NEW q \in Seq(Seq(S))
  PROVE  FlattenSeq(q) \in Seq(S)
<1>1. PICK f \in [0 .. Len(q) -> Seq(S)] : FlattenSeq(q) = f[Len(q)]
  BY Flattened
<1>2. Len(q) \in 0 .. Len(q)
  BY LenProperties
<1> QED BY <1>1, <1>2

LEMMA BlankedFields ==
  ASSUME NEW m \in MessageValues, Blanked(m)
  PROVE  m.data = <<>> /\ m.room = 0 /\ ~ m.mbEncoded
<1> DEFINE new == Blank
<1>1. m = [new EXCEPT !.mCapacity = m.mCapacity, !.freed = m.freed]
  BY DEF Blanked
<1>2. new = [data |-> <<>>, room |-> 0, mCapacity |-> DEFAULT_SIZE, mbEncoded |-> FALSE,
             freed |-> FALSE]
  BY DEF Blank
<1> HIDE DEF new
<1>3. m.data = new.data /\ m.room = new.room /\ m.mbEncoded = new.mbEncoded
  BY <1>1, <1>2
<1> QED BY <1>2, <1>3

LEMMA FreeIsNowhere ==
  ASSUME Counted, NEW m \in Messages, refs[m] = 0
  PROVE  /\ m \notin ToSet(inbox) /\ m # in /\ m # out
         /\ \A s \in Sessions : m \notin ToSet(sendQueue[s])
<1>1. PlacesOf(inbox, in, out, sendQueue, m) = 0
  BY DEF Counted
<1> QED BY <1>1, NoPlaces

LEMMA HeldHasReferences ==
  ASSUME Counted', NEW m \in Messages
  PROVE  /\ m \in ToSet(inbox') \/ m = in' \/ m = out' => refs'[m] # 0
         /\ \A s \in Sessions : m \in ToSet(sendQueue'[s]) => refs'[m] # 0
<1>1. refs'[m] = PlacesOf(inbox', in', out', sendQueue', m)
  BY DEF Counted, PlacesOf
<1> QED BY <1>1, NoPlaces

LEMMA HeldHasReferencesNow ==
  ASSUME Counted, NEW m \in Messages
  PROVE  /\ m \in ToSet(inbox) \/ m = in \/ m = out => refs[m] # 0
         /\ \A s \in Sessions : m \in ToSet(sendQueue[s]) => refs[m] # 0
<1>1. refs[m] = PlacesOf(inbox, in, out, sendQueue, m)
  BY DEF Counted
<1> QED BY <1>1, NoPlaces

LEMMA InQueues ==
  ASSUME RelayTypes
  PROVE  /\ \A m \in ToSet(inbox) : m \in Messages
         /\ \A s \in Sessions : \A m \in ToSet(sendQueue[s]) : m \in Messages
         /\ NoMessage \notin Messages
<1>1. ASSUME NEW q \in Seq(Messages), NEW m \in ToSet(q) PROVE m \in Messages
  <2>1. PICK i \in DOMAIN q : m = q[i]
    BY DEF ToSet
  <2>2. DOMAIN q = 1 .. Len(q)
    BY LenProperties
  <2> QED BY <2>1, <2>2, ElementOfSeq
<1> QED BY <1>1, BroadcastAssumption DEF RelayTypes

--------------------------------------------------------------------------------
(* The steps.                                                              *)

LEMMA ReceiveKeeps ==
  ASSUME RelayInv, NEW body \in Bodies, NEW key \in RandKeys, Receive(body, key)
  PROVE  RelayInv'
<1> DEFINE said == FlattenSeq(body)
           checkSum == calculateCheckSum(said)
           packet == Encode(key, checkSum, said)
           plain == Decode(key, packet.checkSum, packet.data)
<1>0. RelayTypes /\ InPlaces /\ InForm /\ Counted /\ PoolBlank
  BY DEF RelayInv
<1>1. PICK m \in Messages :
        /\ refs[m] = 0
        /\ msg' = [msg EXCEPT ![m].data = msg[m].data \o plain.data]
        /\ refs' = [refs EXCEPT ![m] = 1]
        /\ written' = [written EXCEPT ![m] = body]
        /\ inbox' = Append(inbox, m)
  BY DEF Receive, Free
<1>2. UNCHANGED <<header, pc, in, out, heard, todo, open, sendQueue>>
  BY DEF Receive
<1>3. body \in Seq(Seq(Byte)) /\ said \in Seq(Byte) /\ plain.data = said
  <2>1. body \in Seq(Seq(Byte)) /\ key \in Byte
    BY BroadcastAssumption
  <2>2. said \in Seq(Byte)
    BY <2>1, FlatIsSeq
  <2> HIDE DEF said
  <2>3. checkSum \in Byte
    BY <2>2, CheckSumIsByte
  <2> HIDE DEF checkSum
  <2>4. plain = [checkSum |-> checkSum, data |-> said]
    BY <2>1, <2>2, <2>3, DecodeEncode
  <2> HIDE DEF plain
  <2> QED BY <2>1, <2>2, <2>4 DEF said
<1> HIDE DEF plain, packet, checkSum
<1>4. /\ m \notin ToSet(inbox) /\ m # in /\ m # out
      /\ \A s \in Sessions : m \notin ToSet(sendQueue[s])
  BY <1>0, <1>1, FreeIsNowhere
<1>5. msg[m] \in MessageValues /\ msg[m].data = <<>> /\ ~ msg[m].mbEncoded
  BY <1>0, <1>1, BlankedFields DEF PoolBlank, RelayTypes
<1> DEFINE v == [msg[m] EXCEPT !.data = said]
<1>6. v \in MessageValues /\ v.data = said /\ ~ v.mbEncoded
  <2> HIDE DEF said
  <2> QED BY <1>3, <1>5 DEF MessageValues
<1>7. msg' = [msg EXCEPT ![m] = v]
  <2>1. msg[m].data \o plain.data = said
    <3> HIDE DEF said
    <3> QED BY <1>3, <1>5, ConcatEmptySeq
  <2> HIDE DEF said
  <2> QED BY <1>1, <2>1
<1> HIDE DEF v
<1>8. inbox \in Seq(Messages) /\ Single(inbox)
  BY <1>0 DEF RelayTypes, InPlaces
<1>9. /\ inbox' \in Seq(Messages) /\ Single(inbox') /\ ToSet(inbox') = ToSet(inbox) \cup {m}
  BY <1>1, <1>4, <1>8, AppendSet
<1>10. RelayTypes'
  BY <1>0, <1>1, <1>2, <1>3, <1>6, <1>7, <1>9 DEF RelayTypes
<1>11. InPlaces'
  BY <1>0, <1>2, <1>4, <1>9 DEF InPlaces
<1>12. ASSUME NEW x \in Messages, x # m
       PROVE  msg'[x] = msg[x] /\ written'[x] = written[x] /\ header'[x] = header[x]
  BY <1>0, <1>1, <1>2, <1>7, <1>12 DEF RelayTypes
<1>13. InForm'
  <2>1. msg'[m] = v /\ written'[m] = body
    BY <1>0, <1>1, <1>7 DEF RelayTypes
  <2>2. Plain(m)'
    BY <1>6, <2>1 DEF Plain
  <2>3. ASSUME NEW x \in ToSet(inbox') PROVE Plain(x)'
    <3>1. CASE x = m
      BY <2>2, <3>1
    <3>2. CASE x # m
      <4>1. x \in ToSet(inbox) /\ x \in Messages
        BY <1>0, <1>9, <3>2, InQueues
      <4>2. Plain(x)
        BY <1>0, <4>1 DEF InForm
      <4> QED BY <1>12, <3>2, <4>1, <4>2, SameForm
    <3> QED BY <3>1, <3>2
  <2>4. pc' # "Idle" => ~ msg'[in'].mbEncoded /\ heard' = written'[in']
    <3>1. pc # "Idle" => in \in Messages /\ in # m
      BY <1>0, <1>4 DEF InPlaces, RelayTypes
    <3>2. pc # "Idle" => ~ msg[in].mbEncoded /\ heard = written[in]
      BY <1>0 DEF InForm
    <3> QED BY <1>2, <1>12, <3>1, <3>2
  <2>5. pc' = "Send" => (Placed(out) /\ (Plain(out) \/ Packed(out)))'
    <3> SUFFICES ASSUME pc = "Send" PROVE (Placed(out) /\ (Plain(out) \/ Packed(out)))'
      BY <1>2
    <3>1. PICK x : x = out
      OBVIOUS
    <3>2. x \in Messages /\ x # m /\ out' = x
      BY <1>0, <1>2, <1>4, <3>1 DEF InPlaces, RelayTypes
    <3>3. Placed(x) /\ (Plain(x) \/ Packed(x))
      BY <1>0, <3>1 DEF InForm
    <3>4. (Placed(x) /\ (Plain(x) \/ Packed(x)))'
      BY <1>12, <3>2, <3>3, SameForm
    <3> QED BY <3>2, <3>4 DEF Placed, Plain, Packed
  <2>6. ASSUME NEW s \in Sessions, NEW x \in ToSet(sendQueue'[s]) PROVE Packed(x)' /\ Placed(x)'
    <3>1. x \in ToSet(sendQueue[s]) /\ x \in Messages /\ x # m
      BY <1>0, <1>2, <1>4, InQueues
    <3>2. Packed(x) /\ Placed(x)
      BY <1>0, <3>1 DEF InForm
    <3> QED BY <1>12, <3>1, <3>2, SameForm
  <2> QED BY <2>3, <2>4, <2>5, <2>6 DEF InForm
<1>14. Counted'
  <2> SUFFICES ASSUME NEW x \in Messages
               PROVE  refs'[x] = PlacesOf(inbox', in', out', sendQueue', x)
    BY DEF Counted, PlacesOf
  <2>1. refs[x] = PlacesOf(inbox, in, out, sendQueue, x)
    BY <1>0 DEF Counted
  <2>2. CASE x # m
    <3>1. x \in ToSet(inbox') <=> x \in ToSet(inbox)
      BY <1>9, <2>2
    <3>2. refs'[x] = refs[x]
      BY <1>0, <1>1, <2>2 DEF RelayTypes
    <3> QED BY <1>2, <2>1, <3>1, <3>2 DEF PlacesOf
  <2>3. CASE x = m
    <3> DEFINE c == Cardinality(Having(sendQueue, x))
    <3>1. c = 0
      BY <1>4, <2>3, SessionsCounted
    <3>2. refs'[x] = 1 /\ x \in ToSet(inbox') /\ x \notin {in, out}
      BY <1>0, <1>1, <1>4, <1>9, <2>3 DEF RelayTypes
    <3>3. PlacesOf(inbox', in', out', sendQueue', x) = 1 + 0 + c
      BY <1>2, <3>2 DEF PlacesOf
    <3> HIDE DEF c
    <3> QED BY <3>1, <3>2, <3>3
  <2> QED BY <2>2, <2>3
<1>15. PoolBlank'
  <2>1. ASSUME NEW x \in Messages, refs'[x] = 0 PROVE Blanked(msg'[x])
    <3>1. x # m /\ refs[x] = 0
      BY <1>0, <1>1, <2>1 DEF RelayTypes
    <3> QED BY <1>0, <1>12, <3>1 DEF PoolBlank
  <2> QED BY <2>1 DEF PoolBlank, Blanked
<1> QED BY <1>10, <1>11, <1>13, <1>14, <1>15 DEF RelayInv

LEMMA ReadValuesKeeps ==
  ASSUME RelayInv, ReadValues
  PROVE  RelayInv'
<1>0. RelayTypes /\ InPlaces /\ InForm /\ Counted /\ PoolBlank
  BY DEF RelayInv
<1> DEFINE m == Head(inbox)
           q == written[m]
           r == Read(msg[m], [i \in DOMAIN q |-> Len(q[i])])
<1>1. /\ pc = "Idle" /\ inbox # <<>> /\ in' = m /\ heard' = r.values
      /\ msg' = [msg EXCEPT ![m] = r.m]
      /\ inbox' = Tail(inbox) /\ pc' = "Write"
      /\ UNCHANGED <<header, refs, written, out, todo, open, sendQueue>>
  BY DEF ReadValues
<1>2. /\ m \in Messages /\ m \in ToSet(inbox)
      /\ inbox' \in Seq(Messages) /\ Single(inbox') /\ ToSet(inbox') = ToSet(inbox) \ {m}
  BY <1>0, <1>1, TailSet DEF RelayTypes, InPlaces
<1> HIDE DEF m
<1>3. q \in Seq(Seq(Byte)) /\ msg[m] \in MessageValues
  BY <1>0, <1>2 DEF RelayTypes
<1>4. ~ msg[m].mbEncoded /\ msg[m].data = FlattenSeq(q)
  BY <1>0, <1>2 DEF InForm, Plain
<1>5. r.values = q /\ r.m \in MessageValues /\ ~ r.m.mbEncoded
  <2> HIDE DEF q
  <2> QED BY <1>3, <1>4, ReadBack
<1> HIDE DEF q, r
<1>6. in = NoMessage /\ out = NoMessage /\ out' = NoMessage /\ m # NoMessage /\ todo = {}
  BY <1>0, <1>1, <1>2, InQueues DEF InPlaces
<1>7. RelayTypes'
  BY <1>0, <1>1, <1>2, <1>3, <1>5 DEF RelayTypes
<1>8. InPlaces'
  <2>1. NoMessage \notin ToSet(inbox')
    BY <1>0, <1>2, InQueues
  <2> QED BY <1>0, <1>1, <1>2, <1>6, <2>1 DEF InPlaces
<1>9. \A s \in Sessions : m \notin ToSet(sendQueue[s])
  BY <1>0, <1>4 DEF InForm, Packed
<1>10. ASSUME NEW x \in Messages, x # m
       PROVE  msg'[x] = msg[x] /\ written'[x] = written[x] /\ header'[x] = header[x]
  BY <1>0, <1>1, <1>10 DEF RelayTypes
<1>11. InForm'
  <2>1. ASSUME NEW x \in ToSet(inbox') PROVE Plain(x)'
    <3>1. x \in ToSet(inbox) /\ x \in Messages /\ x # m
      BY <1>0, <1>2, InQueues
    <3>2. Plain(x)
      BY <1>0, <3>1 DEF InForm
    <3> QED BY <1>10, <3>1, <3>2, SameForm
  <2>2. ~ msg'[in'].mbEncoded /\ heard' = written'[in']
    <3>1. msg'[m] = r.m
      BY <1>0, <1>1, <1>2 DEF RelayTypes
    <3> QED BY <1>1, <1>5, <3>1 DEF q
  <2>3. ASSUME NEW s \in Sessions, NEW x \in ToSet(sendQueue'[s]) PROVE Packed(x)' /\ Placed(x)'
    <3>1. x \in ToSet(sendQueue[s]) /\ x \in Messages /\ x # m
      BY <1>0, <1>1, <1>9, InQueues
    <3>2. Packed(x) /\ Placed(x)
      BY <1>0, <3>1 DEF InForm
    <3> QED BY <1>10, <3>1, <3>2, SameForm
  <2> QED BY <1>1, <2>1, <2>2, <2>3 DEF InForm
<1>12. Counted'
  <2> SUFFICES ASSUME NEW x \in Messages
               PROVE  refs'[x] = PlacesOf(inbox', in', out', sendQueue', x)
    BY DEF Counted, PlacesOf
  <2> DEFINE c == Cardinality(Having(sendQueue, x))
             a == IF x \in ToSet(inbox) THEN 1 ELSE 0
             b == IF x \in {in, out} THEN 1 ELSE 0
             A == IF x \in ToSet(inbox') THEN 1 ELSE 0
             B == IF x \in {in', out'} THEN 1 ELSE 0
  <2>1. refs[x] = a + b + c /\ PlacesOf(inbox', in', out', sendQueue', x) = A + B + c
    BY <1>0, <1>1 DEF Counted, PlacesOf
  <2>2. a + b = A + B
    <3>1. x # in /\ x # out /\ x # out'
      BY <1>0, <1>6, InQueues
    <3>2. CASE x = m
      BY <1>1, <1>2, <3>1, <3>2
    <3>3. CASE x # m
      BY <1>1, <1>2, <3>1, <3>3
    <3> QED BY <3>2, <3>3
  <2> HIDE DEF a, b, c, A, B
  <2> QED BY <1>1, <2>1, <2>2
<1>13. PoolBlank'
  <2>1. refs[m] # 0
    BY <1>0, <1>2, HeldHasReferencesNow
  <2>2. ASSUME NEW x \in Messages, refs'[x] = 0 PROVE Blanked(msg'[x])
    <3>1. x # m /\ refs[x] = 0
      BY <1>1, <2>1, <2>2
    <3> QED BY <1>0, <1>10, <3>1 DEF PoolBlank
  <2> QED BY <2>2 DEF PoolBlank, Blanked
<1> QED BY <1>7, <1>8, <1>11, <1>12, <1>13 DEF RelayInv

LEMMA PrependType ==
  ASSUME NEW q \in Seq(Seq(Byte))
  PROVE  <<Type>> \o q \in Seq(Seq(Byte))
<1>1. <<Type>> \in Seq(Seq(Byte))
  BY BroadcastAssumption
<1> QED BY <1>1, ConcatProperties

LEMMA WriteKeeps ==
  ASSUME RelayInv, Write
  PROVE  RelayInv'
<1>0. RelayTypes /\ InPlaces /\ InForm /\ Counted /\ PoolBlank
  BY DEF RelayInv
<1> DEFINE values == <<Type>> \o heard
<1>1. PICK m \in Messages :
        /\ refs[m] = 0
        /\ msg' = [msg EXCEPT ![m] = PutAll(ForSending(msg[m]), values)]
        /\ refs' = [refs EXCEPT ![m] = 1]
        /\ written' = [written EXCEPT ![m] = values]
        /\ out' = m
  BY DEF Write, Free
<1>2. /\ pc = "Write" /\ todo' = Sessions /\ pc' = "Send"
      /\ UNCHANGED <<header, inbox, in, heard, open, sendQueue>>
  BY DEF Write
<1>3. values \in Seq(Seq(Byte))
  BY <1>0, PrependType DEF RelayTypes
<1> HIDE DEF values
<1>4. /\ m \notin ToSet(inbox) /\ m # in /\ m # out
      /\ \A s \in Sessions : m \notin ToSet(sendQueue[s])
  BY <1>0, <1>1, FreeIsNowhere
<1>5. msg[m] \in MessageValues /\ msg[m].data = <<>> /\ ~ msg[m].mbEncoded
  BY <1>0, <1>1, BlankedFields DEF PoolBlank, RelayTypes
<1> DEFINE v == ForSending(msg[m])
           w == PutAll(v, values)
<1>6. v \in MessageValues /\ v.data = <<>> /\ ~ v.mbEncoded /\ v.room = HeaderSize
  <2>1. HeaderSize \in Nat /\ v = [msg[m] EXCEPT !.room = HeaderSize]
    BY MessageAssumption DEF ForSending
  <2> QED BY <1>5, <2>1 DEF MessageValues
<1> HIDE DEF v
<1>7. /\ w \in MessageValues /\ w.data = FlattenSeq(values) /\ ~ w.mbEncoded
      /\ ~ w.freed => w.room = HeaderSize
  BY <1>3, <1>6, PutAllTogether
<1> HIDE DEF w
<1>8. msg' = [msg EXCEPT ![m] = w]
  BY <1>1 DEF v, w
<1>9. in \in Messages /\ out = NoMessage
  BY <1>0, <1>2 DEF InPlaces, RelayTypes
<1>10. RelayTypes'
  BY <1>0, <1>1, <1>2, <1>3, <1>7, <1>8 DEF RelayTypes
<1>11. InPlaces'
  <2>1. m # NoMessage
    BY <1>0, InQueues
  <2> QED BY <1>0, <1>1, <1>2, <1>4, <1>9, <2>1 DEF InPlaces
<1>12. ASSUME NEW x \in Messages, x # m
       PROVE  msg'[x] = msg[x] /\ written'[x] = written[x] /\ header'[x] = header[x]
  BY <1>0, <1>1, <1>2, <1>8, <1>12 DEF RelayTypes
<1>13. InForm'
  <2>1. msg'[m] = w /\ written'[m] = values
    BY <1>0, <1>1, <1>8 DEF RelayTypes
  <2>2. ASSUME NEW x \in ToSet(inbox') PROVE Plain(x)'
    <3>1. x \in ToSet(inbox) /\ x \in Messages /\ x # m
      BY <1>0, <1>2, <1>4, InQueues
    <3>2. Plain(x)
      BY <1>0, <3>1 DEF InForm
    <3> QED BY <1>12, <3>1, <3>2, SameForm
  <2>3. ~ msg'[in'].mbEncoded /\ heard' = written'[in']
    <3>1. ~ msg[in].mbEncoded /\ heard = written[in]
      BY <1>0, <1>2 DEF InForm
    <3> QED BY <1>2, <1>4, <1>9, <1>12, <3>1
  <2>4. (Placed(out) /\ Plain(out))'
    BY <1>1, <1>7, <2>1 DEF Placed, Plain
  <2>5. ASSUME NEW s \in Sessions, NEW x \in ToSet(sendQueue'[s]) PROVE Packed(x)' /\ Placed(x)'
    <3>1. x \in ToSet(sendQueue[s]) /\ x \in Messages /\ x # m
      BY <1>0, <1>2, <1>4, InQueues
    <3>2. Packed(x) /\ Placed(x)
      BY <1>0, <3>1 DEF InForm
    <3> QED BY <1>12, <3>1, <3>2, SameForm
  <2> QED BY <2>2, <2>3, <2>4, <2>5 DEF InForm
<1>14. Counted'
  <2> SUFFICES ASSUME NEW x \in Messages
               PROVE  refs'[x] = PlacesOf(inbox', in', out', sendQueue', x)
    BY DEF Counted, PlacesOf
  <2>1. refs[x] = PlacesOf(inbox, in, out, sendQueue, x)
    BY <1>0 DEF Counted
  <2>2. CASE x # m
    <3>1. x \in {in', out'} <=> x \in {in, out}
      BY <1>0, <1>1, <1>2, <1>9, <2>2, InQueues
    <3>2. refs'[x] = refs[x]
      BY <1>0, <1>1, <2>2 DEF RelayTypes
    <3> QED BY <1>2, <2>1, <3>1, <3>2 DEF PlacesOf
  <2>3. CASE x = m
    <3> DEFINE c == Cardinality(Having(sendQueue, x))
    <3>1. c = 0
      BY <1>4, <2>3, SessionsCounted
    <3>2. refs'[x] = 1 /\ x \notin ToSet(inbox') /\ x \in {in', out'}
      BY <1>0, <1>1, <1>2, <1>4, <2>3 DEF RelayTypes
    <3>3. PlacesOf(inbox', in', out', sendQueue', x) = 0 + 1 + c
      BY <1>2, <3>2 DEF PlacesOf
    <3> HIDE DEF c
    <3> QED BY <3>1, <3>2, <3>3
  <2> QED BY <2>2, <2>3
<1>15. PoolBlank'
  <2>1. ASSUME NEW x \in Messages, refs'[x] = 0 PROVE Blanked(msg'[x])
    <3>1. x # m /\ refs[x] = 0
      BY <1>0, <1>1, <2>1 DEF RelayTypes
    <3> QED BY <1>0, <1>12, <3>1 DEF PoolBlank
  <2> QED BY <2>1 DEF PoolBlank, Blanked
<1> QED BY <1>10, <1>11, <1>13, <1>14, <1>15 DEF RelayInv

LEMMA EncodeOncePacks ==
  ASSUME RelayTypes, NEW m \in Messages, NEW key \in Byte, Placed(m), Plain(m) \/ Packed(m),
         EncodeOnce(m, key), written' = written
  PROVE  /\ msg' \in [Messages -> MessageValues]
         /\ header' \in [Messages -> [checkSum : Byte, key : Byte]]
         /\ \A x \in Messages : x # m => msg'[x] = msg[x] /\ header'[x] = header[x]
         /\ Packed(m)' /\ Placed(m)'
<1>1. /\ msg \in [Messages -> MessageValues] /\ msg[m] \in MessageValues
      /\ header \in [Messages -> [checkSum : Byte, key : Byte]]
  BY DEF RelayTypes
<1>2. CASE msg[m].mbEncoded
  <2>1. msg' = msg /\ header' = header
    BY <1>2 DEF EncodeOnce
  <2>2. Packed(m)
    BY <1>2 DEF Plain
  <2> QED BY <1>1, <2>1, <2>2, SameForm
<1>3. CASE ~ msg[m].mbEncoded
  <2> DEFINE data == msg[m].data
             checkSum == calculateCheckSum(data)
             packet == Encode(key, checkSum, data)
             d == packet.data
             h == [checkSum |-> packet.checkSum, key |-> key]
             u == [msg[m] EXCEPT !.data = d]
             v == [u EXCEPT !.mbEncoded = TRUE]
  <2>1. data \in Seq(Byte) /\ data = FlattenSeq(written[m])
    BY <1>1, <1>3 DEF MessageValues, Plain, Packed
  <2>2. /\ header' = [header EXCEPT ![m] = h]
        /\ msg' = [msg EXCEPT ![m].data = d, ![m].mbEncoded = TRUE]
    BY <1>3 DEF EncodeOnce
  <2>3. /\ d \in Seq(Byte) /\ packet.checkSum \in Byte
        /\ Decode(key, packet.checkSum, d) = [checkSum |-> checkSum, data |-> data]
    <3> HIDE DEF data
    <3>1. checkSum \in Byte
      BY <2>1, CheckSumIsByte
    <3> HIDE DEF checkSum
    <3> QED BY <2>1, <3>1, DecodeEncode
  <2> HIDE DEF packet, d
  <2>4. h \in [checkSum : Byte, key : Byte] /\ h.checkSum = packet.checkSum /\ h.key = key
    BY <2>3
  <2> HIDE DEF h
  <2>5. msg' = [msg EXCEPT ![m] = v]
    BY <1>1, <2>2
  <2>6. /\ v \in MessageValues /\ v.data = d /\ v.mbEncoded
        /\ v.freed = msg[m].freed /\ v.room = msg[m].room
    <3>1. u \in MessageValues /\ u.data = d /\ u.freed = msg[m].freed /\ u.room = msg[m].room
      BY <1>1, <2>3 DEF MessageValues
    <3> HIDE DEF u
    <3> QED BY <3>1 DEF MessageValues
  <2> HIDE DEF v
  <2>7. msg'[m] = v /\ header'[m] = h
    BY <1>1, <2>2, <2>5
  <2>8. Packed(m)'
    <3>1. Decode(header'[m].key, header'[m].checkSum, msg'[m].data)
              = [checkSum |-> checkSum, data |-> data]
      BY <2>3, <2>4, <2>6, <2>7
    <3>2. checkSum = calculateCheckSum(data)
      OBVIOUS
    <3> HIDE DEF checkSum, data
    <3> QED BY <2>1, <2>6, <2>7, <3>1, <3>2 DEF Packed
  <2>9. Placed(m)'
    BY <2>6, <2>7 DEF Placed
  <2>10. \A x \in Messages : x # m => msg'[x] = msg[x] /\ header'[x] = header[x]
    BY <1>1, <2>2, <2>5
  <2>11. /\ msg' \in [Messages -> MessageValues]
         /\ header' \in [Messages -> [checkSum : Byte, key : Byte]]
    <3>1. msg' \in [Messages -> MessageValues]
      BY <1>1, <2>5, <2>6
    <3>2. header' \in [Messages -> [checkSum : Byte, key : Byte]]
      BY <1>1, <2>2, <2>4
    <3> QED BY <3>1, <3>2
  <2> QED BY <2>8, <2>9, <2>10, <2>11
<1> QED BY <1>2, <1>3

LEMMA TrySendMessageKeeps ==
  ASSUME RelayInv, NEW s \in Sessions, NEW key \in RandKeys, TrySendMessage(s, key)
  PROVE  RelayInv'
<1>0. RelayTypes /\ InPlaces /\ InForm /\ Counted /\ PoolBlank
  BY DEF RelayInv
<1>1. /\ pc = "Send" /\ s \in todo /\ todo' = todo \ {s}
      /\ UNCHANGED <<written, inbox, pc, in, out, heard, open>>
  BY DEF TrySendMessage
<1>2. CASE ~ open[s]
  <2>1. UNCHANGED <<refs, header, msg, sendQueue>>
    BY <1>2 DEF TrySendMessage
  <2>2. RelayTypes'
    BY <1>0, <1>1, <2>1 DEF RelayTypes
  <2>3. InPlaces'
    BY <1>0, <1>1, <2>1 DEF InPlaces
  <2>4. InForm'
    BY <1>0, <1>1, <2>1 DEF InForm, Plain, Packed, Placed
  <2>5. Counted' /\ PoolBlank'
    BY <1>0, <1>1, <2>1 DEF Counted, PlacesOf, PoolBlank, Blanked
  <2> QED BY <2>2, <2>3, <2>4, <2>5 DEF RelayInv
<1>3. CASE open[s]
  <2>1. PICK m : m = out
    OBVIOUS
  <2>2. /\ refs' = [refs EXCEPT ![m] = @ + 1]
        /\ EncodeOnce(m, key)
        /\ sendQueue' = [sendQueue EXCEPT ![s] = Append(@, m)]
    BY <1>3, <2>1 DEF TrySendMessage
  <2>3. /\ m \in Messages /\ out' = m /\ in \in Messages /\ in # m /\ in' = in
        /\ m \notin ToSet(inbox) /\ m \notin ToSet(sendQueue[s])
    BY <1>0, <1>1, <2>1 DEF InPlaces, RelayTypes
  <2>4. /\ msg' \in [Messages -> MessageValues]
        /\ header' \in [Messages -> [checkSum : Byte, key : Byte]]
        /\ \A x \in Messages : x # m => msg'[x] = msg[x] /\ header'[x] = header[x]
        /\ Packed(m)' /\ Placed(m)'
    <3>1. key \in Byte /\ Placed(m) /\ (Plain(m) \/ Packed(m))
      BY <1>0, <1>1, <2>1, BroadcastAssumption DEF InForm
    <3> QED BY <1>0, <1>1, <2>2, <2>3, <3>1, EncodeOncePacks
  <2>5. ASSUME NEW x \in Messages, x # m
        PROVE  msg'[x] = msg[x] /\ written'[x] = written[x] /\ header'[x] = header[x]
    BY <1>1, <2>4, <2>5
  <2>6. /\ sendQueue' \in [Sessions -> Seq(Messages)]
        /\ \A t \in Sessions : t # s => sendQueue'[t] = sendQueue[t]
        /\ Single(sendQueue'[s]) /\ ToSet(sendQueue'[s]) = ToSet(sendQueue[s]) \cup {m}
    <3> DEFINE q == sendQueue[s]
    <3>1. q \in Seq(Messages) /\ Single(q)
      BY <1>0 DEF RelayTypes, InPlaces
    <3>2. /\ Append(q, m) \in Seq(Messages) /\ Single(Append(q, m))
          /\ ToSet(Append(q, m)) = ToSet(q) \cup {m}
      <4> HIDE DEF q
      <4>1. m \notin ToSet(q)
        BY <2>3 DEF q
      <4> QED BY <2>3, <3>1, <4>1, AppendSet
    <3>3. sendQueue \in [Sessions -> Seq(Messages)]
      BY <1>0 DEF RelayTypes
    <3> QED BY <2>2, <3>2, <3>3
  <2>7. \A x \in Messages : refs'[x] = IF x = m THEN refs[x] + 1 ELSE refs[x]
    BY <1>0, <2>2, <2>3 DEF RelayTypes
  <2>8. RelayTypes'
    <3>1. refs' \in [Messages -> Nat]
      BY <1>0, <2>2, <2>3 DEF RelayTypes
    <3> QED BY <1>0, <1>1, <2>4, <2>6, <3>1 DEF RelayTypes
  <2>9. InPlaces'
    <3>1. \A t \in Sessions : Single(sendQueue'[t])
      BY <1>0, <2>6 DEF InPlaces
    <3>2. \A t \in todo' : t \in Sessions /\ t # s
      BY <1>0, <1>1 DEF RelayTypes
    <3>3. \A t \in todo' : out \notin ToSet(sendQueue'[t])
      BY <1>0, <1>1, <2>6, <3>2 DEF InPlaces
    <3> QED BY <1>0, <1>1, <3>1, <3>3 DEF InPlaces
  <2>10. InForm'
    <3>1. ASSUME NEW x \in ToSet(inbox') PROVE Plain(x)'
      <4>1. x \in ToSet(inbox) /\ x \in Messages /\ x # m
        BY <1>0, <1>1, <2>3, InQueues
      <4>2. Plain(x)
        BY <1>0, <4>1 DEF InForm
      <4> QED BY <2>5, <4>1, <4>2, SameForm
    <3>2. ~ msg'[in'].mbEncoded /\ heard' = written'[in']
      <4>1. ~ msg[in].mbEncoded /\ heard = written[in]
        BY <1>0, <1>1 DEF InForm
      <4> QED BY <1>1, <2>3, <2>5, <4>1
    <3>3. (Placed(out) /\ Packed(out))'
      BY <2>3, <2>4 DEF Placed, Packed
    <3>4. ASSUME NEW t \in Sessions, NEW x \in ToSet(sendQueue'[t]) PROVE Packed(x)' /\ Placed(x)'
      <4>1. CASE x = m
        BY <2>4, <4>1
      <4>2. CASE x # m
        <5>1. x \in ToSet(sendQueue[t]) /\ x \in Messages
          BY <1>0, <2>6, <4>2, InQueues
        <5>2. Packed(x) /\ Placed(x)
          BY <1>0, <5>1 DEF InForm
        <5> QED BY <2>5, <4>2, <5>1, <5>2, SameForm
      <4> QED BY <4>1, <4>2
    <3> QED BY <1>1, <3>1, <3>2, <3>3, <3>4 DEF InForm
  <2>11. Counted'
    <3> SUFFICES ASSUME NEW x \in Messages
                 PROVE  refs'[x] = PlacesOf(inbox', in', out', sendQueue', x)
      BY DEF Counted, PlacesOf
    <3> DEFINE before == Cardinality(Having(sendQueue, x))
               after == Cardinality(Having(sendQueue', x))
               a == IF x \in ToSet(inbox) THEN 1 ELSE 0
               b == IF x \in {in, out} THEN 1 ELSE 0
    <3>1. /\ before \in Nat /\ after \in Nat
          /\ (x \in ToSet(sendQueue[s]) <=> x \in ToSet(sendQueue'[s])) => after = before
          /\ x \notin ToSet(sendQueue[s]) /\ x \in ToSet(sendQueue'[s]) => after = before + 1
      <4>1. before \in Nat /\ after \in Nat
        BY SessionsCounted
      <4>2. \A t \in Sessions : t # s => sendQueue'[t] = sendQueue[t]
        BY <2>6
      <4>3. /\ (x \in ToSet(sendQueue[s]) <=> x \in ToSet(sendQueue'[s])) =>
                    Having(sendQueue', x) = Having(sendQueue, x)
            /\ x \notin ToSet(sendQueue[s]) /\ x \in ToSet(sendQueue'[s]) =>
                    Cardinality(Having(sendQueue', x)) = Cardinality(Having(sendQueue, x)) + 1
        BY <4>2, OneQueueChanges
      <4> QED BY <4>1, <4>3
    <3>2. after = IF x = m THEN before + 1 ELSE before
      <4> HIDE DEF before, after
      <4> QED BY <2>3, <2>6, <3>1
    <3>3. /\ refs[x] = a + b + before
          /\ PlacesOf(inbox', in', out', sendQueue', x) = a + b + after
      BY <1>0, <1>1 DEF Counted, PlacesOf
    <3>4. a \in Nat /\ b \in Nat
      OBVIOUS
    <3> HIDE DEF a, b, before, after
    <3> QED BY <2>7, <3>1, <3>2, <3>3, <3>4
  <2>12. PoolBlank'
    <3>1. refs[m] \in Nat
      BY <1>0, <2>3 DEF RelayTypes
    <3>2. ASSUME NEW x \in Messages, refs'[x] = 0 PROVE Blanked(msg'[x])
      <4>1. x # m /\ refs[x] = 0
        BY <2>7, <3>1, <3>2
      <4> QED BY <1>0, <2>5, <4>1 DEF PoolBlank
    <3> QED BY <3>2 DEF PoolBlank, Blanked
  <2> QED BY <2>8, <2>9, <2>10, <2>11, <2>12 DEF RelayInv
<1> QED BY <1>2, <1>3

\* messages that someone has keep their form while others go back to the pool
LEMMA FormKept ==
  ASSUME RelayTypes, InPlaces, InForm, Counted', header' = header, inbox' = inbox,
         \A m \in Messages : refs'[m] # 0 => msg'[m] = msg[m] /\ written'[m] = written[m],
         pc' = "Idle" \/ UNCHANGED <<pc, in, out, heard>>,
         \A s \in Sessions : ToSet(sendQueue'[s]) \subseteq ToSet(sendQueue[s])
  PROVE  InForm'
<1>1. ASSUME NEW m \in Messages, refs'[m] # 0
      PROVE  /\ msg'[m] = msg[m] /\ written'[m] = written[m]
             /\ (Plain(m)' <=> Plain(m)) /\ (Packed(m)' <=> Packed(m))
             /\ (Placed(m)' <=> Placed(m))
  <2>1. msg'[m] = msg[m] /\ written'[m] = written[m] /\ header'[m] = header[m]
    BY <1>1
  <2> QED BY <2>1, SameForm
<1>2. ASSUME NEW x \in ToSet(inbox') PROVE Plain(x)'
  <2>1. x \in ToSet(inbox) /\ x \in Messages
    BY InQueues
  <2>2. refs'[x] # 0
    BY <2>1, HeldHasReferences
  <2>3. Plain(x)
    BY <2>1 DEF InForm
  <2> QED BY <1>1, <2>1, <2>2, <2>3
<1>3. pc' # "Idle" => ~ msg'[in'].mbEncoded /\ heard' = written'[in']
  <2> SUFFICES ASSUME pc' # "Idle" PROVE ~ msg'[in'].mbEncoded /\ heard' = written'[in']
    OBVIOUS
  <2>1. UNCHANGED <<pc, in, out, heard>> /\ in \in Messages
    BY DEF InPlaces, RelayTypes
  <2>2. refs'[in] # 0
    BY <2>1, HeldHasReferences
  <2>3. ~ msg[in].mbEncoded /\ heard = written[in]
    BY <2>1 DEF InForm
  <2> QED BY <1>1, <2>1, <2>2, <2>3
<1>4. pc' = "Send" => (Placed(out) /\ (Plain(out) \/ Packed(out)))'
  <2> SUFFICES ASSUME pc' = "Send" PROVE (Placed(out) /\ (Plain(out) \/ Packed(out)))'
    OBVIOUS
  <2>1. PICK m : m = out
    OBVIOUS
  <2>2. pc = "Send" /\ out' = m /\ m \in Messages
    BY <2>1 DEF InPlaces, RelayTypes
  <2>3. refs'[m] # 0
    BY <2>2, HeldHasReferences
  <2>4. Placed(m) /\ (Plain(m) \/ Packed(m))
    BY <2>1, <2>2 DEF InForm
  <2>5. (Placed(m) /\ (Plain(m) \/ Packed(m)))'
    BY <1>1, <2>2, <2>3, <2>4
  <2> QED BY <2>2, <2>5 DEF Placed, Plain, Packed
<1>5. ASSUME NEW s \in Sessions, NEW x \in ToSet(sendQueue'[s]) PROVE Packed(x)' /\ Placed(x)'
  <2>1. x \in ToSet(sendQueue[s]) /\ x \in Messages
    BY InQueues
  <2>2. refs'[x] # 0
    BY <2>1, HeldHasReferences
  <2>3. Packed(x) /\ Placed(x)
    BY <2>1 DEF InForm
  <2> QED BY <1>1, <2>1, <2>2, <2>3
<1> QED BY <1>2, <1>3, <1>4, <1>5 DEF InForm

LEMMA ReleaseBothKeeps ==
  ASSUME RelayInv, ReleaseBoth
  PROVE  RelayInv'
<1>0. RelayTypes /\ InPlaces /\ InForm /\ Counted /\ PoolBlank
  BY DEF RelayInv
<1>1. /\ pc = "Send" /\ todo = {} /\ Release({in, out})
      /\ pc' = "Idle" /\ in' = NoMessage /\ out' = NoMessage /\ heard' = <<>>
      /\ UNCHANGED <<inbox, todo, open, sendQueue>>
  BY DEF ReleaseBoth
<1>2. in \in Messages /\ out \in Messages /\ in # out /\ NoMessage \notin Messages
  BY <1>0, <1>1, InQueues DEF InPlaces, RelayTypes
<1> DEFINE ms == {in, out}
<1>3. ms \in SUBSET Messages /\ \A m \in ms : refs[m] # 0
  BY <1>0, <1>2, HeldHasReferencesNow
<1>4. /\ msg' \in [Messages -> MessageValues] /\ refs' \in [Messages -> Nat]
      /\ written' \in [Messages -> Seq(Seq(Byte))] /\ header' = header
      /\ \A m \in ms : refs[m] = refs'[m] + 1
      /\ \A m \in Messages \ ms : refs'[m] = refs[m]
      /\ \A m \in Messages : refs'[m] # 0 => msg'[m] = msg[m] /\ written'[m] = written[m]
      /\ PoolBlank'
  BY <1>0, <1>1, <1>3, Releasing
<1>5. RelayTypes'
  BY <1>0, <1>1, <1>4, EmptySeq DEF RelayTypes
<1>6. InPlaces'
  <2>1. NoMessage \notin ToSet(inbox)
    BY <1>0, InQueues
  <2> QED BY <1>0, <1>1, <2>1 DEF InPlaces
<1>7. Counted'
  <2> SUFFICES ASSUME NEW x \in Messages
               PROVE  refs'[x] = PlacesOf(inbox', in', out', sendQueue', x)
    BY DEF Counted, PlacesOf
  <2> DEFINE c == Cardinality(Having(sendQueue, x))
             a == IF x \in ToSet(inbox) THEN 1 ELSE 0
             b == IF x \in ms THEN 1 ELSE 0
             B == IF x \in {in', out'} THEN 1 ELSE 0
  <2>1. refs[x] = a + b + c /\ PlacesOf(inbox', in', out', sendQueue', x) = a + B + c
    BY <1>0, <1>1 DEF Counted, PlacesOf
  <2>2. a \in Nat /\ c \in Nat
    BY SessionsCounted
  <2>3. B = 0
    BY <1>1, <1>2
  <2>4. refs'[x] \in Nat /\ refs[x] = refs'[x] + b
    <3>1. refs'[x] \in Nat
      BY <1>4
    <3>2. x \in ms => refs[x] = refs'[x] + 1
      BY <1>4
    <3>3. x \notin ms => refs[x] = refs'[x]
      BY <1>4
    <3> QED BY <3>1, <3>2, <3>3
  <2>5. b \in Nat
    OBVIOUS
  <2> HIDE DEF a, b, c, B
  <2> QED BY <2>1, <2>2, <2>3, <2>4, <2>5
<1>8. InForm'
  BY <1>0, <1>1, <1>4, <1>7, FormKept
<1> QED BY <1>4, <1>5, <1>6, <1>7, <1>8 DEF RelayInv

\* a session drops its references on what leaves its queue
LEMMA QueueReleases ==
  ASSUME RelayInv, NEW s \in Sessions, NEW q \in Seq(Messages), Single(q),
         ToSet(q) \subseteq ToSet(sendQueue[s]),
         Release(ToSet(sendQueue[s]) \ ToSet(q)),
         sendQueue' \in [Sessions -> Seq(Messages)], sendQueue'[s] = q,
         \A t \in Sessions : t # s => sendQueue'[t] = sendQueue[t],
         open' \in [Sessions -> BOOLEAN], UNCHANGED listenerVars
  PROVE  RelayInv'
<1>0. RelayTypes /\ InPlaces /\ InForm /\ Counted /\ PoolBlank
  BY DEF RelayInv
<1> DEFINE ms == ToSet(sendQueue[s]) \ ToSet(q)
<1>1. UNCHANGED <<inbox, pc, in, out, heard, todo>>
  BY DEF listenerVars
<1>2. ms \in SUBSET Messages /\ \A m \in ms : refs[m] # 0
  BY <1>0, InQueues, HeldHasReferencesNow
<1>3. /\ msg' \in [Messages -> MessageValues] /\ refs' \in [Messages -> Nat]
      /\ written' \in [Messages -> Seq(Seq(Byte))] /\ header' = header
      /\ \A m \in ms : refs[m] = refs'[m] + 1
      /\ \A m \in Messages \ ms : refs'[m] = refs[m]
      /\ \A m \in Messages : refs'[m] # 0 => msg'[m] = msg[m] /\ written'[m] = written[m]
      /\ PoolBlank'
  <2> HIDE DEF ms
  <2>1. Release(ms)
    BY DEF ms
  <2> QED BY <1>0, <1>2, <2>1, Releasing
<1>4. \A t \in Sessions : ToSet(sendQueue'[t]) \subseteq ToSet(sendQueue[t])
  BY Zenon
<1>5. RelayTypes'
  BY <1>0, <1>1, <1>3 DEF RelayTypes
<1>6. InPlaces'
  <2>1. \A t \in Sessions : Single(sendQueue'[t])
    BY <1>0 DEF InPlaces
  <2>2. \A t \in todo : out \notin ToSet(sendQueue'[t])
    BY <1>0, <1>4 DEF InPlaces, RelayTypes
  <2> QED BY <1>0, <1>1, <2>1, <2>2 DEF InPlaces
<1>7. Counted'
  <2> SUFFICES ASSUME NEW x \in Messages
               PROVE  refs'[x] = PlacesOf(inbox', in', out', sendQueue', x)
    BY DEF Counted, PlacesOf
  <2> DEFINE before == Cardinality(Having(sendQueue, x))
             after == Cardinality(Having(sendQueue', x))
             a == IF x \in ToSet(inbox) THEN 1 ELSE 0
             b == IF x \in {in, out} THEN 1 ELSE 0
  <2>1. before \in Nat /\ after \in Nat /\ a \in Nat /\ b \in Nat
    BY SessionsCounted
  <2>2. /\ (x \in ToSet(sendQueue[s]) <=> x \in ToSet(sendQueue'[s])) =>
                Having(sendQueue', x) = Having(sendQueue, x)
        /\ x \in ToSet(sendQueue[s]) /\ x \notin ToSet(sendQueue'[s]) =>
                Cardinality(Having(sendQueue', x)) + 1 = Cardinality(Having(sendQueue, x))
    <3>1. (x \in ToSet(sendQueue[s]) <=> x \in ToSet(sendQueue'[s])) =>
              Having(sendQueue', x) = Having(sendQueue, x)
      BY OneQueueChanges, Zenon
    <3>2. x \in ToSet(sendQueue[s]) /\ x \notin ToSet(sendQueue'[s]) =>
              Cardinality(Having(sendQueue', x)) + 1 = Cardinality(Having(sendQueue, x))
      BY LeavesOneQueue
    <3> QED BY <3>1, <3>2
  <2>3. before = IF x \in ms THEN after + 1 ELSE after
    BY <1>4, <2>2
  <2>4. /\ refs[x] = a + b + before
        /\ PlacesOf(inbox', in', out', sendQueue', x) = a + b + after
    BY <1>0, <1>1 DEF Counted, PlacesOf
  <2>5. refs'[x] \in Nat /\ refs[x] = IF x \in ms THEN refs'[x] + 1 ELSE refs'[x]
    BY <1>3
  <2>6. PICK e \in {0, 1} : before = after + e /\ refs[x] = refs'[x] + e
    BY <2>1, <2>3, <2>5
  <2> HIDE DEF a, b, before, after, ms
  <2> QED BY <2>1, <2>4, <2>5, <2>6
<1>8. InForm'
  BY <1>0, <1>1, <1>3, <1>4, <1>7, FormKept
<1> QED BY <1>3, <1>5, <1>6, <1>7, <1>8 DEF RelayInv

LEMMA CompleteKeeps ==
  ASSUME RelayInv, NEW s \in Sessions, Complete(s)
  PROVE  RelayInv'
<1> DEFINE q == sendQueue[s]
<1>1. RelayTypes /\ q \in Seq(Messages) /\ Single(q)
  BY DEF RelayInv, RelayTypes, InPlaces
<1>2. /\ q # <<>> /\ Release({Head(q)}) /\ sendQueue' = [sendQueue EXCEPT ![s] = Tail(q)]
      /\ UNCHANGED listenerVars /\ open' = open
  BY DEF Complete
<1>3. open' \in [Sessions -> BOOLEAN]
  BY <1>1, <1>2 DEF RelayTypes
<1>4. \A t \in Sessions : t # s => sendQueue'[t] = sendQueue[t]
  BY <1>1, <1>2 DEF RelayTypes
<1> HIDE DEF q
<1>5. /\ Head(q) \in ToSet(q) /\ Tail(q) \in Seq(Messages) /\ Single(Tail(q))
      /\ ToSet(Tail(q)) = ToSet(q) \ {Head(q)}
  BY <1>1, <1>2, TailSet
<1>6. ToSet(Tail(q)) \subseteq ToSet(q) /\ ToSet(q) \ ToSet(Tail(q)) = {Head(q)}
  BY <1>5
<1>7. sendQueue' \in [Sessions -> Seq(Messages)] /\ sendQueue'[s] = Tail(q)
  BY <1>1, <1>2, <1>5 DEF RelayTypes
<1> QED BY <1>2, <1>3, <1>4, <1>5, <1>6, <1>7, QueueReleases DEF q

LEMMA CloseKeeps ==
  ASSUME RelayInv, NEW s \in Sessions, Close(s)
  PROVE  RelayInv'
<1> DEFINE q == sendQueue[s]
           none == <<>>
<1>1. /\ Release(ToSet(q)) /\ sendQueue' = [sendQueue EXCEPT ![s] = none]
      /\ UNCHANGED listenerVars /\ open' = [open EXCEPT ![s] = FALSE]
  BY DEF Close
<1>2. open' \in [Sessions -> BOOLEAN]
  BY <1>1 DEF RelayInv, RelayTypes
<1>3. none \in Seq(Messages) /\ Single(none) /\ ToSet(none) = {}
  BY EmptySeq DEF Single, ToSet
<1> HIDE DEF none
<1>4. ToSet(none) \subseteq ToSet(q) /\ ToSet(q) \ ToSet(none) = ToSet(q)
  BY <1>3
<1>5. /\ sendQueue' \in [Sessions -> Seq(Messages)] /\ sendQueue'[s] = none
      /\ \A t \in Sessions : t # s => sendQueue'[t] = sendQueue[t]
  BY <1>1, <1>3 DEF RelayInv, RelayTypes
<1> QED BY <1>1, <1>2, <1>3, <1>4, <1>5, QueueReleases

LEMMA OpenKeeps ==
  ASSUME RelayInv, NEW s \in Sessions, Open(s)
  PROVE  RelayInv'
<1>1. /\ open' = [open EXCEPT ![s] = TRUE]
      /\ UNCHANGED <<msg, header, refs, written, inbox, pc, in, out, heard, todo, sendQueue>>
  BY DEF Open, listenerVars
<1>2. RelayTypes'
  BY <1>1 DEF RelayInv, RelayTypes
<1>3. InPlaces' /\ Counted' /\ PoolBlank'
  BY <1>1 DEF RelayInv, InPlaces, Counted, PlacesOf, PoolBlank, Blanked
<1>4. InForm'
  BY <1>1 DEF RelayInv, InForm, Plain, Packed, Placed
<1> QED BY <1>2, <1>3, <1>4 DEF RelayInv

--------------------------------------------------------------------------------
(* The theorems.                                                           *)

LEMMA RelayInitInv == RelayInit => RelayInv
<1> SUFFICES ASSUME RelayInit PROVE RelayInv
  OBVIOUS
<1>1. Blank \in MessageValues
  <2>1. DEFAULT_SIZE \in Nat /\ <<>> \in Seq(Byte)
    BY MessageAssumption, EmptySeq
  <2> QED BY <2>1 DEF Blank, MessageValues
<1>2. NoHeader \in [checkSum : Byte, key : Byte]
  BY DEF NoHeader, Byte
<1>3. RelayTypes
  BY <1>1, <1>2, EmptySeq DEF RelayInit, RelayTypes
<1>4. ToSet(inbox) = {} /\ \A s \in Sessions : ToSet(sendQueue[s]) = {} /\ sendQueue[s] = <<>>
  BY DEF RelayInit, ToSet
<1>5. NoMessage \notin Messages
  BY BroadcastAssumption
<1>6. InPlaces
  <2>1. Single(<<>>)
    BY DEF Single
  <2> QED BY <1>4, <2>1 DEF RelayInit, InPlaces
<1>7. InForm
  BY <1>4 DEF RelayInit, InForm
<1>8. Counted
  <2> SUFFICES ASSUME NEW m \in Messages
               PROVE  refs[m] = PlacesOf(inbox, in, out, sendQueue, m)
    BY DEF Counted
  <2>1. m # in /\ m # out
    BY <1>5 DEF RelayInit
  <2>2. PlacesOf(inbox, in, out, sendQueue, m) = 0
    BY <1>4, <2>1, NoPlaces
  <2> QED BY <2>2 DEF RelayInit
<1>9. PoolBlank
  <2>1. \A m \in Messages : msg[m] = Blank
    BY DEF RelayInit
  <2>2. Blanked(Blank)
    BY DEF Blanked, Blank
  <2> QED BY <2>1, <2>2 DEF PoolBlank
<1> QED BY <1>3, <1>6, <1>7, <1>8, <1>9 DEF RelayInv

LEMMA RelayNextInv == RelayInv /\ [RelayNext]_relayVars => RelayInv'
<1> SUFFICES ASSUME RelayInv, [RelayNext]_relayVars PROVE RelayInv'
  OBVIOUS
<1>1. ASSUME NEW body \in Bodies, NEW key \in RandKeys, Receive(body, key) PROVE RelayInv'
  BY <1>1, ReceiveKeeps
<1>2. CASE ReadValues
  BY <1>2, ReadValuesKeeps
<1>3. CASE Write
  BY <1>3, WriteKeeps
<1>4. ASSUME NEW s \in Sessions, NEW key \in RandKeys, TrySendMessage(s, key) PROVE RelayInv'
  BY <1>4, TrySendMessageKeeps
<1>5. CASE ReleaseBoth
  BY <1>5, ReleaseBothKeeps
<1>6. ASSUME NEW s \in Sessions, Complete(s) PROVE RelayInv'
  BY <1>6, CompleteKeeps
<1>7. ASSUME NEW s \in Sessions, Close(s) PROVE RelayInv'
  BY <1>7, CloseKeeps
<1>8. ASSUME NEW s \in Sessions, Open(s) PROVE RelayInv'
  BY <1>8, OpenKeeps
<1>9. CASE UNCHANGED relayVars
  <2>1. UNCHANGED <<msg, header, refs, written, inbox, pc, in, out, heard, todo, open, sendQueue>>
    BY <1>9 DEF relayVars
  <2>2. RelayTypes' /\ InPlaces' /\ Counted' /\ PoolBlank'
    BY <2>1 DEF RelayInv, RelayTypes, InPlaces, Counted, PlacesOf, PoolBlank, Blanked
  <2>3. InForm'
    BY <2>1 DEF RelayInv, InForm, Plain, Packed, Placed
  <2> QED BY <2>2, <2>3 DEF RelayInv
<1> QED BY <1>1, <1>2, <1>3, <1>4, <1>5, <1>6, <1>7, <1>8, <1>9 DEF RelayNext, ListenerStep

LEMMA RelayInductive == RelaySpec => []RelayInv
BY RelayInitInv, RelayNextInv, PTL DEF RelaySpec

\* Whichever key is drawn, decode undoes encode on the bytes of whatever message
\* the listener is about to send, of any length and whatever they are (encode and
\* decode in WanServer, calculateCheckSum).
THEOREM CodecIsInverse == RelaySpec => []CodecInverse
<1>1. RelayInv => CodecInverse
  <2> SUFFICES ASSUME RelayInv, pc = "Send", NEW key \in Byte
               PROVE  LET data == msg[out].data
                          checkSum == calculateCheckSum(data)
                          packet == Encode(key, checkSum, data)
                      IN  Decode(key, packet.checkSum, packet.data)
                             = [checkSum |-> checkSum, data |-> data]
    BY DEF CodecInverse
  <2> DEFINE data == msg[out].data
             checkSum == calculateCheckSum(data)
  <2>1. data \in Seq(Byte)
    <3>1. out \in Messages
      BY DEF RelayInv, RelayTypes, InPlaces
    <3>2. msg[out] \in MessageValues
      BY <3>1 DEF RelayInv, RelayTypes
    <3> QED BY <3>2 DEF MessageValues
  <2> HIDE DEF data
  <2>2. checkSum \in Byte
    BY <2>1, CheckSumIsByte
  <2> HIDE DEF checkSum
  <2>3. LET packet == Encode(key, checkSum, data)
        IN  Decode(key, packet.checkSum, packet.data) = [checkSum |-> checkSum, data |-> data]
    BY <2>1, <2>2, DecodeEncode
  <2> QED BY <2>3 DEF data, checkSum
<1> QED BY <1>1, RelayInductive, PTL

\* The listener reads the values that the client wrote, and whatever is on its way
\* to a session decodes to what the listener wrote, in spite of the sends to other
\* sessions that prepare and release the same message (Message's operators,
\* TrySendMessage, sendToSectorRange).
THEOREM ReadIsWritten == RelaySpec => []ReadAsWritten
<1>1. RelayInv => ReadAsWritten
  <2> SUFFICES ASSUME RelayInv PROVE ReadAsWritten
    OBVIOUS
  <2>1. pc # "Idle" => heard = written[in]
    BY DEF RelayInv, InForm
  <2>2. ASSUME NEW s \in Sessions, NEW m \in ToSet(sendQueue[s]) PROVE Packed(m) /\ Placed(m)
    BY DEF RelayInv, InForm
  <2> QED BY <2>1, <2>2 DEF ReadAsWritten, Packed, Placed
<1> QED BY <1>1, RelayInductive, PTL

\* A message has exactly as many references as there are places that hold it, so
\* that it goes back to the pool with the last of them and not before; and in the
\* pool it is as good as new (Message::AddReference and Release, Clear).
THEOREM PoolIsClean == RelaySpec => []PoolClean
<1>1. RelayInv => PoolClean
  <2> SUFFICES ASSUME RelayInv, NEW m \in Messages
               PROVE  /\ refs[m] = Cardinality({i \in DOMAIN inbox : inbox[i] = m})
                                   + (IF m \in {in, out} THEN 1 ELSE 0)
                                   + Cardinality({s \in Sessions : m \in ToSet(sendQueue[s])})
                      /\ refs[m] = 0 => msg[m] = [Blank EXCEPT !.mCapacity = msg[m].mCapacity,
                                                               !.freed = msg[m].freed]
    BY DEF PoolClean
  <2>1. inbox \in Seq(Messages) /\ Single(inbox)
    BY DEF RelayInv, RelayTypes, InPlaces
  <2>2. Cardinality({i \in DOMAIN inbox : inbox[i] = m}) = IF m \in ToSet(inbox) THEN 1 ELSE 0
    BY <2>1, CountInbox
  <2>3. refs[m] = (IF m \in ToSet(inbox) THEN 1 ELSE 0) + (IF m \in {in, out} THEN 1 ELSE 0)
                    + Cardinality({s \in Sessions : m \in ToSet(sendQueue[s])})
    BY DEF RelayInv, Counted, PlacesOf, Having
  <2>4. refs[m] = 0 => Blanked(msg[m])
    BY DEF RelayInv, PoolBlank
  <2> QED BY <2>2, <2>3, <2>4 DEF Blanked
<1> QED BY <1>1, RelayInductive, PTL

================================================================================
