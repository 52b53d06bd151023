------------------------------- MODULE ChatServer -------------------------------
(***************************************************************************)
(* SingleThreadChattingServer: the callbacks of the network threads put    *)
(* events on a queue and set an auto-reset event; one update thread takes  *)
(* them and keeps the players, their sectors and the accounts logged in.   *)
(*                                                                         *)
(* The callbacks of one session do not overlap (SessionLifetime), so its   *)
(* callback in progress is a place of the session.  Many threads put       *)
(* events on mMessageQueue, so it is not first in, first out: an event may *)
(* come to lie before others that were linked earlier (LockFreeQueue).     *)
(* Times are left out: timeoutEventGenerator loops while gExit is set, so  *)
(* it returns at once and no Timeout event is ever queued.                 *)
(***************************************************************************)
EXTENDS Integers, FiniteSets, SequencesExt

CONSTANTS
    Ids,        \* session IDs, none of which is used twice
    Accounts, NoAccount,
    Sectors, Nowhere, \* the sectors, and mSectors[0][0] where a player begins
    Objects,    \* bound: the objects mPlayerPool has or allocates
    NoPlayer,
    Packets,    \* what clients send: [type, account, sector]
    MaxQueue,   \* bound: events waiting
    MaxPackets  \* bound: packets in all

ASSUME ChatAssumption ==
    /\ NoAccount \notin Accounts /\ Nowhere \notin Sectors /\ NoPlayer \notin Objects
    /\ \A p \in Packets : p.account \in Accounts
    /\ MaxQueue \in Nat /\ MaxPackets \in Nat

VARIABLES
    session,    \* "New", "Open" or "Left"
    callback,   \* where the callback of the session is that has linked its event
    queue,      \* mMessageQueue: the links, in the order in which they come out
    mSize,      \* mMessageQueue.mSize
    signalled,  \* mhNetworkEvent
    update,     \* the update thread: "Dequeue", "Wait" or "Handle"
    event,      \* the event it handles
    packets,    \* packets so far
    mPlayers,   \* from IDs to player objects
    mSectors,   \* for each sector, from IDs to player objects
    mLoginAccountNumbers,
    player,     \* the fields of the player objects
    free,       \* mPlayerPool
    overtaken   \* history: the sessions whose Leave was handled before their Join

netVars == <<session, callback, packets>>
threadVars == <<queue, mSize, signalled, update, event, overtaken>>
gameVars == <<mPlayers, mSectors, mLoginAccountNumbers, player, free>>
vars == <<netVars, threadVars, gameVars>>

Places == Sectors \cup {Nowhere}
Nobody == [id \in Ids |-> NoPlayer]
NoEvent == [event |-> "None"]

Init ==
    /\ session = [id \in Ids |-> "New"]
    /\ callback = [id \in Ids |-> "None"]
    /\ packets = 0
    /\ queue = <<>> /\ mSize = 0 /\ overtaken = {}
    /\ signalled = FALSE /\ update = "Dequeue" /\ event = NoEvent
    /\ mPlayers = Nobody
    /\ mSectors = [s \in Places |-> Nobody]
    /\ mLoginAccountNumbers = {}
    /\ player = [o \in Objects |->
                    [account |-> NoAccount, sector |-> Nowhere, id |-> NoPlayer]]
    /\ free = Objects

--------------------------------------------------------------------------------
(* The callbacks: TryEnqueue, which links the event and then counts it,    *)
(* and SetEvent.                                                           *)

Enqueue(id, e) ==
    /\ callback[id] = "None" /\ Len(queue) < MaxQueue
    /\ \E i \in 1 .. Len(queue) + 1 : queue' = InsertAt(queue, i, e)
    /\ callback' = [callback EXCEPT ![id] = "Count"]

OnClientJoin(id) ==
    /\ session[id] = "New"
    /\ Enqueue(id, [event |-> "Join", id |-> id])
    /\ session' = [session EXCEPT ![id] = "Open"]
    /\ UNCHANGED <<mSize, signalled, update, event, overtaken, packets, gameVars>>

OnRecv(id, p) ==
    /\ session[id] = "Open" /\ packets < MaxPackets
    /\ Enqueue(id, [event |-> "PacketReceived", id |-> id, payload |-> p])
    /\ packets' = packets + 1
    /\ UNCHANGED <<session, mSize, signalled, update, event, overtaken, gameVars>>

OnClientLeave(id) ==
    /\ session[id] = "Open"
    /\ Enqueue(id, [event |-> "Leave", id |-> id])
    /\ session' = [session EXCEPT ![id] = "Left"]
    /\ UNCHANGED <<mSize, signalled, update, event, overtaken, packets, gameVars>>

Count(id) ==
    /\ callback[id] = "Count"
    /\ mSize' = mSize + 1
    /\ callback' = [callback EXCEPT ![id] = "SetEvent"]
    /\ UNCHANGED <<session, packets, queue, signalled, update, event, overtaken, gameVars>>

SetEvent(id) ==
    /\ callback[id] = "SetEvent"
    /\ signalled' = TRUE
    /\ callback' = [callback EXCEPT ![id] = "None"]
    /\ UNCHANGED <<session, packets, queue, mSize, update, event, overtaken, gameVars>>

--------------------------------------------------------------------------------
(* The update thread.                                                      *)

\* What it lowers mSize by when there is nothing it adds again; no one else looks.
TryDequeue ==
    /\ update = "Dequeue"
    /\ IF mSize <= 0
       THEN update' = "Wait" /\ UNCHANGED <<queue, mSize, event>>
       ELSE /\ queue # <<>>
            /\ event' = Head(queue)
            /\ queue' = Tail(queue)
            /\ mSize' = mSize - 1
            /\ update' = "Handle"
    /\ UNCHANGED <<signalled, overtaken, netVars, gameVars>>

\* WaitForSingleObject resets the event.
Wake ==
    /\ update = "Wait" /\ signalled
    /\ signalled' = FALSE
    /\ update' = "Dequeue"
    /\ UNCHANGED <<queue, mSize, event, overtaken, netVars, gameVars>>

Handle(kind) == update = "Handle" /\ event.event = kind

\* mutant: every event is waited for
DoneAndWait ==
    /\ update' = "Wait" /\ event' = NoEvent
    /\ UNCHANGED <<queue, mSize, signalled, overtaken, netVars>>

\* the handler returns
Done ==
    /\ update' = "Dequeue" /\ event' = NoEvent
    /\ UNCHANGED <<queue, mSize, signalled, overtaken, netVars>>

Join ==
    /\ Handle("Join")
    /\ \E o \in free :
        /\ free' = free \ {o}
        \* AccountNo is left as the object's previous player had it
        /\ player' = [player EXCEPT ![o].sector = Nowhere, ![o].id = event.id]
        /\ mPlayers' = [mPlayers EXCEPT ![event.id] = o]
    /\ Done
    /\ UNCHANGED <<mSectors, mLoginAccountNumbers>>

\* mutant: the object is not given back
removePlayerLeak(o) ==
    /\ mPlayers' = [mPlayers EXCEPT ![player[o].id] = NoPlayer]
    /\ mLoginAccountNumbers' = mLoginAccountNumbers \ {player[o].account}
    /\ mSectors' = [mSectors EXCEPT ![player[o].sector][player[o].id] = NoPlayer]
    /\ UNCHANGED free

removePlayer(o) ==
    /\ mPlayers' = [mPlayers EXCEPT ![player[o].id] = NoPlayer]
    /\ mLoginAccountNumbers' = mLoginAccountNumbers \ {player[o].account}
    /\ mSectors' = [mSectors EXCEPT ![player[o].sector][player[o].id] = NoPlayer]
    /\ free' = free \cup {o}

\* an event of the session that is linked and not handled yet
Waiting(kind, id) == \E i \in DOMAIN queue : queue[i].event = kind /\ queue[i].id = id

LeaveDone ==
    /\ update' = "Dequeue" /\ event' = NoEvent
    /\ overtaken' = IF Waiting("Join", event.id) THEN overtaken \cup {event.id}
                    ELSE overtaken
    /\ UNCHANGED <<queue, mSize, signalled, netVars>>

\* mutant: only players that have logged in are looked up
LeaveIfLoggedIn ==
    /\ Handle("Leave")
    /\ LET o == mPlayers[event.id] IN
       IF o = NoPlayer \/ player[o].account \notin mLoginAccountNumbers
       THEN UNCHANGED gameVars
       ELSE removePlayer(o) /\ UNCHANGED player
    /\ LeaveDone

Leave ==
    /\ Handle("Leave")
    /\ IF mPlayers[event.id] = NoPlayer THEN UNCHANGED gameVars
       ELSE removePlayer(mPlayers[event.id]) /\ UNCHANGED player
    /\ LeaveDone

\* A packet of a player: what it claims, and the player object.
Packet(type) ==
    /\ Handle("PacketReceived") /\ event.payload.type = type
    /\ mPlayers[event.id] # NoPlayer
Me == mPlayers[event.id]
LoggedIn == player[Me].account \in mLoginAccountNumbers

\* A packet whose session has no player (any more), one that only sets
\* LastReceivedTime, and one of unknown type, for which TryDisconnect is called.
Ignore ==
    /\ Handle("PacketReceived")
    /\ mPlayers[event.id] = NoPlayer \/ event.payload.type = "Other"
    /\ Done
    /\ UNCHANGED gameVars

\* AccountNo is overwritten before it is known whether the account is in use.
Login ==
    /\ Packet("Login")
    /\ player' = [player EXCEPT ![Me].account = event.payload.account]
    /\ IF event.payload.account \notin mLoginAccountNumbers
       THEN /\ mLoginAccountNumbers' = mLoginAccountNumbers \cup {event.payload.account}
            /\ UNCHANGED <<mPlayers, mSectors, free>>
       ELSE /\ mPlayers' = [mPlayers EXCEPT ![event.id] = NoPlayer]
            /\ mLoginAccountNumbers' = mLoginAccountNumbers \ {event.payload.account}
            /\ mSectors' = [mSectors EXCEPT ![player[Me].sector][event.id] = NoPlayer]
            /\ free' = free \cup {Me}
    /\ Done

\* removePlayer: not logged in, another player's account number, or a sector
\* that does not exist (a message that is too long).  TryDisconnect is called as
\* well, after which the session may leave, as it may at any time.
Kick ==
    /\ Packet("Move") \/ Packet("Chat")
    /\ \/ ~ LoggedIn
       \/ event.payload.account # player[Me].account
       \/ event.payload.sector \notin Sectors
    /\ removePlayer(Me)
    /\ Done
    /\ UNCHANGED player

Valid ==
    /\ LoggedIn
    /\ event.payload.account = player[Me].account
    /\ event.payload.sector \in Sectors

\* mutant: the player stays in the sector it came from
MoveInto ==
    /\ Packet("Move") /\ Valid
    /\ LET to == event.payload.sector IN
       /\ mSectors' = [mSectors EXCEPT ![to][event.id] = Me]
       /\ player' = [player EXCEPT ![Me].sector = to]
    /\ Done
    /\ UNCHANGED <<mPlayers, mLoginAccountNumbers, free>>

Move ==
    /\ Packet("Move") /\ Valid
    /\ LET to == event.payload.sector IN
       /\ mSectors' = [mSectors EXCEPT ![player[Me].sector][event.id] = NoPlayer,
                                       ![to][event.id] = Me]
       /\ player' = [player EXCEPT ![Me].sector = to]
    /\ Done
    /\ UNCHANGED <<mPlayers, mLoginAccountNumbers, free>>

\* The message goes to the sectors around the player's; nothing of the server
\* changes.  From Nowhere, at index 0, the code reads outside mSectors: whoever
\* it sends to then, it is taken to change nothing either.
Chat ==
    /\ Packet("Chat") /\ Valid
    /\ Done
    /\ UNCHANGED gameVars

UpdateStep ==
    TryDequeue \/ Wake \/ Join \/ Leave \/ Ignore \/ Login \/ Kick \/ Move \/ Chat

Callback(id) ==
    \/ OnClientJoin(id) \/ (\E p \in Packets : OnRecv(id, p)) \/ OnClientLeave(id)
    \/ Count(id) \/ SetEvent(id)

Next == UpdateStep \/ \E id \in Ids : Callback(id)

Spec == Init /\ [][Next]_vars

--------------------------------------------------------------------------------
(* Properties                                                              *)

\* A player object belongs to one session or to the pool, and knows which.
ObjectsOwned ==
    /\ \A o \in Objects :
        (o \in free) <=> (\A id \in Ids : mPlayers[id] # o)
    /\ \A id \in Ids : mPlayers[id] # NoPlayer => player[mPlayers[id]].id = id

\* The sectors hold exactly the players that are in them: none that was removed,
\* whose object may be another session's by now, and none twice.
SectorsAgree ==
    \A s \in Sectors, id \in Ids :
        mSectors[s][id] =
            IF mPlayers[id] # NoPlayer /\ player[mPlayers[id]].sector = s
            THEN mPlayers[id] ELSE NoPlayer

Pending(kind, id) == Waiting(kind, id) \/ (event.event = kind /\ event.id = id)

\* A session that has left is no player once its Leave is handled, however its
\* packets, its Leave and TryDisconnect interleave, and whatever overtakes what
\* in the queue, with one exception: when its Leave was handled before its Join,
\* it becomes a player that nothing removes.
NoZombie ==
    \A id \in Ids :
        mPlayers[id] # NoPlayer =>
            session[id] = "Open" \/ Pending("Leave", id) \/ id \in overtaken

\* No wake-up is lost: while the update thread sleeps and has no signal, an event
\* waits only if a callback is on its way that counts it or gives the signal for
\* it.  So it does not sleep because of an event that was linked and not counted
\* when it looked, nor because it took a signal that stood for several events, nor
\* because the signal came between its look at mSize and its wait.
NoEventMissed ==
    update = "Wait" /\ ~ signalled /\ queue # <<>> => \E id \in Ids : callback[id] # "None"
================================================================================
