---------------------------- MODULE SessionLifetime ----------------------------
(***************************************************************************)
(* How WanServer keeps a Session alive while threads and outstanding I/O   *)
(* use it, and how it recycles the slot afterwards.                        *)
(*                                                                         *)
(* A slot of mSessions carries a ReleaseVerifier: a release flag and a     *)
(* count of references, which InterlockedCompareExchange reads and writes  *)
(* as one 32-bit word.  A reference is held by the acceptor while it sets  *)
(* the session up (the count is handed over with the free slot), by every  *)
(* posted WSARecv or WSASend, and by every thread inside                   *)
(* acquireSessionOrNull .. InterlockedDecrement16.  Whoever takes the      *)
(* count to zero calls releaseSession.                                     *)
(*                                                                         *)
(* Every action is one access to shared state of acceptThread,             *)
(* workerThread, TrySendMessage, TryDisconnect and the helpers they call.  *)
(* Here a send queue is only "empty or not" and a packet is a call of      *)
(* OnRecv: SendPath and RecvPath refine those.                             *)
(***************************************************************************)
EXTENDS Integers, FiniteSets

CONSTANTS
    Slots,      \* the indexes of mSessions
    Acceptor,   \* the thread that runs acceptThread
    Workers,    \* the threads that run workerThread
    Callers,    \* the threads that call TrySendMessage and TryDisconnect
    MaxUnique,  \* bound: how many connections the acceptor sets up
    NoID,       \* INVALID_SESSION_ID
    NoSlot      \* no session (a thread that works on none)

Threads == {Acceptor} \cup Workers \cup Callers

\* MAKE_ID: the accept counter in the high bits, the slot in the low 16
IDs == (0 .. MaxUnique - 1) \X Slots
MakeID(unique, s) == <<unique, s>>
IndexOf(i) == i[2]

ASSUME ThreadsAssumption ==
    /\ IsFiniteSet(Workers) /\ IsFiniteSet(Callers)
    /\ Acceptor \notin Workers \cup Callers
    /\ Workers \cap Callers = {}
ASSUME SlotsAssumption ==
    /\ IsFiniteSet(Slots) /\ NoSlot \notin Slots
    /\ MaxUnique \in Nat /\ NoID \notin IDs

VARIABLES
    id,             \* Session::ID
    sock,           \* Session::Socket: "none", "open", or "broken" by the peer
    flag,           \* ReleaseVerifier::ReleaseFlag
    ioCount,        \* ReleaseVerifier::CurrentAsyncIOCount
    sending,        \* Session::bIsSending
    recvIO,         \* WSARecvs of the session not yet taken from the port
    sendIO,         \* WSASends of the session not yet taken from the port
    cancelled,      \* which of them CancelIoEx has cancelled
    useable,        \* the content of mUseableIndexesStack
    sessionCount,   \* mCurrentSessionCount
    uniqueID,       \* acceptThread's local
    joined,         \* the IDs OnClientJoin has been called with
    left,           \* the IDs OnClientLeave has been called with
    pc,             \* where each thread is
    cur,            \* the slot each thread works on
    arg,            \* a thread's local ID: the parameter, or releaseSession's id
    ret             \* where releaseSession returns to

slotVars == <<id, sock, flag, ioCount, sending>>
ioVars == <<recvIO, sendIO, cancelled>>
serverVars == <<useable, sessionCount, uniqueID>>
eventVars == <<joined, left>>
threadVars == <<pc, cur, arg, ret>>
vars == <<slotVars, ioVars, serverVars, eventVars, threadVars>>

Labels == {"Idle", "Pop", "SetID", "SetSocket", "ClearFlag", "Count", "Join",
           "Deliver", "RecvInc", "RecvPost", "RecvUndo", "SendDone",
           "SendTry", "SendInc", "SendPost", "SendUndo1", "SendUndo2",
           "AcqInc", "AcqFlag", "AcqID", "AcqUndo", "Use", "Final",
           "Release", "RelClose", "RelInc", "RelLeave", "RelPush", "RelCount"}

\* A fresh Session has Verifier 0x00010000 and an uninitialised ID.
Init ==
    /\ id \in [Slots -> IDs \cup {NoID}]
    /\ sock = [s \in Slots |-> "none"]
    /\ flag = [s \in Slots |-> 0]
    /\ ioCount = [s \in Slots |-> 1]
    /\ sending = [s \in Slots |-> FALSE]
    /\ recvIO = [s \in Slots |-> 0]
    /\ sendIO = [s \in Slots |-> 0]
    /\ cancelled = [s \in Slots |-> {}]
    /\ useable = Slots
    /\ sessionCount = 0
    /\ uniqueID = 0
    /\ joined = {}
    /\ left = {}
    /\ pc = [t \in Threads |-> "Idle"]
    /\ cur = [t \in Threads |-> NoSlot]
    /\ arg = [t \in Threads |-> NoID]
    /\ ret = [t \in Threads |-> "Idle"]

--------------------------------------------------------------------------------
(* Control of a thread.  A thread that becomes idle forgets its locals.    *)

At(t, l) == pc[t] = l

Goto(t, l) ==
    /\ pc' = [pc EXCEPT ![t] = l]
    /\ UNCHANGED <<cur, arg, ret>>

Return(t, l) ==
    /\ pc' = [pc EXCEPT ![t] = l]
    /\ cur' = IF l = "Idle" THEN [cur EXCEPT ![t] = NoSlot] ELSE cur
    /\ arg' = [arg EXCEPT ![t] = NoID]
    /\ ret' = [ret EXCEPT ![t] = "Idle"]

\* InterlockedIncrement16(&session->Verifier.CurrentAsyncIOCount)
Inc(s) == ioCount' = [ioCount EXCEPT ![s] = @ + 1]

\* if (InterlockedDecrement16(..) == 0) releaseSession(session); then go on at l
Dec(t, l) ==
    /\ ioCount' = [ioCount EXCEPT ![cur[t]] = @ - 1]
    /\ IF ioCount[cur[t]] = 1
       THEN /\ pc' = [pc EXCEPT ![t] = "Release"]
            /\ ret' = [ret EXCEPT ![t] = l]
            /\ UNCHANGED <<cur, arg>>
       ELSE Return(t, l)

\* the reference the thread came with is given back, and the thread is done
Final(t) ==
    /\ At(t, "Final")
    /\ Dec(t, "Idle")
    /\ UNCHANGED <<id, sock, flag, sending, ioVars, serverVars, eventVars>>

--------------------------------------------------------------------------------
(* acceptThread                                                            *)

\* mutant: the table is not checked for room
AcceptUnchecked ==
    /\ At(Acceptor, "Idle")
    /\ uniqueID < MaxUnique
    /\ Goto(Acceptor, "Pop")
    /\ UNCHANGED <<slotVars, ioVars, serverVars, eventVars>>

\* A connection is taken when the table is not full.
Accept ==
    /\ At(Acceptor, "Idle")
    /\ uniqueID < MaxUnique
    /\ sessionCount # Cardinality(Slots)
    /\ Goto(Acceptor, "Pop")
    /\ UNCHANGED <<slotVars, ioVars, serverVars, eventVars>>

Pop ==
    /\ At(Acceptor, "Pop")
    /\ \E s \in useable :
         /\ useable' = useable \ {s}
         /\ cur' = [cur EXCEPT ![Acceptor] = s]
    /\ pc' = [pc EXCEPT ![Acceptor] = "SetID"]
    /\ UNCHANGED <<slotVars, ioVars, sessionCount, uniqueID, eventVars, arg, ret>>

\* uniqueID is local to the acceptor, which increments it at the end of the
\* iteration and reads it only here.
SetID ==
    /\ At(Acceptor, "SetID")
    /\ id' = [id EXCEPT ![cur[Acceptor]] = MakeID(uniqueID, cur[Acceptor])]
    /\ uniqueID' = uniqueID + 1
    /\ Goto(Acceptor, "SetSocket")
    /\ UNCHANGED <<sock, flag, ioCount, sending, ioVars, useable, sessionCount,
                   eventVars>>

SetSocket ==
    /\ At(Acceptor, "SetSocket")
    /\ sending' = [sending EXCEPT ![cur[Acceptor]] = FALSE]
    /\ sock' = [sock EXCEPT ![cur[Acceptor]] = "open"]
    /\ Goto(Acceptor, "ClearFlag")
    /\ UNCHANGED <<id, flag, ioCount, ioVars, serverVars, eventVars>>

ClearFlag ==
    /\ At(Acceptor, "ClearFlag")
    /\ flag' = [flag EXCEPT ![cur[Acceptor]] = 0]
    /\ Goto(Acceptor, "Count")
    /\ UNCHANGED <<id, sock, ioCount, sending, ioVars, serverVars, eventVars>>

Count ==
    /\ At(Acceptor, "Count")
    /\ sessionCount' = sessionCount + 1
    /\ Goto(Acceptor, "Join")
    /\ UNCHANGED <<slotVars, ioVars, useable, uniqueID, eventVars>>

\* CreateIoCompletionPort and listener.OnClientJoin(session->ID)
Join ==
    /\ At(Acceptor, "Join")
    /\ joined' = joined \cup {id[cur[Acceptor]]}
    /\ Goto(Acceptor, "RecvInc")
    /\ UNCHANGED <<slotVars, ioVars, serverVars, left>>

--------------------------------------------------------------------------------
(* recvPost and sendPost, which every thread enters holding a reference    *)

RecvInc(t) ==
    /\ At(t, "RecvInc")
    /\ Inc(cur[t])
    /\ Goto(t, "RecvPost")
    /\ UNCHANGED <<id, sock, flag, sending, ioVars, serverVars, eventVars>>

RecvPost(t) ==
    /\ At(t, "RecvPost")
    /\ \/ /\ sock[cur[t]] # "none"
          /\ recvIO' = [recvIO EXCEPT ![cur[t]] = @ + 1]
          /\ Goto(t, "Final")
       \/ /\ Goto(t, "RecvUndo")
          /\ UNCHANGED recvIO
    /\ UNCHANGED <<slotVars, sendIO, cancelled, serverVars, eventVars>>

RecvUndo(t) ==
    /\ At(t, "RecvUndo")
    /\ Dec(t, "Final")
    /\ UNCHANGED <<id, sock, flag, sending, ioVars, serverVars, eventVars>>

\* mutant: bIsSending is set without looking at its old value
SendTryUnguarded(t) ==
    /\ At(t, "SendTry")
    /\ sending' = [sending EXCEPT ![cur[t]] = TRUE]
    /\ Goto(t, "SendInc")
    /\ UNCHANGED <<id, sock, flag, ioCount, ioVars, serverVars, eventVars>>

\* !SendQueue.IsEmpty() && InterlockedExchange8(&bIsSending, true) == false;
\* another thread may have drained the queue, so it may be empty.
SendTry(t) ==
    /\ At(t, "SendTry")
    /\ \/ /\ sending' = [sending EXCEPT ![cur[t]] = TRUE]
          /\ Goto(t, IF sending[cur[t]] THEN "Final" ELSE "SendInc")
       \/ /\ Goto(t, "Final")
          /\ UNCHANGED sending
    /\ UNCHANGED <<id, sock, flag, ioCount, ioVars, serverVars, eventVars>>

SendInc(t) ==
    /\ At(t, "SendInc")
    /\ Inc(cur[t])
    /\ Goto(t, "SendPost")
    /\ UNCHANGED <<id, sock, flag, sending, ioVars, serverVars, eventVars>>

SendPost(t) ==
    /\ At(t, "SendPost")
    /\ \/ /\ sock[cur[t]] # "none"
          /\ sendIO' = [sendIO EXCEPT ![cur[t]] = @ + 1]
          /\ Goto(t, "Final")
       \/ /\ Goto(t, "SendUndo1")
          /\ UNCHANGED sendIO
    /\ UNCHANGED <<slotVars, recvIO, cancelled, serverVars, eventVars>>

SendUndo1(t) ==
    /\ At(t, "SendUndo1")
    /\ sending' = [sending EXCEPT ![cur[t]] = FALSE]
    /\ Goto(t, "SendUndo2")
    /\ UNCHANGED <<id, sock, flag, ioCount, ioVars, serverVars, eventVars>>

\* mutant: a WSASend that failed keeps its reference
SendUndo2Leak(t) ==
    /\ At(t, "SendUndo2")
    /\ Goto(t, "Final")
    /\ UNCHANGED <<slotVars, ioVars, serverVars, eventVars>>

SendUndo2(t) ==
    /\ At(t, "SendUndo2")
    /\ Dec(t, "Final")
    /\ UNCHANGED <<id, sock, flag, sending, ioVars, serverVars, eventVars>>

--------------------------------------------------------------------------------
(* workerThread.  The completion port queues completions in order, so data *)
(* that arrived before the connection broke is taken before the failure.   *)

Take(w, s, kind) ==
    /\ At(w, "Idle")
    /\ IF kind = "recv"
       THEN /\ recvIO[s] > 0
            /\ recvIO' = [recvIO EXCEPT ![s] = @ - 1]
            /\ UNCHANGED sendIO
       ELSE /\ sendIO[s] > 0
            /\ sendIO' = [sendIO EXCEPT ![s] = @ - 1]
            /\ UNCHANGED recvIO
    /\ cancelled' = [cancelled EXCEPT ![s] = @ \ {kind}]
    /\ cur' = [cur EXCEPT ![w] = s]
    /\ UNCHANGED <<slotVars, serverVars, eventVars, arg, ret>>

\* cbTransferred != 0
GqcsData(w, s, kind) ==
    /\ sock[s] = "open" /\ kind \notin cancelled[s]
    /\ Take(w, s, kind)
    /\ pc' = [pc EXCEPT ![w] = IF kind = "recv" THEN "Deliver" ELSE "SendDone"]

\* cbTransferred == 0: closed or reset by the peer, or cancelled
GqcsZero(w, s, kind) ==
    /\ sock[s] = "broken" \/ kind \in cancelled[s]
    /\ Take(w, s, kind)
    /\ pc' = [pc EXCEPT ![w] = "Final"]

\* The packets are handed to OnRecv(session->ID); then recvPost, or
\* goto RELEASE_SESSION after a malformed one.
Deliver(w) ==
    /\ At(w, "Deliver")
    /\ \E l \in {"RecvInc", "Final"} : Goto(w, l)
    /\ UNCHANGED <<slotVars, ioVars, serverVars, eventVars>>

SendDone(w) ==
    /\ At(w, "SendDone")
    /\ sending' = [sending EXCEPT ![cur[w]] = FALSE]
    /\ Goto(w, "SendTry")
    /\ UNCHANGED <<id, sock, flag, ioCount, ioVars, serverVars, eventVars>>

--------------------------------------------------------------------------------
(* acquireSessionOrNull, TrySendMessage and TryDisconnect                  *)

\* A caller knows an ID from OnClientJoin; the session may be long gone.
Call(c, i) ==
    /\ At(c, "Idle")
    /\ i \in joined
    /\ pc' = [pc EXCEPT ![c] = "AcqInc"]
    /\ cur' = [cur EXCEPT ![c] = IndexOf(i)]
    /\ arg' = [arg EXCEPT ![c] = i]
    /\ UNCHANGED <<slotVars, ioVars, serverVars, eventVars, ret>>

AcqInc(c) ==
    /\ At(c, "AcqInc")
    /\ Inc(cur[c])
    /\ Goto(c, "AcqFlag")
    /\ UNCHANGED <<id, sock, flag, sending, ioVars, serverVars, eventVars>>

\* mutant: the release flag is not looked at
AcqFlagIgnored(c) ==
    /\ At(c, "AcqFlag")
    /\ Goto(c, "AcqID")
    /\ UNCHANGED <<slotVars, ioVars, serverVars, eventVars>>

AcqFlag(c) ==
    /\ At(c, "AcqFlag")
    /\ Goto(c, IF flag[cur[c]] = 0 THEN "AcqID" ELSE "AcqUndo")
    /\ UNCHANGED <<slotVars, ioVars, serverVars, eventVars>>

\* mutant: the ID is not compared
AcqIDIgnored(c) ==
    /\ At(c, "AcqID")
    /\ Goto(c, "Use")
    /\ UNCHANGED <<slotVars, ioVars, serverVars, eventVars>>

AcqID(c) ==
    /\ At(c, "AcqID")
    /\ Goto(c, IF id[cur[c]] = arg[c] THEN "Use" ELSE "AcqUndo")
    /\ UNCHANGED <<slotVars, ioVars, serverVars, eventVars>>

\* mutant: a failed acquire gives its reference back without looking for zero
AcqUndoBlind(c) ==
    /\ At(c, "AcqUndo")
    /\ ioCount' = [ioCount EXCEPT ![cur[c]] = @ - 1]
    /\ Return(c, "Idle")
    /\ UNCHANGED <<id, sock, flag, sending, ioVars, serverVars, eventVars>>

AcqUndo(c) ==
    /\ At(c, "AcqUndo")
    /\ Dec(c, "Idle")
    /\ UNCHANGED <<id, sock, flag, sending, ioVars, serverVars, eventVars>>

\* TrySendMessage: the message is queued
UseSend(c) ==
    /\ At(c, "Use")
    /\ Goto(c, "SendTry")
    /\ UNCHANGED <<slotVars, ioVars, serverVars, eventVars>>

\* TryDisconnect: CancelIoEx cancels what is outstanding, but not an
\* operation whose completion is already queued
UseDisconnect(c) ==
    /\ At(c, "Use")
    /\ \E kinds \in SUBSET {"recv", "send"} :
         /\ "recv" \in kinds => recvIO[cur[c]] > 0
         /\ "send" \in kinds => sendIO[cur[c]] > 0
         /\ cancelled' = [cancelled EXCEPT ![cur[c]] = @ \cup kinds]
    /\ Goto(c, "Final")
    /\ UNCHANGED <<slotVars, recvIO, sendIO, serverVars, eventVars>>

--------------------------------------------------------------------------------
(* releaseSession                                                          *)

\* mutant: only the count is compared, not the whole word
ReleaseByCount(t) ==
    /\ At(t, "Release")
    /\ IF ioCount[cur[t]] = 0
       THEN /\ flag' = [flag EXCEPT ![cur[t]] = 1]
            /\ Goto(t, "RelClose")
       ELSE /\ Return(t, ret[t])
            /\ UNCHANGED flag
    /\ UNCHANGED <<id, sock, ioCount, sending, ioVars, serverVars, eventVars>>

\* InterlockedCompareExchange(&verifier->Verifier, 1, 0)
Release(t) ==
    /\ At(t, "Release")
    /\ IF flag[cur[t]] = 0 /\ ioCount[cur[t]] = 0
       THEN /\ flag' = [flag EXCEPT ![cur[t]] = 1]
            /\ Goto(t, "RelClose")
       ELSE /\ Return(t, ret[t])
            /\ UNCHANGED flag
    /\ UNCHANGED <<id, sock, ioCount, sending, ioVars, serverVars, eventVars>>

\* the socket is closed, the ID and the buffers are cleared
RelClose(t) ==
    /\ At(t, "RelClose")
    /\ arg' = [arg EXCEPT ![t] = id[cur[t]]]
    /\ id' = [id EXCEPT ![cur[t]] = NoID]
    /\ sock' = [sock EXCEPT ![cur[t]] = "none"]
    /\ pc' = [pc EXCEPT ![t] = "RelInc"]
    /\ UNCHANGED <<flag, ioCount, sending, ioVars, serverVars, eventVars, cur, ret>>

\* mutant: the slot is recycled without its reference
RelIncForgotten(t) ==
    /\ At(t, "RelInc")
    /\ Goto(t, "RelLeave")
    /\ UNCHANGED <<slotVars, ioVars, serverVars, eventVars>>

\* the reference the acceptor will find with the free slot
RelInc(t) ==
    /\ At(t, "RelInc")
    /\ Inc(cur[t])
    /\ Goto(t, "RelLeave")
    /\ UNCHANGED <<id, sock, flag, sending, ioVars, serverVars, eventVars>>

\* mutant: the listener is given session->ID, already cleared
RelLeaveCleared(t) ==
    /\ At(t, "RelLeave")
    /\ left' = left \cup {id[cur[t]]}
    /\ Goto(t, "RelPush")
    /\ UNCHANGED <<slotVars, ioVars, serverVars, joined>>

RelLeave(t) ==
    /\ At(t, "RelLeave")
    /\ left' = left \cup {arg[t]}
    /\ Goto(t, "RelPush")
    /\ UNCHANGED <<slotVars, ioVars, serverVars, joined>>

RelPush(t) ==
    /\ At(t, "RelPush")
    /\ useable' = useable \cup {IndexOf(arg[t])}
    /\ Goto(t, "RelCount")
    /\ UNCHANGED <<slotVars, ioVars, sessionCount, uniqueID, eventVars>>

\* mutant: the session is not counted out
RelCountForgotten(t) ==
    /\ At(t, "RelCount")
    /\ Return(t, ret[t])
    /\ UNCHANGED <<slotVars, ioVars, serverVars, eventVars>>

RelCount(t) ==
    /\ At(t, "RelCount")
    /\ sessionCount' = sessionCount - 1
    /\ Return(t, ret[t])
    /\ UNCHANGED <<slotVars, ioVars, useable, uniqueID, eventVars>>

--------------------------------------------------------------------------------
\* The peer closes or resets the connection.
Break(s) ==
    /\ sock[s] = "open"
    /\ sock' = [sock EXCEPT ![s] = "broken"]
    /\ UNCHANGED <<id, flag, ioCount, sending, ioVars, serverVars, eventVars,
                   threadVars>>

AcceptorStep == Accept \/ Pop \/ SetID \/ SetSocket \/ ClearFlag \/ Count \/ Join

WorkerStep(w) ==
    \/ \E s \in Slots, kind \in {"recv", "send"} :
          GqcsData(w, s, kind) \/ GqcsZero(w, s, kind)
    \/ Deliver(w)
    \/ SendDone(w)

CallerStep(c) ==
    \/ \E i \in joined : Call(c, i)
    \/ AcqInc(c) \/ AcqFlag(c) \/ AcqID(c) \/ AcqUndo(c)
    \/ UseSend(c) \/ UseDisconnect(c)

\* the helpers any thread may be inside of
SharedStep(t) ==
    \/ RecvInc(t) \/ RecvPost(t) \/ RecvUndo(t)
    \/ SendTry(t) \/ SendInc(t) \/ SendPost(t) \/ SendUndo1(t) \/ SendUndo2(t)
    \/ Final(t)
    \/ Release(t) \/ RelClose(t) \/ RelInc(t) \/ RelLeave(t) \/ RelPush(t)
    \/ RelCount(t)

Next ==
    \/ AcceptorStep
    \/ \E w \in Workers : WorkerStep(w)
    \/ \E c \in Callers : CallerStep(c)
    \/ \E t \in Threads : SharedStep(t)
    \/ \E s \in Slots : Break(s)

Spec == Init /\ [][Next]_vars

\* A thread inside a handler is scheduled again.  Completions leave the port
\* in the order they were queued, so each operation whose connection broke is
\* taken in the end.  Nobody is obliged to connect, call or break.

Fairness ==
    /\ \A t \in Threads : WF_vars(SharedStep(t))
    /\ WF_vars(pc[Acceptor] # "Idle" /\ AcceptorStep)
    /\ \A w \in Workers : WF_vars(Deliver(w) \/ SendDone(w))
    /\ \A c \in Callers : WF_vars(pc[c] # "Idle" /\ CallerStep(c))
    /\ \A s \in Slots, kind \in {"recv", "send"} :
          SF_vars(\E w \in Workers : GqcsZero(w, s, kind))

FairSpec == Spec /\ Fairness

--------------------------------------------------------------------------------
(* Properties                                                              *)

\* where a thread owns a reference ...
OwnerLabels ==
    {"SetID", "SetSocket", "ClearFlag", "Count", "Join", "Deliver", "RecvInc",
     "RecvPost", "RecvUndo", "SendDone", "SendTry", "SendInc", "SendPost",
     "SendUndo1", "SendUndo2", "AcqFlag", "AcqID", "AcqUndo", "Use", "Final",
     "RelLeave", "RelPush"}
\* ... where it owns a second one, for the operation it is posting ...
PosterLabels == {"RecvPost", "RecvUndo", "SendPost", "SendUndo1", "SendUndo2"}
\* ... where it counts on the session being there ...
HolderLabels ==
    {"Count", "Join", "Deliver", "RecvInc", "RecvPost", "RecvUndo", "SendDone",
     "SendTry", "SendInc", "SendPost", "SendUndo1", "SendUndo2", "AcqID",
     "Use", "Final"}
\* ... and where it rewrites the session as its only user.
SetupLabels == {"SetID", "SetSocket", "ClearFlag"}
ReleaseLabels == {"RelClose", "RelInc", "RelLeave", "RelPush"}

Within(labels, s) == {t \in Threads : pc[t] \in labels /\ cur[t] = s}
Bit(b) == IF b THEN 1 ELSE 0

TypeOK ==
    /\ id \in [Slots -> IDs \cup {NoID}]
    /\ sock \in [Slots -> {"none", "open", "broken"}]
    /\ flag \in [Slots -> {0, 1}]
    /\ ioCount \in [Slots -> Nat]
    /\ sending \in [Slots -> BOOLEAN]
    /\ recvIO \in [Slots -> Nat]
    /\ sendIO \in [Slots -> Nat]
    /\ cancelled \in [Slots -> SUBSET {"recv", "send"}]
    /\ useable \subseteq Slots
    /\ sessionCount \in Nat
    /\ uniqueID \in 0 .. MaxUnique
    /\ joined \subseteq IDs
    /\ left \subseteq IDs
    /\ pc \in [Threads -> Labels]
    /\ cur \in [Threads -> Slots \cup {NoSlot}]
    /\ arg \in [Threads -> IDs \cup {NoID}]
    /\ ret \in [Threads -> {"Idle", "Final"}]
    /\ \A t \in Threads : pc[t] \notin {"Idle", "Pop"} => cur[t] \in Slots

\* CurrentAsyncIOCount is exactly the number of references in existence, at
\* every instant: each posted operation, each thread inside the session, and
\* the one that waits with a free slot for the acceptor (WanServer.h:37).
RefsExact ==
    \A s \in Slots :
        ioCount[s] = Cardinality(Within(OwnerLabels, s))
                     + Cardinality(Within(PosterLabels, s))
                     + recvIO[s] + sendIO[s] + Bit(s \in useable)

\* The session is set up, and releaseSession has not yet won its flag.
Live(s) ==
    /\ flag[s] = 0
    /\ s \notin useable
    /\ Within(SetupLabels, s) = {}

\* Whoever works on a session, and every posted operation, finds it intact:
\* not released, its socket not closed, under the ID its caller asked for.
HolderSafe ==
    /\ \A t \in Threads : pc[t] \in HolderLabels =>
          /\ Live(cur[t])
          /\ pc[t] = "Use" => id[cur[t]] = arg[t]
    /\ \A s \in Slots :
          /\ recvIO[s] + sendIO[s] > 0 => Live(s)
          /\ Live(s) => /\ sock[s] # "none"
                        /\ id[s] \in IDs /\ IndexOf(id[s]) = s

\* A slot is rewritten by one thread at a time, and never while it is free
\* for the acceptor to take: releaseSession runs once per session.
OneReleaser ==
    \A s \in Slots :
        /\ Cardinality(Within(SetupLabels \cup ReleaseLabels, s)) <= 1
        /\ s \in useable => Within(SetupLabels \cup ReleaseLabels, s) = {}

\* RecvOverlapped and SendOverlapped are each in use by one operation.
OneOperationPerKind ==
    \A s \in Slots :
        /\ recvIO[s] + Cardinality(Within({"Join", "Deliver", "RecvInc", "RecvPost"}, s)) <= 1
        /\ sendIO[s] + Cardinality(Within({"SendDone", "SendInc", "SendPost", "SendUndo1"}, s)) <= 1

\* mCurrentSessionCount is decremented after the slot is pushed, so the free
\* slots never number fewer than the count promises ...
SlotsAccounted ==
    Cardinality(useable) + sessionCount =
        Cardinality(Slots) + Cardinality({t \in Threads : pc[t] = "RelCount"})
        - Bit(pc[Acceptor] \in SetupLabels \cup {"Count"})

\* ... and acceptThread never pops an empty stack, which has no such case.
NeverPopEmpty == At(Acceptor, "Pop") => useable # {}

\* A session that nobody references any more is on its way out: the thread
\* that took the count to zero is about to try the exchange.
ZeroIsNoticed ==
    \A s \in Slots : Live(s) /\ ioCount[s] = 0 => Within({"Release"}, s) # {}

\* While anything refers to a session its ID stays what it was: its slot is
\* never recycled under a worker, a caller or a posted operation.
NoRecycleUnderHolder ==
    [][\A s \in Slots :
          \/ Within(HolderLabels, s) # {}
          \/ recvIO[s] + sendIO[s] > 0
          => id'[s] = id[s] /\ flag'[s] = 0]_vars

\* A session whose connection broke is released in the end, provided its
\* callers do not keep acquiring it in turns (main.cpp has a single caller).
BrokenLeaves ==
    \A i \in IDs :
        i \in joined /\ id[IndexOf(i)] = i /\ sock[IndexOf(i)] = "broken"
            ~> i \in left

\* What the listener is promised (SessionContract).
Contract == INSTANCE SessionContract
RefinesContract == Contract!Spec
================================================================================
