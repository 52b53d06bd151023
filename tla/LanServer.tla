------------------------------- MODULE LanServer -------------------------------
(***************************************************************************)
(* LanServer, from TryRun to Terminate: the same threads, table and        *)
(* references as WanServer's (SessionLifetime), with three differences.    *)
(* TryDisconnect closes the socket; a fresh slot has a count of zero,      *)
(* which the acceptor raises after it has cleared the flag; and            *)
(* releaseSession exchanges 64 bits, of which only half are the Verifier.  *)
(* The other half is the low word of ReceiveBuffer's mBuffer, which is not *)
(* zero: no exchange succeeds, and no session is ever released.            *)
(*                                                                         *)
(* Whether a SendQueue is empty is left open, as in SessionLifetime, and a *)
(* completion is data or none; SendPath and RecvPath have the rest.  The   *)
(* completion port is first in, first out.                                 *)
(***************************************************************************)
EXTENDS Integers, FiniteSets, SequencesExt

CONSTANTS
    mMaximumSessionCount,
    Acceptor, Workers,  \* mhThreads
    Callers,            \* threads that call TrySendMessage and TryDisconnect
    BufferLow,          \* the low word of a ReceiveBuffer's mBuffer
    MaxUnique,          \* bound: how many connections are set up
    MaxCalls,           \* bound: how many calls the callers make
    NoID, NoSlot

Slots == 0 .. mMaximumSessionCount - 1
mhThreads == Workers \cup {Acceptor}
Threads == mhThreads \cup Callers
IDs == (0 .. MaxUnique - 1) \X Slots

ASSUME LanAssumption ==
    /\ mMaximumSessionCount \in Nat /\ MaxUnique \in Nat /\ MaxCalls \in Nat
    /\ IsFiniteSet(Threads) /\ Acceptor \notin Workers /\ mhThreads \cap Callers = {}
    /\ BufferLow \in Nat \ {0}
    /\ NoID \notin IDs /\ NoSlot \notin Slots

VARIABLES
    id, sock, flag, ioCount, sending,   \* of a Session
    posted,         \* the operations of a session that have not completed
    port,           \* the completion port
    useable, sessionCount, uniqueID,
    listening,      \* mListenSocket is open
    joined, left,   \* the IDs OnClientJoin and OnClientLeave were called with
    pc, cur, arg, ret,      \* of a thread, as in SessionLifetime
    terminate, i,   \* where Terminate is, and in which round of its loop
    missed,         \* history: slots that had no socket when Terminate closed them
    calls           \* history: calls of TrySendMessage and TryDisconnect

slotVars == <<id, sock, flag, ioCount, sending>>
ioVars == <<posted, port>>
serverVars == <<useable, sessionCount, uniqueID, joined, left>>
threadVars == <<pc, cur, arg, ret>>
mainVars == <<listening, terminate, i, missed>>
vars == <<slotVars, ioVars, serverVars, threadVars, mainVars, calls>>

\* TryRun.  ID and Socket of a Session are not initialised: no caller knows such an
\* ID, and Terminate's closesocket of such a Socket does nothing.
Init ==
    /\ id = [s \in Slots |-> NoID]
    /\ sock = [s \in Slots |-> "none"]
    /\ flag = [s \in Slots |-> 0]
    /\ ioCount = [s \in Slots |-> 0]
    /\ sending = [s \in Slots |-> FALSE]
    /\ posted = [s \in Slots |-> {}]
    /\ port = <<>>
    /\ useable = Slots /\ sessionCount = 0 /\ uniqueID = 0
    /\ joined = {} /\ left = {}
    /\ pc = [t \in Threads |-> "Idle"]
    /\ cur = [t \in Threads |-> NoSlot]
    /\ arg = [t \in Threads |-> NoID]
    /\ ret = [t \in Threads |-> "Idle"]
    /\ listening = TRUE /\ terminate = "Running" /\ i = 0 /\ missed = {}
    /\ calls = 0

At(t, l) == pc[t] = l

Goto(t, l) ==
    /\ pc' = [pc EXCEPT ![t] = l]
    /\ cur' = IF l = "Idle" THEN [cur EXCEPT ![t] = NoSlot] ELSE cur
    /\ arg' = IF l = "Idle" THEN [arg EXCEPT ![t] = NoID] ELSE arg
    /\ ret' = [ret EXCEPT ![t] = "Idle"]

\* if (InterlockedDecrement16(..) == 0) releaseSession(session); then go on at l
Dec(t, l) ==
    /\ ioCount' = [ioCount EXCEPT ![cur[t]] = @ - 1]
    /\ IF ioCount[cur[t]] = 1
       THEN /\ pc' = [pc EXCEPT ![t] = "Release"]
            /\ ret' = [ret EXCEPT ![t] = l]
            /\ UNCHANGED <<cur, arg>>
       ELSE Goto(t, l)

\* the thread's own reference
Final(t) ==
    /\ At(t, "Final")
    /\ Dec(t, "Idle")
    /\ UNCHANGED <<id, sock, flag, sending, ioVars, serverVars, mainVars, calls>>

--------------------------------------------------------------------------------
(* releaseSession                                                          *)

Released(t) ==
    LET s == cur[t] IN
    /\ flag' = [flag EXCEPT ![s] = 1]
    /\ id' = [id EXCEPT ![s] = NoID]
    /\ sock' = [sock EXCEPT ![s] = "closed"]
    /\ useable' = useable \cup {id[s][2]}
    /\ sessionCount' = sessionCount - 1
    /\ left' = left \cup {id[s]}

\* mutant: the exchange is of the 32 bits of the Verifier, as in WanServer
ReleaseVerifierOnly(t) ==
    /\ At(t, "Release")
    /\ IF flag[cur[t]] = 0 /\ ioCount[cur[t]] = 0
       THEN Released(t)
       ELSE UNCHANGED <<flag, id, sock, useable, sessionCount, left>>
    /\ Goto(t, ret[t])
    /\ UNCHANGED <<ioCount, sending, ioVars, uniqueID, joined, mainVars, calls>>

Release(t) ==
    /\ At(t, "Release")
    /\ IF flag[cur[t]] = 0 /\ ioCount[cur[t]] = 0 /\ BufferLow = 0
       THEN Released(t)
       ELSE UNCHANGED <<flag, id, sock, useable, sessionCount, left>>
    /\ Goto(t, ret[t])
    /\ UNCHANGED <<ioCount, sending, ioVars, uniqueID, joined, mainVars, calls>>

--------------------------------------------------------------------------------
(* acceptThread                                                            *)

\* the table is full, or OnConnectionRequest says no
Refuse ==
    /\ At(Acceptor, "Idle") /\ listening
    /\ UNCHANGED vars

Accept ==
    /\ At(Acceptor, "Idle") /\ listening
    /\ sessionCount # mMaximumSessionCount /\ uniqueID < MaxUnique
    /\ \E s \in useable :
        /\ useable' = useable \ {s}
        /\ cur' = [cur EXCEPT ![Acceptor] = s]
    /\ pc' = [pc EXCEPT ![Acceptor] = "SetID"]
    /\ UNCHANGED <<slotVars, ioVars, sessionCount, uniqueID, joined, left, arg, ret, mainVars, calls>>

SetID ==
    /\ At(Acceptor, "SetID")
    /\ id' = [id EXCEPT ![cur[Acceptor]] = <<uniqueID, cur[Acceptor]>>]
    /\ uniqueID' = uniqueID + 1
    /\ Goto(Acceptor, "SetSession")
    /\ UNCHANGED <<sock, flag, ioCount, sending, ioVars, useable, sessionCount, joined, left,
                   mainVars, calls>>

\* the rest of the slot, which no one but Terminate looks at yet
SetSession ==
    /\ At(Acceptor, "SetSession")
    /\ sending' = [sending EXCEPT ![cur[Acceptor]] = FALSE]
    /\ sock' = [sock EXCEPT ![cur[Acceptor]] = "open"]
    /\ flag' = [flag EXCEPT ![cur[Acceptor]] = 0]
    /\ ioCount' = [ioCount EXCEPT ![cur[Acceptor]] = @ + 1]
    /\ Goto(Acceptor, "Join")
    /\ UNCHANGED <<id, ioVars, serverVars, mainVars, calls>>

Join ==
    /\ At(Acceptor, "Join")
    /\ sessionCount' = sessionCount + 1
    /\ joined' = joined \cup {id[cur[Acceptor]]}
    /\ Goto(Acceptor, "RecvPost")
    /\ UNCHANGED <<slotVars, ioVars, useable, uniqueID, left, mainVars, calls>>

\* accept fails once the listen socket is closed
AcceptFails ==
    /\ At(Acceptor, "Idle") /\ ~listening
    /\ Goto(Acceptor, "Ended")
    /\ UNCHANGED <<slotVars, ioVars, serverVars, mainVars, calls>>

AcceptorStep == Refuse \/ Accept \/ SetID \/ SetSession \/ Join \/ AcceptFails

--------------------------------------------------------------------------------
(* recvPost and sendPost: the reference of the operation, and the call     *)

Post(t, kind, undo) ==
    /\ ioCount' = [ioCount EXCEPT ![cur[t]] = @ + 1]
    /\ \/ /\ sock[cur[t]] \in {"open", "broken"}
          /\ posted' = [posted EXCEPT ![cur[t]] = @ \cup {kind}]
          /\ Goto(t, "Final")
       \/ /\ Goto(t, undo)
          /\ UNCHANGED posted

RecvPost(t) ==
    /\ At(t, "RecvPost")
    /\ Post(t, "recv", "Undo")
    /\ UNCHANGED <<id, sock, flag, sending, port, serverVars, mainVars, calls>>

\* !SendQueue.IsEmpty() && InterlockedExchange8(&bIsSending, true) == false
SendTry(t) ==
    /\ At(t, "SendTry")
    /\ \/ /\ sending' = [sending EXCEPT ![cur[t]] = TRUE]
          /\ Goto(t, IF sending[cur[t]] THEN "Final" ELSE "SendPost")
       \/ /\ Goto(t, "Final")
          /\ UNCHANGED sending
    /\ UNCHANGED <<id, sock, flag, ioCount, ioVars, serverVars, mainVars, calls>>

SendPost(t) ==
    /\ At(t, "SendPost")
    /\ Post(t, "send", "SendFailed")
    /\ UNCHANGED <<id, sock, flag, sending, port, serverVars, mainVars, calls>>

SendFailed(t) ==
    /\ At(t, "SendFailed")
    /\ sending' = [sending EXCEPT ![cur[t]] = FALSE]
    /\ Goto(t, "Undo")
    /\ UNCHANGED <<id, sock, flag, ioCount, ioVars, serverVars, mainVars, calls>>

\* the reference of an operation that was not posted
Undo(t) ==
    /\ At(t, "Undo")
    /\ Dec(t, "Final")
    /\ UNCHANGED <<id, sock, flag, sending, ioVars, serverVars, mainVars, calls>>

SessionStep(t) ==
    RecvPost(t) \/ SendTry(t) \/ SendPost(t) \/ SendFailed(t) \/ Undo(t) \/ Final(t)
    \/ Release(t)

--------------------------------------------------------------------------------
(* workerThread                                                            *)

Null == [slot |-> NoSlot, kind |-> "null", data |-> FALSE]

\* GetQueuedCompletionStatus; the message of a receive is made and released again
Take(w) ==
    /\ At(w, "Idle") /\ port # <<>>
    /\ LET c == Head(port) IN
        /\ pc' = [pc EXCEPT ![w] = IF c.kind = "null" THEN "Ended"
                                   ELSE IF ~c.data THEN "Final"
                                   ELSE IF c.kind = "recv" THEN "RecvPost" ELSE "SendDone"]
        /\ cur' = [cur EXCEPT ![w] = c.slot]
    /\ port' = Tail(port)
    /\ UNCHANGED <<slotVars, posted, serverVars, arg, ret, mainVars, calls>>

SendDone(w) ==
    /\ At(w, "SendDone")
    /\ sending' = [sending EXCEPT ![cur[w]] = FALSE]
    /\ Goto(w, "SendTry")
    /\ UNCHANGED <<id, sock, flag, ioCount, ioVars, serverVars, mainVars, calls>>

WorkerStep(w) == Take(w) \/ SendDone(w)

--------------------------------------------------------------------------------
(* TrySendMessage and TryDisconnect, with an ID that OnClientJoin told.    *)
(* Nothing keeps the program from calling them while Terminate runs.       *)

AcqInc(c, ID) ==
    /\ At(c, "Idle") /\ calls < MaxCalls
    /\ calls' = calls + 1
    /\ ioCount' = [ioCount EXCEPT ![ID[2]] = @ + 1]
    /\ pc' = [pc EXCEPT ![c] = "Acquire"]
    /\ cur' = [cur EXCEPT ![c] = ID[2]]
    /\ arg' = [arg EXCEPT ![c] = ID]
    /\ UNCHANGED <<id, sock, flag, sending, ioVars, serverVars, ret, mainVars>>

\* the rest of acquireSessionOrNull, and the call of sendPost or closesocket
Acquire(c) ==
    /\ At(c, "Acquire")
    /\ IF flag[cur[c]] = 0 /\ id[cur[c]] = arg[c]
       THEN \/ /\ Goto(c, "SendTry")
               /\ UNCHANGED sock
            \/ /\ sock' = [sock EXCEPT ![cur[c]] = "closed"]
               /\ Goto(c, "Final")
       ELSE /\ Goto(c, "Final")
            /\ UNCHANGED sock
    /\ UNCHANGED <<id, flag, ioCount, sending, ioVars, serverVars, mainVars, calls>>

CallerStep(c) == (\E ID \in joined : AcqInc(c, ID)) \/ Acquire(c)

--------------------------------------------------------------------------------
(* The network                                                             *)

\* mSocket is closed, reset, or there is data, or the data was sent
Complete(s, kind) ==
    /\ kind \in posted[s]
    /\ posted' = [posted EXCEPT ![s] = @ \ {kind}]
    /\ port' = Append(port, [slot |-> s, kind |-> kind, data |-> sock[s] = "open"])
    /\ UNCHANGED <<slotVars, serverVars, threadVars, mainVars, calls>>

Break(s) ==
    /\ sock[s] = "open"
    /\ sock' = [sock EXCEPT ![s] = "broken"]
    /\ UNCHANGED <<id, flag, ioCount, sending, ioVars, serverVars, threadVars, mainVars, calls>>

--------------------------------------------------------------------------------
(* Terminate, called by the program's main thread                          *)

CloseListen ==
    /\ terminate = "Running"
    /\ listening' = FALSE
    /\ terminate' = "Close"
    /\ UNCHANGED <<slotVars, ioVars, serverVars, threadVars, i, missed, calls>>

\* one round of the loop over the table
CloseSession ==
    /\ terminate = "Close" /\ i < mMaximumSessionCount
    /\ IF id[i] # NoID /\ sock[i] # "none"
       THEN sock' = [sock EXCEPT ![i] = "closed"] /\ UNCHANGED missed
       ELSE missed' = missed \cup {i} /\ UNCHANGED sock
    /\ i' = i + 1
    /\ UNCHANGED <<id, flag, ioCount, sending, ioVars, serverVars, threadVars, listening,
                   terminate, calls>>

\* mutant: one worker is not told
PostNullsShort ==
    /\ terminate = "Close" /\ i = mMaximumSessionCount
    /\ port' = port \o [k \in 1 .. Cardinality(mhThreads) - 2 |-> Null]
    /\ terminate' = "Wait"
    /\ i' = 0
    /\ UNCHANGED <<slotVars, posted, serverVars, threadVars, listening, missed, calls>>

PostNulls ==
    /\ terminate = "Close" /\ i = mMaximumSessionCount
    /\ port' = port \o [k \in 1 .. Cardinality(mhThreads) - 1 |-> Null]
    /\ terminate' = "Wait"
    /\ i' = 0
    /\ UNCHANGED <<slotVars, posted, serverVars, threadVars, listening, missed, calls>>

\* mutant: the acceptor is not waited for
DeleteEarly ==
    /\ terminate = "Wait" /\ \A t \in Workers : At(t, "Ended")
    /\ terminate' = "Deleted"
    /\ UNCHANGED <<slotVars, ioVars, serverVars, threadVars, listening, i, missed,
                   calls>>

\* WaitForMultipleObjects, CloseHandle, delete mSessions
Delete ==
    /\ terminate = "Wait" /\ \A t \in mhThreads : At(t, "Ended")
    /\ terminate' = "Deleted"
    /\ UNCHANGED <<slotVars, ioVars, serverVars, threadVars, listening, i, missed,
                   calls>>

Terminate == CloseListen \/ CloseSession \/ PostNulls \/ Delete

--------------------------------------------------------------------------------
\* What a caller does to a table that has been deleted is undefined, and left out.
Next ==
    \/ AcceptorStep
    \/ \E t \in mhThreads : SessionStep(t)
    \/ \E w \in Workers : WorkerStep(w)
    \/ terminate # "Deleted" /\ \E c \in Callers : CallerStep(c) \/ SessionStep(c)
    \/ \E s \in Slots, kind \in {"recv", "send"} : Complete(s, kind)
    \/ \E s \in Slots : Break(s)
    \/ Terminate

\* Every thread of the server that can run runs, and Terminate once it is called.
\* What the network does, when a connection comes, when the program calls, and
\* whether it terminates the server at all, is left open.
Spec ==
    /\ Init /\ [][Next]_vars
    /\ WF_vars(SetID \/ SetSession \/ Join \/ AcceptFails \/ SessionStep(Acceptor))
    /\ \A w \in Workers : WF_vars(WorkerStep(w) \/ SessionStep(w))
    /\ WF_vars(CloseSession \/ PostNulls \/ Delete)

--------------------------------------------------------------------------------
(* Properties                                                              *)

\* the threads with a reference of their own, and those with one of an operation
\* that they are not done with
Holders(s) == {t \in Threads : cur[t] = s /\ ~At(t, "SetID") /\ ~At(t, "SetSession")
                               /\ ~(At(t, "Release") /\ ret[t] = "Idle")}
Undoers(s) == {t \in Threads : cur[t] = s /\ pc[t] \in {"Undo", "SendFailed"}}

\* The references of a session are counted exactly; and a session, whatever
\* becomes of its references, keeps its ID and its slot, because the exchange
\* that would release it compares more than the Verifier: mMaximumSessionCount
\* connections are all a LanServer ever takes.
SlotsKept ==
    /\ \A s \in Slots :
        ioCount[s] = Cardinality(posted[s]) + Cardinality(Holders(s)) + Cardinality(Undoers(s))
                     + Cardinality({k \in DOMAIN port : port[k].slot = s})
    /\ \A ID \in joined : id[ID[2]] = ID /\ ID[2] \notin useable

\* When Terminate deletes the table no thread of the server uses it any more,
\* although the program may have called TrySendMessage and TryDisconnect until
\* then.  (A call that is still in progress uses freed memory.)  Operations may
\* still be posted, which would be completed into memory that is gone: those that
\* its closesocket has cancelled, and those of a connection that the acceptor was
\* setting up when Terminate had already passed its slot.
TableDeleted ==
    terminate = "Deleted" =>
        /\ \A t \in mhThreads : At(t, "Ended") /\ cur[t] = NoSlot
        /\ \A s \in Slots : posted[s] # {} => sock[s] = "closed" \/ s \in missed

\* Terminate returns: each worker takes one of the completions it posts, behind
\* whatever else is in the port, and the acceptor's accept fails.
TerminateReturns == (terminate = "Close") ~> (terminate = "Deleted")
================================================================================
