-------------------------------- MODULE SendPath --------------------------------
(***************************************************************************)
(* TrySendMessage, sendPost and the completion of a WSASend, down to the   *)
(* messages: the SendQueue and its size, bIsSending, SentMessages and      *)
(* NumSent, and the reference counts of the messages they hold.            *)
(*                                                                         *)
(* SessionLifetime shows when releaseSession runs: when no thread is       *)
(* inside the session and nothing is posted.  Here that is the guard of    *)
(* ReleaseSession, and the reference of the receive is a flag.             *)
(* The links of SendQueue are a sequence, in the order in which they come  *)
(* out; mSize, which TryDequeue lowers before it looks, is a variable of   *)
(* its own.  LockFreeQueue shows that nothing is lost or repeated, and     *)
(* that the order is that of the links when one thread enqueues only.      *)
(***************************************************************************)
EXTENDS Integers, FiniteSets, SequencesExt

CONSTANTS
    Sessions,
    Messages,   \* MessagePool: fewer than MAX_ASYNC_SENDS, so no drain overruns SentMessages
    Senders,    \* threads that create messages and call TrySendMessage
    Workers,    \* threads that run workerThread
    MaxCreate,  \* bound: how many messages are created
    NoSession, NoMessage

ASSUME SendAssumption ==
    /\ IsFiniteSet(Sessions) /\ IsFiniteSet(Messages)
    /\ IsFiniteSet(Senders) /\ IsFiniteSet(Workers)
    /\ Senders \cap Workers = {}
    /\ NoSession \notin Sessions /\ NoMessage \notin Messages
    /\ MaxCreate \in Nat

Threads == Senders \cup Workers
Indexes == 1 .. Cardinality(Messages)

VARIABLES
    open,       \* the session is set up and not released
    receiving,  \* a WSARecv holds a reference of the session
    queue,      \* SendQueue: the linked messages
    size,       \* SendQueue.mSize
    sending,    \* bIsSending
    sent,       \* SentMessages
    numSent,    \* NumSent
    posted,     \* a WSASend is outstanding ...
    buffers,    \* ... of these messages
    cancelled,  \* ... and was cancelled or reset
    refs,       \* Message::mRefCount
    pc, at,     \* where a thread is, and in which session
    msg, todo,  \* the message a sender sends, and to whom it still does
    n,          \* numSend, or workerThread's i
    created,    \* messages created so far
    wire,       \* history: what the current connection carried
    failed,     \* history: a WSASend of the connection failed at once ...
    lost,       \* ... and the messages such a WSASend was given
    cut         \* history: a WSASend of the connection completed with no bytes

queueVars == <<queue, size>>
sendVars == <<sending, sent, numSent, posted, buffers, cancelled>>
sessionVars == <<open, receiving, queueVars, sendVars>>
threadVars == <<pc, at, msg, todo, n>>
historyVars == <<wire, failed, lost, cut>>
vars == <<sessionVars, threadVars, refs, created, historyVars>>

Init ==
    /\ open = [s \in Sessions |-> TRUE]
    /\ receiving = [s \in Sessions |-> TRUE]
    /\ queue = [s \in Sessions |-> <<>>]
    /\ size = [s \in Sessions |-> 0]
    /\ sending = [s \in Sessions |-> FALSE]
    /\ sent = [s \in Sessions |-> [i \in Indexes |-> NoMessage]]
    /\ numSent = [s \in Sessions |-> 0]
    /\ posted = [s \in Sessions |-> FALSE]
    /\ buffers = [s \in Sessions |-> <<>>]
    /\ cancelled = [s \in Sessions |-> FALSE]
    /\ refs = [m \in Messages |-> 0]
    /\ pc = [t \in Threads |-> "Idle"]
    /\ at = [t \in Threads |-> NoSession]
    /\ msg = [t \in Threads |-> NoMessage]
    /\ todo = [t \in Threads |-> {}]
    /\ n = [t \in Threads |-> 0]
    /\ created = 0
    /\ wire = [s \in Sessions |-> <<>>]
    /\ failed = [s \in Sessions |-> FALSE]
    /\ lost = {}
    /\ cut = [s \in Sessions |-> FALSE]

OneSender == \A t, u \in Senders : t = u

Goto(t, l) == pc' = [pc EXCEPT ![t] = l]
Set(f, x, v) == [f EXCEPT ![x] = v]

--------------------------------------------------------------------------------
(* The caller: Message::Create, TrySendMessage to each of its targets,     *)
(* Message::Release.  One message may go to several sessions.              *)

Create(t, m, targets) ==
    /\ pc[t] = "Idle" /\ created < MaxCreate
    /\ refs[m] = 0
    /\ refs' = Set(refs, m, 1)
    /\ msg' = Set(msg, t, m)
    /\ todo' = Set(todo, t, targets)
    /\ created' = created + 1
    /\ lost' = lost \ {m}
    /\ Goto(t, "Call")
    /\ UNCHANGED <<sessionVars, at, n, wire, failed, cut>>

\* acquireSessionOrNull, then AddReferenceCount; the encoding is done once
Acquire(t, s) ==
    /\ pc[t] = "Call" /\ s \in todo[t]
    /\ todo' = Set(todo, t, todo[t] \ {s})
    /\ IF open[s]
       THEN /\ refs' = [refs EXCEPT ![msg[t]] = @ + 1]
            /\ at' = Set(at, t, s)
            /\ Goto(t, "Link")
       ELSE UNCHANGED <<refs, at, pc>>
    /\ UNCHANGED <<sessionVars, msg, n, created, historyVars>>

\* ReleaseMessage of the caller
Drop(t) ==
    /\ pc[t] = "Call" /\ todo[t] = {}
    /\ refs' = [refs EXCEPT ![msg[t]] = @ - 1]
    /\ msg' = Set(msg, t, NoMessage)
    /\ Goto(t, "Idle")
    /\ UNCHANGED <<sessionVars, at, todo, n, created, historyVars>>

\* TryEnqueue links the message and then counts it.  The queue is in order of
\* arrival for one sender; with several, a message may come to lie before others
\* that were linked earlier, behind a node that was not linked itself.
Link(t) ==
    /\ pc[t] = "Link"
    /\ \E i \in 1 .. Len(queue[at[t]]) + 1 :
        /\ OneSender => i = Len(queue[at[t]]) + 1
        /\ queue' = [queue EXCEPT ![at[t]] = InsertAt(@, i, msg[t])]
    /\ Goto(t, "Count")
    /\ UNCHANGED <<open, receiving, size, sendVars, refs, at, msg, todo, n, created,
                   historyVars>>

Count(t) ==
    /\ pc[t] = "Count"
    /\ size' = [size EXCEPT ![at[t]] = @ + 1]
    /\ Goto(t, "IsEmpty")
    /\ UNCHANGED <<open, receiving, queue, sendVars, refs, at, msg, todo, n, created,
                   historyVars>>

--------------------------------------------------------------------------------
(* sendPost                                                                *)

\* the reference of the session is given back
Leave(t) ==
    /\ pc[t] = "Leave"
    /\ at' = Set(at, t, NoSession)
    /\ n' = Set(n, t, 0)
    /\ Goto(t, IF t \in Senders THEN "Call" ELSE "Idle")
    /\ UNCHANGED <<sessionVars, refs, msg, todo, created, historyVars>>

IsEmpty(t) ==
    /\ pc[t] = "IsEmpty"
    /\ Goto(t, IF size[at[t]] <= 0 THEN "Leave" ELSE "Exchange")
    /\ UNCHANGED <<sessionVars, refs, at, msg, todo, n, created, historyVars>>

\* mutant: the old value of bIsSending is not looked at
ExchangeBlind(t) ==
    /\ pc[t] = "Exchange"
    /\ sending' = Set(sending, at[t], TRUE)
    /\ Goto(t, "Take")
    /\ UNCHANGED <<open, receiving, queueVars, sent, numSent, posted, buffers, cancelled,
                   refs, at, msg, todo, n, created, historyVars>>

Exchange(t) ==
    /\ pc[t] = "Exchange"
    /\ sending' = Set(sending, at[t], TRUE)
    /\ Goto(t, IF sending[at[t]] THEN "Leave" ELSE "Take")
    /\ UNCHANGED <<open, receiving, queueVars, sent, numSent, posted, buffers, cancelled,
                   refs, at, msg, todo, n, created, historyVars>>

\* TryDequeue lowers mSize first ...
Lower(t) ==
    /\ pc[t] = "Take"
    /\ size' = [size EXCEPT ![at[t]] = @ - 1]
    /\ Goto(t, IF size[at[t]] <= 0 THEN "Restore" ELSE "Store")
    /\ UNCHANGED <<open, receiving, queue, sendVars, refs, at, msg, todo, n, created,
                   historyVars>>

\* ... and raises it again when there was nothing
Restore(t) ==
    /\ pc[t] = "Restore"
    /\ size' = [size EXCEPT ![at[t]] = @ + 1]
    /\ Goto(t, "Post")
    /\ UNCHANGED <<open, receiving, queue, sendVars, refs, at, msg, todo, n, created,
                   historyVars>>

\* mutant: the message is stored where the previous one was
StoreInPlace(t) ==
    /\ pc[t] = "Store"
    /\ sent' = [sent EXCEPT ![at[t]][1] = Head(queue[at[t]])]
    /\ queue' = [queue EXCEPT ![at[t]] = Tail(@)]
    /\ n' = Set(n, t, 1)
    /\ Goto(t, "Take")
    /\ UNCHANGED <<open, receiving, size, sending, numSent, posted, buffers, cancelled,
                   refs, at, msg, todo, created, historyVars>>

Store(t) ==
    /\ pc[t] = "Store"
    /\ sent' = [sent EXCEPT ![at[t]][n[t] + 1] = Head(queue[at[t]])]
    /\ queue' = [queue EXCEPT ![at[t]] = Tail(@)]
    /\ n' = [n EXCEPT ![t] = @ + 1]
    /\ Goto(t, "Take")
    /\ UNCHANGED <<open, receiving, size, sending, numSent, posted, buffers, cancelled,
                   refs, at, msg, todo, created, historyVars>>

\* NumSent is set and WSASend called, also when the queue turned out empty.
Post(t) ==
    /\ pc[t] = "Post"
    /\ numSent' = Set(numSent, at[t], n[t])
    /\ \/ /\ posted' = Set(posted, at[t], TRUE)
          /\ buffers' = Set(buffers, at[t], SubSeq(sent[at[t]], 1, n[t]))
          /\ Goto(t, "Leave")
          /\ UNCHANGED <<failed, lost>>
       \/ /\ failed' = Set(failed, at[t], TRUE)
          /\ lost' = lost \cup ToSet(SubSeq(sent[at[t]], 1, n[t]))
          /\ Goto(t, "Undo")
          /\ UNCHANGED <<posted, buffers>>
    /\ UNCHANGED <<open, receiving, queueVars, sending, sent, cancelled, refs, at, msg,
                   todo, n, created, wire, cut>>

Undo(t) ==
    /\ pc[t] = "Undo"
    /\ sending' = Set(sending, at[t], FALSE)
    /\ Goto(t, "Leave")
    /\ UNCHANGED <<open, receiving, queueVars, sent, numSent, posted, buffers, cancelled,
                   refs, at, msg, todo, n, created, historyVars>>

--------------------------------------------------------------------------------
(* workerThread, case EIOType::Send                                        *)

Finish(s) ==
    /\ posted[s]
    /\ posted' = Set(posted, s, FALSE)
    /\ buffers' = Set(buffers, s, <<>>)
    /\ cancelled' = Set(cancelled, s, FALSE)

CompleteData(w, s) ==
    /\ pc[w] = "Idle"
    /\ buffers[s] # <<>> /\ ~ cancelled[s]
    /\ Finish(s)
    /\ wire' = [wire EXCEPT ![s] = @ \o buffers[s]]
    /\ at' = Set(at, w, s)
    /\ Goto(w, "Reclaim")
    /\ UNCHANGED <<open, receiving, queueVars, sending, sent, numSent, refs, msg, todo, n,
                   created, failed, lost, cut>>

\* cbTransferred == 0: cancelled, reset, or a WSASend of no buffers.  The
\* reference is given back, and nothing else.
CompleteZero(w, s) ==
    /\ pc[w] = "Idle"
    /\ buffers[s] = <<>> \/ cancelled[s]
    /\ Finish(s)
    /\ cut' = Set(cut, s, TRUE)
    /\ UNCHANGED <<open, receiving, queueVars, sending, sent, numSent, refs, threadVars,
                   created, wire, failed, lost>>

\* Message::Release(sentMessages[i])
Reclaim(w) ==
    /\ pc[w] = "Reclaim" /\ n[w] < numSent[at[w]]
    /\ refs' = [refs EXCEPT ![sent[at[w]][n[w] + 1]] = @ - 1]
    /\ n' = [n EXCEPT ![w] = @ + 1]
    /\ UNCHANGED <<sessionVars, pc, at, msg, todo, created, historyVars>>

\* mutant: the worker does not look for messages queued meanwhile
ClearAndLeave(w) ==
    /\ pc[w] = "Reclaim" /\ n[w] = numSent[at[w]]
    /\ numSent' = Set(numSent, at[w], 0)
    /\ sending' = Set(sending, at[w], FALSE)
    /\ n' = Set(n, w, 0)
    /\ Goto(w, "Leave")
    /\ UNCHANGED <<open, receiving, queueVars, sent, posted, buffers, cancelled, refs, at,
                   msg, todo, created, historyVars>>

Clear(w) ==
    /\ pc[w] = "Reclaim" /\ n[w] = numSent[at[w]]
    /\ numSent' = Set(numSent, at[w], 0)
    /\ sending' = Set(sending, at[w], FALSE)
    /\ n' = Set(n, w, 0)
    /\ Goto(w, "IsEmpty")
    /\ UNCHANGED <<open, receiving, queueVars, sent, posted, buffers, cancelled, refs, at,
                   msg, todo, created, historyVars>>

--------------------------------------------------------------------------------
(* The session around it.                                                  *)

\* TryDisconnect or the peer: what is outstanding will complete with nothing.
Cut(s) ==
    /\ open[s]
    /\ \/ /\ receiving[s]
          /\ receiving' = Set(receiving, s, FALSE)
          /\ UNCHANGED cancelled
       \/ /\ posted[s] /\ ~ cancelled[s]
          /\ cancelled' = Set(cancelled, s, TRUE)
          /\ UNCHANGED receiving
    /\ UNCHANGED <<open, queueVars, sending, sent, numSent, posted, buffers, refs,
                   threadVars, created, historyVars>>

Inside(s) == {t \in Threads : at[t] = s}

\* how often a message occurs in a sequence
Times(m, seq) == Cardinality({i \in DOMAIN seq : seq[i] = m})

\* the messages SentMessages owns
Owned(s) == SubSeq(sent[s], 1, numSent[s])

\* mutant: the messages of an unfinished send are forgotten
ReleaseQueueOnly(s) ==
    /\ open[s] /\ ~ receiving[s] /\ ~ posted[s] /\ Inside(s) = {}
    /\ refs' = [m \in Messages |-> refs[m] - Times(m, queue[s])]
    /\ open' = Set(open, s, FALSE)
    /\ queue' = Set(queue, s, <<>>)
    /\ size' = Set(size, s, 0)
    /\ UNCHANGED <<receiving, sendVars, threadVars, created, historyVars>>

\* releaseSession drains the queue and releases SentMessages[0 .. NumSent - 1].
ReleaseSession(s) ==
    /\ open[s] /\ ~ receiving[s] /\ ~ posted[s] /\ Inside(s) = {}
    /\ refs' = [m \in Messages |-> refs[m] - Times(m, queue[s] \o Owned(s))]
    /\ open' = Set(open, s, FALSE)
    /\ queue' = Set(queue, s, <<>>)
    /\ size' = Set(size, s, 0)
    /\ UNCHANGED <<receiving, sendVars, threadVars, created, historyVars>>

\* acceptThread sets the slot up for the next connection.
AcceptSession(s) ==
    /\ ~ open[s]
    /\ open' = Set(open, s, TRUE)
    /\ receiving' = Set(receiving, s, TRUE)
    /\ sending' = Set(sending, s, FALSE)
    /\ numSent' = Set(numSent, s, 0)
    /\ wire' = Set(wire, s, <<>>)
    /\ failed' = Set(failed, s, FALSE)
    /\ cut' = Set(cut, s, FALSE)
    /\ UNCHANGED <<queueVars, sent, posted, buffers, cancelled, refs, threadVars, created,
                   lost>>

SenderStep(t) ==
    \/ \E m \in Messages, targets \in SUBSET Sessions \ {{}} : Create(t, m, targets)
    \/ \E s \in Sessions : Acquire(t, s)
    \/ Drop(t) \/ Link(t) \/ Count(t)

WorkerStep(w) ==
    \/ \E s \in Sessions : CompleteData(w, s) \/ CompleteZero(w, s)
    \/ Reclaim(w) \/ Clear(w)

SendPost(t) ==
    \/ IsEmpty(t) \/ Exchange(t) \/ Lower(t) \/ Restore(t) \/ Store(t) \/ Post(t)
    \/ Undo(t) \/ Leave(t)

Next ==
    \/ \E t \in Senders : SenderStep(t)
    \/ \E w \in Workers : WorkerStep(w)
    \/ \E t \in Threads : SendPost(t)
    \/ \E s \in Sessions : Cut(s) \/ ReleaseSession(s) \/ AcceptSession(s)

Spec == Init /\ [][Next]_vars

\* Threads inside a handler run on, and completions are taken from the port.
Fairness ==
    /\ \A t \in Threads : WF_vars(SendPost(t))
    /\ \A t \in Senders : WF_vars(pc[t] # "Idle" /\ SenderStep(t))
    /\ \A w \in Workers : WF_vars(WorkerStep(w))

FairSpec == Spec /\ Fairness

--------------------------------------------------------------------------------
(* Properties                                                              *)

DrainLabels == {"Take", "Restore", "Store", "Post"}
OwnerLabels == DrainLabels \cup {"Undo", "Reclaim"}

Draining(s) == {t \in Inside(s) : pc[t] \in DrainLabels}
Owners(s) == {t \in Inside(s) : pc[t] \in OwnerLabels}

\* what a thread that drains the queue has taken so far
Drained(s) ==
    IF Draining(s) = {} THEN <<>>
    ELSE LET t == CHOOSE t \in Draining(s) : TRUE IN SubSeq(sent[s], 1, n[t])

\* what a worker that handles a completion still has to release
Unreclaimed(s) ==
    LET done == {n[w] : w \in {w \in Inside(s) : pc[w] = "Reclaim"}}
    IN IF done = {} THEN 0 ELSE CHOOSE i \in done : TRUE

\* where a session holds a message: in its queue, or in SentMessages
Queued(m, s, i) == open[s] /\ i <= Len(queue[s]) /\ queue[s][i] = m
Taken(m, s, i) == i <= Len(Drained(s)) /\ Drained(s)[i] = m
Unreleased(m, s, i) ==
    /\ open[s] /\ Draining(s) = {}
    /\ i \in Unreclaimed(s) + 1 .. numSent[s]
    /\ sent[s][i] = m

\* The references a message should have: its creator's, that of a sender about
\* to link it, and one for each place in a queue or in SentMessages.
Holders(m) ==
    Cardinality({t \in Senders : msg[t] = m})
    + Cardinality({t \in Senders : msg[t] = m /\ pc[t] = "Link"})
    + Cardinality({p \in Sessions \X Indexes : Queued(m, p[1], p[2])})
    + Cardinality({p \in Sessions \X Indexes : Taken(m, p[1], p[2])})
    + Cardinality({p \in Sessions \X Indexes : Unreleased(m, p[1], p[2])})

\* No message goes back to the pool while a queue, an outstanding WSASend or a
\* sender still refers to it, whichever sessions it was sent to; and it does go
\* back with the last of them, unless a WSASend it was given to failed at once.
ReferencesKept ==
    \A m \in Messages :
        /\ refs[m] >= Holders(m)
        /\ m \notin lost => refs[m] = Holders(m)

\* SentMessages, NumSent and SendOverlapped have one user at a time, and while
\* a WSASend is outstanding SentMessages are the messages it was given.
OneSend ==
    \A s \in Sessions :
        /\ Cardinality(Owners(s)) + (IF posted[s] THEN 1 ELSE 0) <= 1
        /\ Owners(s) # {} \/ posted[s] => sending[s] /\ open[s]
        /\ posted[s] => buffers[s] = Owned(s)

\* A message is never left in the queue of a session that nobody works on: not
\* when IsEmpty was read while TryDequeue had lowered mSize, nor when the
\* exchange failed on a thread about to finish.  The exceptions are sends that
\* failed or completed with no bytes (the latter never clears bIsSending).
NoneStranded ==
    \A s \in Sessions :
        open[s] /\ queue[s] # <<>> /\ Inside(s) = {} /\ ~ posted[s]
            => failed[s] \/ (cut[s] /\ sending[s])

\* What is queued is sent, unless a send of the connection fails.
QueueDrains ==
    \A s \in Sessions :
        queue[s] # <<>> ~> queue[s] = <<>> \/ failed[s] \/ cut[s]

\* What the contract calls the outbox: taken by the owner or posted, then queued.
Outbox == [s \in Sessions |->
              (IF posted[s] THEN buffers[s] ELSE Drained(s)) \o queue[s]]

Faulty == [s \in Sessions |-> failed[s] \/ cut[s] \/ ~ open[s]]

Contract == INSTANCE SendContract
    WITH outbox <- Outbox, faulty <- Faulty, InOrder <- OneSender
RefinesSendContract == Contract!Spec
================================================================================
