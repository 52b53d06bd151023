# NetworkLib: a TLA+ model

NetworkLib is a Windows network library built on an I/O completion port (`WanServer`, with the
older `LanServer`), the lock-free containers and pools under it, and a chat server on top of it.
There are no tests and hardly any documentation, and what can go wrong here is mostly a matter of
timing. This directory holds TLA+ models of the library, written from its C++ source, with TLC
runs that check them on small instances and TLAPS proofs, for instances of any size, of what
matters most about sessions, sending, receiving, the pools, the lock-free stack and queue, messages
and their encoding, the chat server and the end of a server.

All paths are under `src/NetworkLib/`.

## 1. The system

| Part | State | Operations | Talks to |
| --- | --- | --- | --- |
| `WanServer` sessions | the session table; for each session its ID, socket, `ReleaseFlag` and `CurrentAsyncIOCount` (one 32-bit word), a stack of free indexes, `mCurrentSessionCount` | accept, acquire by ID, release, disconnect | callbacks to the listener; the completion port |
| `WanServer` send path | `SendQueue`, `bIsSending`, `SentMessages`, `NumSent` | `TrySendMessage`, `sendPost`, completion of a send | any thread may send; one worker takes the completion |
| `WanServer` receive path | `ReceiveBuffer` | `recvPost`, completion of a receive, framing | `OnRecv` of the listener |
| `RingBuffer` | front, rear, cells | peek, dequeue, direct sizes | receive path |
| `LockFreeQueue`, `LockFreeStack`, `ObjectPool` | linked nodes, tagged pointers, `mSize` | enqueue, dequeue; push, pop; get, release | `SendQueue`, the event queue, free indexes, every pool |
| `TLSObjectPool`, `Chunk` | a chunk per thread, two shared pools of chunks | get, release | `Message` |
| `Message` | a buffer, `mRefCount`, an encoded flag | create, add a reference, release, stream operators | everything that sends or receives |
| packet encoding | none | `encode`, `decode`, checksum | send and receive path |
| `SingleThreadChattingServer` | event queue, auto-reset event, players, sectors, accounts logged in | callbacks; an update thread | listener of `WanServer` |
| `MultiThreadChattingServer` | players and sectors under locks | callbacks | unfinished: three of its four packet handlers are empty, and nothing starts it |
| `LanServer` | as `WanServer`, and the state of `Terminate` | as `WanServer`, without encoding | nothing starts it |
| `Profiler`, `CCrashDump`, `ProcessTaskManager`, `IntrusivePointer` | | | developer tools and system counters |

What is hard:

* **The session word.** A session has no lock. Whoever works on it, every posted operation
  included, holds a reference in `CurrentAsyncIOCount`; the thread that takes the count to zero
  exchanges the word (flag and count together) from 0 to 1 and with that owns the release. Slots
  are recycled at once, so a caller with an old ID may take a reference on a slot that is
  released, free, half set up, or already another session's, and must find out and undo it.
* **The send gate.** Any number of threads enqueue and call `sendPost`; `mSize` and `bIsSending`
  decide which of them drains the queue. `TryDequeue` lowers `mSize` before it looks, so the gate
  is not always what it seems, and completions, failures and disconnects come in between.
* **Framing on a ring.** Packets arrive cut anywhere and wrapped; the receive is posted for the
  contiguous free space, which must never be nothing.
* **Tagged pointers.** Nodes are recycled while other threads hold pointers to them.
* **Chunks of messages.** Each thread has a chunk of messages of its own, and gives it away and
  takes another when it is empty or full; threads begin and end.
* **One buffer, many readers.** A broadcast is one message in many send queues, encoded in place
  while the network may be reading it; its buffer was another message a moment ago.
* **Stopping.** `Terminate` closes what it finds in a table that other threads are still using,
  waits for them, and deletes the table.
* **Events and players.** Network threads and the update thread share a queue and an auto-reset
  event; players go through joins, kicks and leaves that overtake each other's packets.

What makes each part correct: the count equals the references in existence; nobody works on a
released or recycled session; one thread releases it, once, and somebody always does; the listener
hears of each session once when it comes and once when it goes. Messages reach a connection at
most once, in order if one thread sends, and none is stranded; a message is freed with its last
reference. The
listener gets exactly the packets sent, and clients exactly the messages. The queue loses and
repeats nothing; no object of a pool is given out twice. Players, sectors and the pool agree.
`Terminate` returns, and when it does no thread uses the table.

## 2. Modules

| Module | Models | Runs |
| --- | --- | --- |
| `SessionLifetime` | session table, accept, acquire, release, posting and completion of operations, as the references see them | `lifetime_one`, `lifetime_live` |
| `SessionContract` | what the listener is promised; `SessionLifetime` implements it | in `lifetime_one` |
| `SessionLifetimeProofs` | the inductive invariant of `SessionLifetime`, its proof and theorems, and the refinement of `SessionContract` | TLAPS |
| `SendPath` | the send path down to messages and their references | `sendpath` |
| `SendContract` | a stream that only faults can shorten, ordered with one sender; `SendPath` implements it | in `sendpath` |
| `SendPathProofs` | the inductive invariants of `SendPath`, their proofs, the refinement of `SendContract` | TLAPS |
| `RingBuffer` | the buffer's operations, as operators on its value | through `RecvPath` |
| `RecvPath` | posting a receive, its completion, the framing loop | `recvpath` |
| `RecvPathProofs` | lemmas about the ring's operations; `RecvPath`'s inductive invariant and theorems | TLAPS |
| `LockFreeQueue` | enqueue and dequeue, access by access | `queue_one`, `queue_two` |
| `QueueContract` | first in, first out; `LockFreeQueue` implements it with one producer | in `queue_one` |
| `LockFreeQueueProofs` | its inductive invariant, proof and theorems, and the refinement of `QueueContract` | TLAPS |
| `ObjectPool` | getting and releasing objects, access by access | `pool` |
| `LockFreeStack` | push and pop, access by access, on top of `ObjectPool` | `stack` |
| `StackContract` | last in, first out; `LockFreeStack` implements it | in `stack` |
| `LockFreeStackProofs` | lemmas about linked lists; the inductive invariants of `ObjectPool` and `LockFreeStack`, theorems, the refinement of `StackContract` | TLAPS |
| `TLSObjectPool` | a thread's chunk, the two pools of chunks, `Chunk` | `tlspool` |
| `TLSObjectPoolProofs` | its inductive invariant, proof and theorems | TLAPS |
| `PacketCodec` | `encode`, `decode`, `calculateCheckSum`, as operators on bytes | through `Broadcast` |
| `Message` | a message's buffer, as operators on its value | through `Broadcast` |
| `Broadcast` | a message from one client, read, rewritten and sent to several | `broadcast` |
| `ChatServer` | the callbacks, the event queue, the update thread | `chat` |
| `ChatServerProofs` | the inductive invariants of `ChatServer` and of `Broadcast`, their proofs and theorems; lemmas about `PacketCodec` and `Message` | TLAPS |
| `LanServer` | `LanServer` from `TryRun` to `Terminate` | `lan` |
| `LanServerProofs` | its inductive invariant, proof and theorems | TLAPS |

`MC*` modules only add what TLC needs: symmetry sets and small constants.

The modules are layered by what each takes from another. `SessionLifetime` shows when a session is
released and that one operation of each kind is outstanding; `SendPath` and `RecvPath` take that
as the guard of `ReleaseSession` and as one thread of control per receive. `SendPath` takes
`SendQueue`, and `ChatServer` its `mMessageQueue`, as a sequence of the links in the order in which
they will come out, with a separate size. With one producer a link is at the end of it, which is
what `LockFreeQueue` shows (`RefinesQueue`). With several, a node may be linked behind one that is
not linked itself, and comes out late; seen the other way round, the node that is linked in the end,
and what is linked behind it, may come to lie before what others linked meanwhile. Both models
therefore let a link insert its item at any place (`Link`, `Enqueue`), which is more than the code
can do, and no item is lost or taken twice (`NothingLost`). That a consumer waits while an
item is out of reach is left to `LockFreeQueue` (`ShareServed`). The set of free indexes of `SessionLifetime` is what `LockFreeStack` shows of the
stack (and `NeverPopEmpty` shows that the server never pops it empty). `TLSObjectPool` takes the
two pools of chunks as sets, which is what `ObjectPool` shows; `SendPath` and `Broadcast` take the
pool of messages as a set, which is what `TLSObjectPool` shows. `Broadcast` composes `Message` and
`PacketCodec` with the listener and the sessions. `ChatServer` takes it from `SessionLifetime` that
the callbacks of one session do not overlap: the join comes first and the leave last, when no
thread has a reference, and one receive at a time is handled (`SessionContract`,
`NoRecycleUnderHolder`, `OneOperationPerKind`). The order in which their events are linked is the
callbacks' order; the order in which they come out is not.

### SessionLifetime

One variable per field of the session's word and of the table: the count, the release flag, the
ID, free indexes, the session count; the operations posted on a session; for each thread its
place in the code and the session it works on. IDs are pairs of a serial number and an index
(`MakeID`, `IndexOf`), which is `MAKE_ID` for tables of up to 65536 sessions.

Actions follow the interlocked operations, because that is where threads meet. `acceptThread` is
`Accept, Pop, SetID, SetSocket, ClearFlag, Count, Join`, then `recvPost` (`RecvInc, RecvPost,
RecvUndo`) and `Dec`. A worker takes a completion (`Take`), handles it (`Deliver`, `SendDone`)
and drops its reference. A caller of `TrySendMessage` or `TryDisconnect` acquires
(`AcqInc, AcqFlag, AcqID`, or `AcqUndo`), uses the session and drops its reference. Whoever
reaches zero goes to `Release`, and the one whose exchange succeeds through `RelClose, RelInc,
RelLeave, RelPush, RelCount`. `Break` is the peer.

Small things the translation settles: a session whose `OnConnectionRequest` is refused never gets
a slot (and its socket, `WanServer.cpp:291`, is not closed); the branch for a full `SendQueue`
(166-174) cannot be taken since `TryEnqueue` always returns true; the stack of indexes is a set,
since which free index is used does not matter; `++uniqueID` belongs to `SetID`. `Terminate` is modelled with `LanServer`,
whose code for it is the same.

### SendPath

`queue` and `size` are the links and `mSize` of `SendQueue`; `sending, sent, numSent` are the
session's fields; `posted, buffers, cancelled` are the outstanding `WSASend`; `refs` are the
messages' counts. `Link, Count` are `TryEnqueue`, where `Link` puts the message at any place of the
queue, or at the end when there is `OneSender`; `IsEmpty, Exchange, Lower, Restore, Store, Post,
Undo` are `sendPost`; `CompleteData, Reclaim, Clear` are a completion with data, after which the
worker goes through `sendPost` again; `CompleteZero` is one without, for which the code only gives
the reference back. `wire, failed, lost, cut` are history.

### RingBuffer and RecvPath

A ring is a record of front, rear and cells. A byte is identified by its packet and its offset, so
that whatever is read too early, twice, or from an earlier connection shows. A packet is its code,
its length and whether its checksum will agree. `Complete` stores bytes and moves the rear;
`AwaitMore, RefuseHeader, RefuseCheckSum, Overrun, OnRecv` are the ways an iteration of the loop
can go. `Overrun` is a payload that passes the header check and is longer than `Message::DEFAULT_SIZE`
(`MessageSize`): it is copied beyond the message's buffer (404), and the model ends there
(`Undefined`). `Good` says what a packet must be to be promised anything;
`RecvPost` posts the next receive. `stream`, `bytes` and `ends` are the peer's: the packets it sent,
the bytes they are, and where each of them ends.

### LockFreeQueue

Each access to shared memory is a step: reading the tail, its `Next`, the exchange on `Next`, the
exchange on `mTail`, and so on. The pool is the set of nodes nobody holds (its own links are in
another field of the node, so getting and releasing never disturbs the queue's). `NodesAccounted`
and `NothingLost` are about the chains of nodes: `InQueue` from the dummy, `Hands` what a thread
has. The 16-bit count of a pointer is a number without bound, that is, no thread is held up between
a read and its exchange while 65536 exchanges go by.

### ObjectPool and LockFreeStack

`GetRead, GetNext, GetSwap, GetCount` and `PutRead, PutNext, PutSwap, PutCount` are the accesses of
`GetObject` and `ReleaseObject`, `GrowAll, GrowActive` the branch that allocates; each operation
goes on at a label its caller gives. Alone, the pool has users that keep objects and release them
in any order. `LockFreeStack` extends the module with its own top and node fields, so that a push
is a `GetObject`, two writes and an exchange, and a pop an exchange, a read and a `ReleaseObject`.

A count has `CountSize` values (65536 in the code, 4 in the runs) and wraps. That is safe only as
long as no thread is held up between its read of a top and its exchange while `CountSize`
exchanges go by: `NoneOvertaken` is that assumption, as a guard of the exchanges, and `age` counts
what it needs. Any thread may pop here; the servers pop from one thread only.

`Chain(o, succ)`, the list from a node on, is stated rather than computed: the sequence that starts
with `o`, goes on by `succ` and ends at `Null`, or is longer than there are objects when the links
loop (`IsChain`).

### ChatServer

A callback is three steps: the link and the count of `TryEnqueue`, and `SetEvent`. The update thread
looks at `mSize`, takes the first event there is (which need not be the one that was counted) or
waits, and a handler is one step, since only the update thread touches players, sectors and accounts.
`removePlayer` is an operator used by each handler that calls it. `TrySendMessage` and
`TryDisconnect` act on the network server's state, not on this module's: `SendPath` and
`SessionLifetime` have them. The pool of event records and the references of their payloads follow
the handlers one to one and are left out. `overtaken` is history: the sessions whose `Leave` was
handled while their `Join` was still in the queue.

### TLSObjectPool

`values` are the chunks' `mValues` up to `mTop`, an object being its number; `mChunk` is each
thread's chunk. A thread is at a label of the middleware: `Construct` and `Fill` when it begins,
`GetObject, Take, Fill, Pop`, `ReleaseObject, Swap, Push`, and `Exit`; a thread begins at most once,
and a thread that has exited does nothing any more. `Fill` allocates one object at a time, so that others run in between.
Objects may be released by any thread; the users of the pool are bounded by how many objects they
hold at once.

### Message, PacketCodec and Broadcast

A message is the bytes between its two positions, the room before them, its capacity and its
encoded flag. `Put` and `Get` stand for the thirteen operators `<<` and `>>`, which differ in the
size of the value alone. `Encode` and `Decode` are the loops of `encode` and `decode` on bytes,
with the sums taken on `int` and the low byte stored. The exclusive or of bytes is made of a table
for four bits (`Nibbles`, `Mixed`), which is quick to evaluate and which the provers can compute with.

`Broadcast` is what happens to a chat message: `Receive` decodes a packet that a client encoded,
`ReadValues` reads its values, `Write` builds the answer, `TrySendMessage` once per session encodes it
at the first and counts a reference at each; sessions complete, close and open in between. A body that does not fit into a message is not
received, by a guard: `RecvPath` has that case (`Overrun`). The
queue of a session stands for `SendQueue` and `SentMessages` together: a `WSASend` may read the
buffer at any time while the message is in it.

### LanServer

The variables are `SessionLifetime`'s, with a completion port that is a queue, and with
`terminate, i`, the place of `Terminate`. Three things differ from `WanServer`: `TryDisconnect`
closes the socket, a fresh slot's count is 0 and is raised after its flag was cleared, and the
exchange of `releaseSession` (487) is of 64 bits, the upper half of which is the low word of the
receive buffer's `mBuffer`. `BufferLow` is that word, and `LanAssumption` says that it is not zero;
the branch behind the exchange is `Released`. `missed` is history: the slots without a socket when
`Terminate` came by. Callers go on while `Terminate` runs, as nothing in it stops them, up to the
deletion of the table; what a call does after that is undefined and left out. The `ID` and `Socket` of a slot that was never used are not initialised; no
caller has such an ID, and closing such a socket does nothing that the model would see.

## 3. Runs

| Run | Instance | Shows |
| --- | --- | --- |
| `lifetime_one` | 1 slot, 2 connections, 2 workers, 2 callers with any ID ever given out | types, exact count, holders are safe, one releaser, one operation of a kind, the last reference is noticed, no recycling under a holder; the table fills, empties and is recycled and free slots, count and callbacks agree; refines `SessionContract` |
| `lifetime_live` | 1 caller, fair | a broken connection is released and announced |
| `sendpath` | 1 session, 2 messages created 3 times, 2 senders, 1 worker, fair | one owner of the send fields, nothing stranded, references of messages, the queue drains; refines `SendContract` without its order |
| `recvpath` | 6 cells, header of 2, a message of 2, payloads 0 to 4 (3 passes the header check and overruns the message, 4 is refused), a bad code, a bad checksum, 3 packets a connection, fair | framing, exact buffer, room to receive, packets arrive |
| `queue_one` | 1 producer, 2 consumers, 4 nodes, 4 items | refines `QueueContract` |
| `queue_two` | 2 producers, 1 consumer, 3 nodes, 6 items, fair | no node and no item lost, consumers served |
| `pool` | 3 objects, 2 of them to begin with, 3 threads, a count of 4 values | no object given out twice or lost |
| `stack` | 3 indexes, 3 nodes, 2 threads that pop, 1 that pushes, a count of 4 values | refines `StackContract`; the node pool never grows |
| `tlspool` | 2 threads that begin once and may exit, 5 chunks of 2 objects, 4 objects in use at once | a chunk is in one place, neither popped when empty nor pushed when full; an object is in one place; memory stays within a fixed distance of what is in use |
| `broadcast` | 3 messages with a buffer of 8 bytes, 2 sessions, 2 bodies of which one makes its answer outgrow the buffer, random key 255 (all sums overflow), 1 packet waiting | decoding undoes encoding for all 256 keys; the listener and every session read what was written; the pool gets messages back as good as new |
| `chat` | 2 sessions, one after the other or together, 2 player objects, 2 accounts, 2 sectors and one out of range, 3 queued events, 3 packets | objects, sectors and players agree; no player without a session but one whose `Leave` overtook its `Join`; the update thread never sleeps over an event |
| `lan` | 1 slot, 3 workers, 2 callers, up to 3 connections, `Terminate` at any moment, whatever the callers do, fair | no session is released and its count is exact; `Terminate` returns; no thread of the server outlives the table |

Why the bounds suffice. A slot's history matters through one recycling: `lifetime_one` has a
stale ID, a released slot and a fresh session, against two threads on each side. More connections only repeat that. In `SendPath` two messages make the queue non-empty while
one is being sent and the third creation reuses a message; with two in the queue a link can come
before, between or after others. In `RecvPath` five usable cells hold
two small packets and part of a third, every front offset is reached, and the lengths stand just
below, at and above what fits into the ring and into a message. In `LockFreeQueue` a node must be dequeued, recycled and refilled
while a thread holds an old pointer to it, which takes three nodes and three items. On a top with a
count, what the count prevents takes three exchanges by others while one thread waits: a count of
four values is the smallest that tells them apart, and both runs wrap it. In
`ChatServer` a session reuses a player object that was another's, and three events in the queue are
enough for one session's `Leave` to overtake its `Join` with another's event between them, or
to be merged into one signal. In `TLSObjectPool` chunks of two
objects are empty, full or neither, and two threads are enough to pass one on. In `Broadcast` three
messages are the one received, the one being sent and one that is still in a queue, and all keys
go through the codec. In `LanServer` a second connection would be set
up only if the slot came back, the first is being set up while `Terminate` walks the table, and
three workers and two callers are on one session. Tables of any size are for the proofs.

Where a run says `CHECK_DEADLOCK FALSE` the bound on connections, items or packets is used up, and
stopping is right.

### Fairness

* `lifetime_live`: threads inside the code run on, and completions are taken. A completion port
  is first in, first out, so a completion that is there is not passed over for ever while others
  are taken: completions with nothing are taken under strong fairness. One caller, as in
  `main.cpp`, where only the update thread calls the server: two callers with stale IDs can keep
  each other's references alive in turns, and so starve the release. No fairness is assumed of
  new connections, of callers or of the peer.
* `SendPath`: threads inside a call run on, and a completion is taken. A `WSASend` that is posted
  completes, since its peer reads, or the connection is cut.
* `RecvPath`: the handler runs on; bytes that were sent arrive.
* `LockFreeQueue`: threads inside an operation run on.
* `LanServer`: the acceptor, each worker and `Terminate`, once it was called, run on when they can;
  nothing is assumed of the network, of callers, or that `Terminate` is called at all.

## 4. Proofs

`SessionLifetimeProofs` proves, for any number of slots, connections, workers and callers,
`Spec => []IInv` (theorem `Invariant`). `RefsExact` alone is not inductive: that the count equals
the references in existence survives a step only if one knows which place in the code holds a
reference of which session, that a slot in set-up or release has one thread on it, and that a
thread holding a reference stands on a session that is not released or is about to undo it.
`IInv` has a conjunct for each of these: types, the role of each thread and the places it can be
in, the exact count, exclusive set-up and release, holders on live sessions, and the accounting of
slots. TLC checked `IInv` on the instances of section 3 before it was proved. The proof has one
lemma per action, a step per conjunct, and counting lemmas (what adding or removing one holder
does to a cardinality) that all of them cite.

From it follow `TypeCorrect`, `ExactReferences`, `HoldersAreSafe`,
`ReleasedOnce`, `NeverRecycledUnderHolder` (an action property), `LastReferenceIsNoticed`,
`EverySlotAccounted` and `PopFindsSlot`. The assumptions are those the module states of its
constants: the sets are finite and disjoint where it matters.

`TLSObjectPoolProofs` proves, for any threads, any chunks and any `CHUNK_SIZE`, that a chunk is one
thread's, in one pool, or unmade (`ChunksHaveOneOwner`), and that an object is in use once or in one
cell of one chunk (`ObjectsHaveOnePlace`). The first is nearly inductive: it needs the types, and
that a chunk in the empty pool is empty. The second needs the first (two threads never write the
same chunk) and the numbering of objects (what is anywhere was allocated before, so a new object is
new). What a thread does to the chunks is one of three things, to take one, to give its own away
and to work on its own, and there is a lemma for each.
`MemoryStaysBounded` proves `MemoryBounded`, which is not inductive: an allocation is made long after
it was decided on. `Reserved` therefore adds to `made` what is owed, the holes of the chunks that are
being filled and of those that lie partly filled in `FilledChunkPool`, and bounds the sum. A thread
that starts or exits brings one chunk of holes and pays for it; a `Fill` turns a hole into an object;
and when `Take` has to allocate a chunk, `FilledChunkPool` is empty, so that all objects not in use
are at the threads that run, and these with all holes fit one chunk for each (`NewChunkFits`, with
an injection of objects and holes into the places, and `Placed`: no chunk is out of reach). The
sums are cardinalities of sets of pairs, since a recursive sum could not be reasoned about. TLC
checked `Placed`, `HeldBounded` and `Reserved` on the instance of `tlspool` before.

`LanServerProofs` proves, for any table, threads and number of connections, that no session that
was joined ever loses its ID or gives its slot back (`NoSessionIsReleased`), that its references are
counted exactly (`ReferencesCountedSlotsKept`, which is `SlotsKept`), and `TableDeleted`
(`TableIsDeletedLast`). The first invariant, `IInv`, says who has a session, that
a slot which was not set up has never had a socket, that only the acceptor sets up, on a slot that
is no joined session's, that a caller asks for a session that was joined, and that behind
`Terminate`'s place in the table each slot is closed or was missed. Callers may be anywhere
when the table is deleted, so that `TableIsDeletedLast` is about the server's threads only. It rests on the assumption that
`mBuffer`'s low word is not zero.

The count needs a second one, `CInv`. A posted operation is a member of a set, so that to post one
which is there already would take a reference for nothing: `OneOfEach` says that a session's receive,
and its send, is posted, in the port, or in the hands of one thread, and in one of these places only;
`SendsGated` that `bIsSending` is set as long as there is a send, which is why a second `SendTry`
does not get through; `Untouched` that nothing refers to a slot before its session is set up, so that
`SetSession` resets `bIsSending` under nobody. `Counted` is then kept step by step: `CountMoves` asks
of a step of one thread that `ioCount` changes as that thread's own references do (`Mine`), and as
what is posted and what is in the port; `PortTail` says what `GetQueuedCompletionStatus` takes away.

`SessionLifetimeProofs` also proves `OneOperationAtATime` (`OneOperationPerKind`), from which
threads are in the middle of posting or handling what, and `ListenerContract`: every step of
`SessionLifetime` is a step of `SessionContract` or a stutter (`RefinesContract`).

`SendPathProofs` is about any number of sessions, messages, senders and workers, in three layers.

* `SingleSender` (`OneSend`) and `NobodyStranded` (`NoneStranded`). The gate is understood once
  `Ownership` says that a thread which drains or reclaims has set `bIsSending` and is alone, and that
  a `WSASend` has it set; `SizeExact` says that `mSize` lags behind the links by exactly the threads
  between the two, so that a thread that finds `mSize` zero leaves at worst a message whose sender
  is still to look; and `Attended` says, of every queue that is not empty, who will look at it next.
  `NoneStranded` only speaks of the moments when nobody is inside, hence is far from inductive.
* `ReferencesExact` (`ReferencesKept`). The count of a message is the number of its creators, of the
  threads that have counted and not yet linked it, and of the sessions that keep it. A session
  keeps it in its queue or in the part of `SentMessages` that is still to be released, which
  depends on where its owner is (`Holds`); no message is twice in a session (`Distinct`), and one
  that is to be sent to a session is not in it yet (`Fresh`).
* `SendsAccepted`: `Spec => RefinesSendContract`, by what each action does to the messages in front
  (drained, or with a `WSASend`) and to the queue. A link at a place of the queue is a submission at
  that place behind what is in front (`InsertIntoConcat`), at the end if there is one sender; hence the
  theorem promises the order for one sender only, and for any number that nothing is lost by the
  interleaving or sent twice. (TLC checked it with one sender and two sessions before; the run
`sendpath` has two senders, for whom there is no order.) `LinksAt` is what the other lemmas need to know of a link.

`RecvPathProofs` is about a buffer and a header of any size and packets of any length:
`PacketsWhole` (`Framing`), `BufferHoldsTheRest` (`BufferExact`), `ReceivesHaveRoom`
(`RoomToReceive`). It begins with what the ring's operations do to the bytes that wait in it: to peek
gives them in order, wrapped or not, moving the front drops them, storing in the direct free space
adds to them. `Framing` is not inductive, since the next packet is read from the ring: `Held` says
that the bytes waiting there are those of the connection from the end of the last packet received
up to what has arrived, and `Laid` that the connection's bytes are its packets' one after another.
`Room` holds because a packet that can be completed fits in the buffer and others are refused. The
size of a message is any number: of what follows an overrun nothing is said.

`ChatServerProofs` is about any number of sessions, accounts, sectors, player objects and packets:
`ObjectsNotShared` (`ObjectsOwned`), `SectorsExact` (`SectorsAgree`), `LeaversRemoved` (`NoZombie`),
`WakesUp` (`NoEventMissed`).
A `Join` takes an object for a session without looking whether it has one, and that is right only
because a session has one `Join`: `JoinOnce` says that it is once in the event queue or being handled,
wherever it lies there, and that the session is no player before it; `NewClean`, that nothing is known
of a session that has not joined. `LeaveComes` says that a session
that left and is a player, or can become one, has its `Leave` still to come, or had it handled before
the `Join`. `Inserted` and `PutSomewhere` say what an event put anywhere in the queue does to what is in it.
`WakeInv` is for the wake-ups: `mSize` lags behind the links by exactly the callbacks between the two,
and while the update thread sleeps without a signal something is counted only if its signal is to come.

`ChatServerProofs` is about `Broadcast` too: any messages, sessions and keys, and contents of any
number of values of any length. (The two parts share the module, not a lemma.) The assumptions are
`BroadcastAssumption` and `MessageAssumption`: bytes are bytes, and a header fits in a buffer.

* Recursion: `encode`, the check sum and the reading and writing of values are loops, which the model
  has as recursive functions on `0 .. n`. `Recursion` says that there is a function that starts with
  a given value and makes a given step at each `i`. It is not an induction over operators: the steps
  are themselves a function, and `UpTo` (a set with 0, and with a number the next, has them all)
  rests on a smallest counterexample. `EncodeRuns`, `PutFields` and `GetFields` then speak of the loops.
* `DecodeEncode`: `decode` gives back what `encode` was given, whatever the bytes, the key and the
  check sum. Each byte is mixed twice, with sums of the one before it; `MixedTwice` says that to mix
  twice with the same byte changes nothing, and the loop runs in step because `decode` mixes with the
  byte before as it came, and that is what `encode` mixed with.
* `ReadBack`: reading as many bytes as each value has gives the values that were put together;
  `PutAllTogether` says that writing them does put them together, and keeps the room for the header
  unless the message outgrew its buffer, which is then marked.
* `RelayInv`, the inductive invariant. `InPlaces` says that a message is once in the inbox or in the
  listener's hands and at most once in a session's queue. `InForm` says that it is plain until the
  listener sends it (`Plain`), and encoded from then on (`Packed`), the message that is being sent
  one or the other; to encode it a second time would spoil what a session already has. `Counted`:
  its references are the places that hold it, so that what a step releases for the last time is
  nowhere else; and `PoolBlank`. Hence `CodecIsInverse` (`CodecInverse`), `ReadIsWritten`
  (`ReadAsWritten`) and `PoolIsClean` (`PoolClean`). A message that was ever written beyond its buffer
  is left out of what is said about contents, and of nothing else.

`LockFreeStackProofs` is about any number of threads, objects and items, any threads that push or
pop, and any number of values of the count from two on.

* Lists: a sequence of different objects whose links end at `Null` (`Listed`) is the only chain there
  is from its first object (`ChainOf`), which takes the least place where two chains would differ.
  To take the head, to put an object in front, and to write the link of an object that is not in the
  list do to it what they should (`ListTail`, `ListCons`, `ListKept`).
* `NoObjectTwice` (`ObjectsAccounted`). `RecentIn` is why the count works: whoever is between a read
  of the top and the exchange has read the count as it was `age` exchanges ago, modulo `CountSize`,
  and `NoneOvertaken` keeps `age` below a full turn. So a top that compares equal has not been
  exchanged since, and `Reading` says that then the `Next` that was read is still the top's. An
  object that a thread has taken out of the list may have its `Next` written meanwhile; the thread
  that still holds it as its old top has then an `age` that is not zero, and must fail.
* `NoNodeTwice` is the same for the nodes of the stack. What `LockFreeStack` adds has an invariant of
  the same form for its own top: the nodes from `top` on are exactly those the pool's users keep.
* `NodeAlwaysFree` (`NoNewNode`). Every node that is not free carries an item, no two the same
  (`UniqueItems`), and none has the item of a thread that still looks for a node; hence there are
  fewer of them than items, and the pool is not empty (`NodeForPush`).
* `LastInFirstOut`: `StackSpec => RefinesStack`. `PushSwap` and `PopSwap`, when they succeed, are the
  push and the pop of `StackContract`; `ReturnPop` is its `Return`; all other steps are stutters,
  the late read of `Data` included, since nobody else writes the `Data` of a node in a thread's hands.

`LockFreeQueueProofs` is about any number of producers, consumers, nodes and items.

* Its lemmas about lists are like those of `LockFreeStackProofs`. `Chain` is a recursive function,
  which is by definition some function that satisfies its equation; `ChainOf` shows that the walk
  along a list satisfies it, and that any other function that does must differ from the walk at a
  least place, where the equation says it does not.
* `NodesInOnePlace` (`NodesAccounted`). `Structure` says that there is a list from the dummy, with
  the tail on it, and a list for each producer from its node that is not linked yet; they share no
  node with each other, with the pool, or with a consumer's old dummy. A producer whose tail is old
  may link behind a node that another producer is about to link, so that lists hang off lists. That
  this never closes a circle is what `Later` is for: an order of the producers, in which each whose
  tail stands in the list of another comes before it. A node that a producer gets was in no list,
  and its producer has no tail yet, so that it can be put last; and a producer reads its tail from
  the queue itself. `TailRead` and `HeadRead` say what a thread may conclude from an old pointer as
  long as its count is still that of the shared one.
* `ItemsInOnePlace` (`NothingLost`). `Waiting` is all in the lists but the dummy and the nodes that
  are not linked: a link adds one node to it, wherever it happens, the exchange on the head takes
  one away, and nothing else changes it. The data of a node does not change while it is in it.
* `FirstInFirstOut`: with one producer `Spec => RefinesQueue`. `Fresh` says that nothing hangs off a
  node that is not linked, so that a link that succeeds is at the end of the queue.

The assumptions are those the modules state of their constants; TLC evaluates them in the runs.
`FirstInFirstOut` assumes one producer besides, as a session's `SendQueue` has under the chat server,
whose update thread is the only one that sends; with two the property is false, as section 5 says.
What `LockFreeStackProofs` takes from guards of the model are the limits of the code itself: no thread
sleeps through 65535 exchanges (`NoneOvertaken`), and there is something to pop for each that pops.

Only model-checked: liveness (`ENABLED` and fairness are out of this prover's reach). Every invariant
and every refinement that a run checks is proved for all values of the constants as well.

The models are sequentially consistent. The code's shared accesses are interlocked operations,
which are full barriers, and plain reads that x86 keeps in order; a compiler that hoisted one of
the plain reads of `LockFreeQueue` out of its loop would leave the model.

## 5. What the models show about the code

Beside the properties that hold:

* A completion with no bytes skips the `Send` branch, so `bIsSending` stays TRUE. This needs no
  disconnect: two threads past `IsEmpty` (462), the first of which drains, sends and completes
  before the second makes its exchange, leave the second with an empty queue, and it calls
  `WSASend` with no buffers. When that completes with no bytes the session is mute until it is
  released. `NoneStranded` states that case as its exception; nothing else strands a message.
* After a synchronous failure of `WSASend` the messages it was given are lost to the pool if the
  session sends again. `ReferencesKept` states the exception.
* With several producers `LockFreeQueue` is not first in, first out: the exchange at
  `LockFreeQueue.h:58` carries no tag, so a producer with an old tail can link its node behind one
  that was dequeued, recycled and is about to be enqueued again. The item is counted and cannot be
  reached until that node is linked (a consumer spins meanwhile), and it comes out late, after
  items enqueued later, even by its own thread. Nothing is lost.
* The chat server's event queue has several producers, so a `Leave` can be handled before the `Join`
  of its session, which then becomes a player that nothing removes. `NoZombie` states that case as
  its exception (`overtaken`); players, sectors and the pool agree all the same. A `SendQueue`
  has one producer under the chat server, whose update thread is the only one that sends.
* `mLoginAccountNumbers` can lose an account that is in use: `AccountNo` survives in a reused
  player object (159-167), and it is overwritten before a second login is refused (320-326). A
  player that logs in twice leaves its first account behind for good.
* `TryDisconnect` is lost when it falls between a receive completion and the next `recvPost`:
  `CancelIoEx` (192) cancels what is outstanding, and nothing is. It returns true, and the session
  lives on.
* `ObjectPool::GetInactiveCount` can wrap for a moment: an object is back in the pool before
  `mActiveCount` is lowered, and can be got and counted again first. Only monitoring reads it.
* A stack of indexes with as many nodes as slots never allocates (`NoNewNode`), although a push
  takes its node while a pop may not have returned its own yet.
* A `LanServer` takes `mMaximumSessionCount` connections, ever: no session is released, so no
  index comes back and `OnClientLeave` is never called (`SlotsKept`, `NoSessionIsReleased`).
* When `Terminate` deletes the table, receives may still be outstanding in it: those whose socket
  it closed, and the first receive of a connection that the acceptor was setting up when the walk
  had passed its slot, whose socket nobody closes at all. `TableDeleted` says that there are no
  others. `WanServer`'s `Terminate` is the same code.
* When a `WSASend` of `LanServer` fails at once, what it had dequeued is not sent again, nor is it
  released until the session is, which is never.
* `LanServer` clears its one message of a receive as soon as `OnRecv` returns (358), so a listener
  that keeps the message, as the chat servers do, works with `WanServer` only.
* A packet whose payload is longer than a message's 2048 bytes and fits into the receive buffer
  passes the header check (391) and is copied beyond the end of the message (404). `RecvPath` ends
  there (`Overrun`), and `PacketsArrive` promises nothing of such packets, nor of what follows them.
* A message that grows beyond its 2048 bytes writes to freed memory: `Message::operator=` deletes
  the buffer that it has just taken over, and the room for the header is gone as well. `Broadcast`
  sets such a message apart. Nothing checks a length on reading.
* `Terminate` waits for the server's threads and not for calls from outside. The chat server's
  destructor (`SingleThreadChattingServer.cpp:22`) calls it while the update thread still runs and
  sends: a call in progress when the table is deleted works on freed memory.
* `WaitForMultipleObjects` takes 64 handles: with more threads `Terminate` does not wait.
* An exiting thread gives its chunk, however full, to `FilledChunkPool`; `GetObject` fills it up
  when it comes out again. That is why memory is bounded (`MemoryBounded`) although a thread that
  runs out never looks at what other threads have.
* `RingBuffer::Reserve`, which nothing calls, does not set the new buffer's rear and so drops the
  content.

## 6. What is left

Done in this order: `SessionLifetime` with its contract and proofs, `SendPath`, `RecvPath`,
`LockFreeQueue`, `ChatServer`, `ObjectPool` and `LockFreeStack`, `TLSObjectPool` with its proofs,
`Broadcast` with `Message` and `PacketCodec`, `LanServer` with its proofs, and the proofs about the
other modules, `Broadcast` last. Possible next steps:

1. `Terminate` composed with `WanServer`'s release of sessions, and with the chat server's own
   threads.
2. Proofs: the contracts used where they are assumed, `SendPath` over `LockFreeQueue` instead of a
   sequence, `SessionLifetime` over `LockFreeStack` instead of a set.

### Not modelled

* `MultiThreadChattingServer`: nothing starts it, its timeout thread and three of its four packet
  handlers are empty, and it searches `mPlayers` without its lock, so that what it does is undefined
  in every respect.
* `Profiler`, `CCrashDump`, `ProcessTaskManager` and `IntrusivePointer`, which no behaviour depends
  on.
* Stopping the chat server: its destructor waits for a thread that does not look at `gExit`;
  `main.cpp` never gets there.
* More than `MAX_ASYNC_SENDS` messages in one send, more than 65536 sessions, a chat from a sector
  that was never entered (which reads `mSectors` at -1), what follows a message that outgrew
  its buffer or a payload that overran it, calls on a deleted table, and a thread held up while a
  16-bit count goes round (`NoneOvertaken` leaves it out): all undefined or out of the arrays, and set
  apart by the models' bounds, guards or states.
