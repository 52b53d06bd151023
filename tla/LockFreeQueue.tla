----------------------------- MODULE LockFreeQueue -----------------------------
(***************************************************************************)
(* LockFreeQueue: a linked list with a dummy node at the head, whose head  *)
(* and tail pointers carry a count of operations; one step per access to   *)
(* memory that threads share.                                              *)
(*                                                                         *)
(* The compare-and-swap that links a node (LockFreeQueue.h:58) is on a     *)
(* plain pointer without a count.  A producer that read the tail long ago  *)
(* can so link its node behind one that has been dequeued, recycled and is *)
(* not linked again yet: with several producers items may come out in      *)
(* another order, and be out of reach while they are already counted.      *)
(*                                                                         *)
(* ObjectPool is the set of nodes nobody holds.                            *)
(***************************************************************************)
EXTENDS Integers, FiniteSets, SequencesExt

CONSTANTS
    Nodes,      \* bound: the nodes mPool has or allocates
    Producers, Consumers,
    MaxItems,   \* bound: items each producer enqueues
    Null

Threads == Producers \cup Consumers

ASSUME QueueAssumption ==
    /\ IsFiniteSet(Nodes) /\ Nodes # {} /\ Null \notin Nodes
    /\ IsFiniteSet(Threads)
    /\ Producers \cap Consumers = {}
    /\ MaxItems \in Nat

\* the items of a producer, in the order it enqueues them
Items == Producers \X (1 .. MaxItems)
NoItem == <<Null, 0>>

VARIABLES
    mHead, mTail,   \* pointers with a count
    next, data,     \* Node::Next and Node::Data
    free,           \* mPool
    mSize,
    pc,
    my,             \* a thread's locals: its node, its copies of mHead and mTail,
                    \* the Next it read and *outData
    count,          \* how many items a producer has begun to enqueue
    linked, taken   \* history: the items linked and dequeued, in order

listVars == <<mHead, mTail, next, data, free, mSize>>
vars == <<listVars, pc, my, count, linked, taken>>

Pointer(n, c) == [node |-> n, count |-> c]
NoPointer == Pointer(Null, 0)
Blank == [node |-> Null, head |-> NoPointer, tail |-> NoPointer, succ |-> Null,
          out |-> NoItem]

\* MAKE_TOP(n, EXTRACT_OP_COUNT_FROM(p) + 1). The count does not wrap here, that
\* is, no thread sleeps through 65536 exchanges between a read and its exchange
Advance(p, n) == Pointer(n, p.count + 1)

\* InterlockedCompareExchangePointer on mTail
SwingTail(old, n) == mTail' = IF mTail = old THEN Advance(old, n) ELSE mTail

Init ==
    \E dummy \in Nodes :
        /\ mHead = Pointer(dummy, 0) /\ mTail = mHead
        /\ next = [n \in Nodes |-> Null]
        /\ data = [n \in Nodes |-> NoItem]
        /\ free = Nodes \ {dummy}
        /\ mSize = 0
        /\ pc = [t \in Threads |-> "Idle"]
        /\ my = [t \in Threads |-> Blank]
        /\ count = [p \in Producers |-> 0]
        /\ linked = <<>> /\ taken = <<>>

Goto(t, l) == pc' = [pc EXCEPT ![t] = l]
Return(t) == Goto(t, "Idle") /\ my' = [my EXCEPT ![t] = Blank]

--------------------------------------------------------------------------------
(* TryEnqueue                                                              *)

\* mPool.GetObject(), and the node is filled in
GetNode(p) ==
    /\ pc[p] = "Idle" /\ count[p] < MaxItems
    /\ \E n \in free :
        /\ free' = free \ {n}
        /\ my' = [my EXCEPT ![p].node = n]
        /\ data' = [data EXCEPT ![n] = <<p, count[p] + 1>>]
        /\ next' = [next EXCEPT ![n] = Null]
    /\ count' = [count EXCEPT ![p] = @ + 1]
    /\ Goto(p, "ReadTail")
    /\ UNCHANGED <<mHead, mTail, mSize, linked, taken>>

ReadTail(p) ==
    /\ pc[p] = "ReadTail"
    /\ my' = [my EXCEPT ![p].tail = mTail]
    /\ Goto(p, "ReadTailNext")
    /\ UNCHANGED <<listVars, count, linked, taken>>

ReadTailNext(p) ==
    /\ pc[p] = "ReadTailNext"
    /\ LET n == next[my[p].tail.node] IN
       /\ my' = [my EXCEPT ![p].succ = n]
       /\ Goto(p, IF n = Null THEN "Link" ELSE "Help")
    /\ UNCHANGED <<listVars, count, linked, taken>>

\* mutant: the exchange on Next does not compare
LinkBlind(p) ==
    /\ pc[p] = "Link"
    /\ next' = [next EXCEPT ![my[p].tail.node] = my[p].node]
    /\ linked' = Append(linked, data[my[p].node])
    /\ Goto(p, "Swing")
    /\ UNCHANGED <<mHead, mTail, data, free, mSize, my, count, taken>>

\* mutant: a node that could not be linked is counted all the same
LinkOnce(p) ==
    /\ pc[p] = "Link"
    /\ IF next[my[p].tail.node] = Null
       THEN /\ next' = [next EXCEPT ![my[p].tail.node] = my[p].node]
            /\ linked' = Append(linked, data[my[p].node])
            /\ Goto(p, "Swing")
       ELSE Goto(p, "Count") /\ UNCHANGED <<next, linked>>
    /\ UNCHANGED <<mHead, mTail, data, free, mSize, my, count, taken>>

Link(p) ==
    /\ pc[p] = "Link"
    /\ IF next[my[p].tail.node] = Null
       THEN /\ next' = [next EXCEPT ![my[p].tail.node] = my[p].node]
            /\ linked' = Append(linked, data[my[p].node])
            /\ Goto(p, "Swing")
       ELSE Goto(p, "ReadTail") /\ UNCHANGED <<next, linked>>
    /\ UNCHANGED <<mHead, mTail, data, free, mSize, my, count, taken>>

\* mutant: the tail is set without comparing it
SwingBlind(p) ==
    /\ pc[p] = "Swing"
    /\ mTail' = Advance(my[p].tail, my[p].node)
    /\ Goto(p, "Count")
    /\ UNCHANGED <<mHead, next, data, free, mSize, my, count, linked, taken>>

Swing(p) ==
    /\ pc[p] = "Swing"
    /\ SwingTail(my[p].tail, my[p].node)
    /\ Goto(p, "Count")
    /\ UNCHANGED <<mHead, next, data, free, mSize, my, count, linked, taken>>

\* the tail lags: move it and begin again
Help(p) ==
    /\ pc[p] = "Help"
    /\ SwingTail(my[p].tail, my[p].succ)
    /\ Goto(p, "ReadTail")
    /\ UNCHANGED <<mHead, next, data, free, mSize, my, count, linked, taken>>

Count(p) ==
    /\ pc[p] = "Count"
    /\ mSize' = mSize + 1
    /\ Return(p)
    /\ UNCHANGED <<mHead, mTail, next, data, free, count, linked, taken>>

--------------------------------------------------------------------------------
(* TryDequeue                                                              *)

Lower(c) ==
    /\ pc[c] = "Idle"
    /\ mSize' = mSize - 1
    /\ Goto(c, IF mSize <= 0 THEN "Restore" ELSE "ReadHead")
    /\ UNCHANGED <<mHead, mTail, next, data, free, my, count, linked, taken>>

Restore(c) ==
    /\ pc[c] = "Restore"
    /\ mSize' = mSize + 1
    /\ Return(c)
    /\ UNCHANGED <<mHead, mTail, next, data, free, count, linked, taken>>

ReadHead(c) ==
    /\ pc[c] = "ReadHead"
    /\ my' = [my EXCEPT ![c].head = mHead]
    /\ Goto(c, "ReadTailToo")
    /\ UNCHANGED <<listVars, count, linked, taken>>

ReadTailToo(c) ==
    /\ pc[c] = "ReadTailToo"
    /\ my' = [my EXCEPT ![c].tail = mTail]
    /\ Goto(c, "ReadHeadNext")
    /\ UNCHANGED <<listVars, count, linked, taken>>

ReadHeadNext(c) ==
    /\ pc[c] = "ReadHeadNext"
    /\ LET n == next[my[c].head.node] IN
       /\ my' = [my EXCEPT ![c].succ = n]
       /\ Goto(c, IF n = Null THEN "ReadHead"
                  ELSE IF my[c].head.node = my[c].tail.node THEN "HelpTail"
                  ELSE "ReadData")
    /\ UNCHANGED <<listVars, count, linked, taken>>

HelpTail(c) ==
    /\ pc[c] = "HelpTail"
    /\ SwingTail(my[c].tail, my[c].succ)
    /\ Goto(c, "ReadData")
    /\ UNCHANGED <<mHead, next, data, free, mSize, my, count, linked, taken>>

ReadData(c) ==
    /\ pc[c] = "ReadData"
    /\ my' = [my EXCEPT ![c].out = data[my[c].succ]]
    /\ Goto(c, "Unlink")
    /\ UNCHANGED <<listVars, count, linked, taken>>

\* the head moves to the node whose data was read
MoveHead(c) ==
    /\ mHead' = Advance(my[c].head, my[c].succ)
    /\ taken' = Append(taken, my[c].out)
    /\ Goto(c, "Release")

\* mutant: the count is not compared
UnlinkUncounted(c) ==
    /\ pc[c] = "Unlink"
    /\ IF mHead.node = my[c].head.node THEN MoveHead(c)
       ELSE Goto(c, "ReadHead") /\ UNCHANGED <<mHead, taken>>
    /\ UNCHANGED <<mTail, next, data, free, mSize, my, count, linked>>

Unlink(c) ==
    /\ pc[c] = "Unlink"
    /\ IF mHead = my[c].head THEN MoveHead(c)
       ELSE Goto(c, "ReadHead") /\ UNCHANGED <<mHead, taken>>
    /\ UNCHANGED <<mTail, next, data, free, mSize, my, count, linked>>

\* mPool.ReleaseObject(head): the old dummy
Release(c) ==
    /\ pc[c] = "Release"
    /\ free' = free \cup {my[c].head.node}
    /\ Return(c)
    /\ UNCHANGED <<mHead, mTail, next, data, mSize, count, linked, taken>>

TryEnqueue(p) ==
    \/ GetNode(p) \/ ReadTail(p) \/ ReadTailNext(p) \/ Link(p) \/ Swing(p) \/ Help(p)
    \/ Count(p)

TryDequeue(c) ==
    \/ Lower(c) \/ Restore(c) \/ ReadHead(c) \/ ReadTailToo(c) \/ ReadHeadNext(c)
    \/ HelpTail(c) \/ ReadData(c) \/ Unlink(c) \/ Release(c)

Next == (\E p \in Producers : TryEnqueue(p)) \/ (\E c \in Consumers : TryDequeue(c))

Spec == Init /\ [][Next]_vars

\* A thread inside an operation runs on.
Fairness == \A t \in Threads :
    WF_vars(pc[t] # "Idle" /\ (IF t \in Producers THEN TryEnqueue(t) ELSE TryDequeue(t)))

FairSpec == Spec /\ Fairness

--------------------------------------------------------------------------------
(* Properties                                                              *)

Unlinked == {"ReadTail", "ReadTailNext", "Link", "Help"}

\* The nodes from n on, by Next.  A chain longer than Nodes would be a loop.
Chain(n, succ) ==
    LET after[k \in 0 .. Cardinality(Nodes)] ==
            IF k = 0 THEN <<n>>
            ELSE LET c == after[k - 1]
                     e == succ[Last(c)]
                 IN IF e = Null THEN c ELSE Append(c, e)
    IN after[Cardinality(Nodes)]

\* the dummy and the nodes behind it, and those of a thread: a node that is not
\* linked yet with what hangs off it, or the old dummy that is about to be released
InQueue == ToSet(Chain(mHead.node, next))
Hands(t) ==
    IF pc[t] \in Unlinked THEN ToSet(Chain(my[t].node, next))
    ELSE IF pc[t] = "Release" THEN {my[t].head.node} ELSE {}

\* Every node is in one place, once: free, in the queue, or in the hands of one
\* thread.
NodesAccounted ==
    /\ IsInjective(Chain(mHead.node, next))
    /\ \A t \in Threads : pc[t] \in Unlinked => IsInjective(Chain(my[t].node, next))
    /\ free \cup InQueue \cup UNION {Hands(t) : t \in Threads} = Nodes
    /\ free \cap InQueue = {}
    /\ \A t \in Threads : Hands(t) \cap (free \cup InQueue) = {}
    /\ \A t, u \in Threads : t # u => Hands(t) \cap Hands(u) = {}

\* the nodes whose item was linked and is still to be taken: all in the queue but
\* the dummy, and what hangs off a node that is not linked yet
Queue == Tail(Chain(mHead.node, next))
Waiting ==
    ToSet(Queue) \cup
    UNION {Hands(p) \ {my[p].node} : p \in {p \in Producers : pc[p] \in Unlinked}}

\* What was linked and not taken is still in a chain, once: a late link may put
\* an item out of reach for a while and out of order, but loses none; and mSize
\* is the number of these items, short of those that are not counted yet and of
\* what consumers have lowered and not yet taken.
NothingLost ==
    /\ IsInjective(taken)
    /\ \A m, n \in Waiting : m # n => data[m] # data[n]
    /\ {data[n] : n \in Waiting} \cap ToSet(taken) = {}
    /\ {data[n] : n \in Waiting} \cup ToSet(taken) = ToSet(linked)
    /\ mSize = Cardinality(Waiting)
               - Cardinality({p \in Producers : pc[p] \in {"Swing", "Count"}})
               - Cardinality({c \in Consumers : pc[c] \notin {"Idle", "Release"}})

\* A consumer that got a share of mSize gets an item.
ShareServed == \A c \in Consumers : pc[c] = "ReadHead" ~> pc[c] = "Release"

\* the items in the queue, in order
Queued == LET q == Queue IN [i \in DOMAIN q |-> data[q[i]]]

\* With one producer the items come out in the order they went in.
Contract == INSTANCE QueueContract WITH queued <- Queued
RefinesQueue == Contract!Spec
================================================================================
