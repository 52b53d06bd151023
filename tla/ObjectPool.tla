------------------------------- MODULE ObjectPool -------------------------------
(***************************************************************************)
(* ObjectPool: a stack of free objects, linked by Next, whose top carries  *)
(* a count of the exchanges made on it.  Objects are never given back to   *)
(* the heap, so a thread may read the Next of an object that another one   *)
(* has taken in the meantime.  One step per access to shared memory.       *)
(*                                                                         *)
(* GetObject and ReleaseObject take the label at which their caller goes   *)
(* on: the pool alone (Spec) has users that keep objects for a while and   *)
(* give them back in any order; LockFreeStack uses them for its nodes.     *)
(***************************************************************************)
EXTENDS Integers, FiniteSets, SequencesExt, FiniteSetsExt

CONSTANTS
    Objects,    \* bound: the objects there can ever be
    Size,       \* how many of them the constructor makes
    Threads,
    CountSize,  \* how many values the count has: 2^16
    Null

ASSUME PoolAssumption ==
    /\ IsFiniteSet(Objects) /\ IsFiniteSet(Threads) /\ Null \notin Objects
    /\ Size \in 0 .. Cardinality(Objects)
    /\ CountSize \in Nat /\ CountSize > 1

VARIABLES
    mTop,           \* a pointer with a count
    next,           \* Node::Next
    mAllCount, mActiveCount,
    unborn,         \* objects not allocated yet
    held,           \* objects the users of the pool keep
    pc,
    my,             \* a thread's locals: oldTop, the Next it read, its object
    age             \* for a thread that has read a top: exchanges on it since

poolVars == <<mTop, next, mAllCount, mActiveCount, unborn, held>>
vars == <<poolVars, pc, my, age>>

Pointer(n, c) == [node |-> n, count |-> c]
Blank == [top |-> Pointer(Null, 0), succ |-> Null, obj |-> Null]

\* mutant: the count stays as it is
AdvanceNot(p, n) == Pointer(n, p.count)

\* MAKE_TOP(n, EXTRACT_OP_COUNT_FROM(p) + 1): what does not fit is shifted out
Advance(p, n) == Pointer(n, (p.count + 1) % CountSize)

Goto(t, l) == pc' = [pc EXCEPT ![t] = l]

\* the places between a read of mTop and the exchange on it
Between == {"GetNext", "GetSwap", "PutNext", "PutSwap"}

\* Assumption: no thread in these places is held up while CountSize exchanges
\* go by.
NoneOvertaken(t, places) ==
    \A u \in Threads \ {t} : pc[u] \in places => age[u] < CountSize - 1

\* t has exchanged: whoever else is in these places has read an older top
Overtake(t, places) ==
    age' = [u \in Threads |-> IF u # t /\ pc[u] \in places THEN age[u] + 1
                              ELSE IF u = t THEN 0 ELSE age[u]]

\* t has failed to exchange: what it read is of no use any more
Again(t, l) ==
    /\ my' = [my EXCEPT ![t] = [Blank EXCEPT !.obj = my[t].obj]]
    /\ age' = [age EXCEPT ![t] = 0]
    /\ Goto(t, l)

Init ==
    \E s \in kSubset(Size, Objects) : \E made \in SetToSeqs(s) :
        /\ mTop = Pointer(IF Size = 0 THEN Null ELSE made[1], 0)
        /\ next = [o \in Objects |->
                     LET later == {i \in 2 .. Size : made[i - 1] = o}
                     IN IF later = {} THEN Null ELSE made[Min(later)]]
        /\ mAllCount = Size /\ mActiveCount = 0
        /\ unborn = Objects \ s
        /\ held = {}
        /\ pc = [t \in Threads |-> "Idle"]
        /\ my = [t \in Threads |-> Blank]
        /\ age = [t \in Threads |-> 0]

--------------------------------------------------------------------------------
(* GetObject, which goes on at l with the object in my[t].obj              *)

GetRead(t) ==
    /\ pc[t] = "GetRead"
    /\ my' = [my EXCEPT ![t].top = mTop]
    /\ age' = [age EXCEPT ![t] = 0]
    /\ Goto(t, IF mTop.node = Null THEN "GrowAll" ELSE "GetNext")
    /\ UNCHANGED poolVars

\* bound: as many as there are Objects to allocate
GrowAll(t) ==
    /\ pc[t] = "GrowAll"
    /\ Cardinality({u \in Threads : pc[u] = "GrowActive"}) < Cardinality(unborn)
    /\ mAllCount' = mAllCount + 1
    /\ Goto(t, "GrowActive")
    /\ UNCHANGED <<mTop, next, mActiveCount, unborn, held, my, age>>

\* and new Node(), which nobody else sees
GrowActive(t, l) ==
    /\ pc[t] = "GrowActive"
    /\ mActiveCount' = mActiveCount + 1
    /\ \E o \in unborn :
        /\ unborn' = unborn \ {o}
        /\ my' = [my EXCEPT ![t] = [Blank EXCEPT !.obj = o]]
    /\ Goto(t, l)
    /\ UNCHANGED <<mTop, next, mAllCount, held, age>>

GetNext(t) ==
    /\ pc[t] = "GetNext"
    /\ my' = [my EXCEPT ![t].succ = next[my[t].top.node]]
    /\ Goto(t, "GetSwap")
    /\ UNCHANGED <<poolVars, age>>

GetSwap(t) ==
    /\ pc[t] = "GetSwap"
    /\ IF mTop = my[t].top
       THEN /\ NoneOvertaken(t, Between)
            /\ mTop' = Advance(mTop, my[t].succ)
            /\ my' = [my EXCEPT ![t] = [Blank EXCEPT !.obj = my[t].top.node]]
            /\ Goto(t, "GetCount")
            /\ Overtake(t, Between)
       ELSE Again(t, "GetRead") /\ UNCHANGED mTop
    /\ UNCHANGED <<next, mAllCount, mActiveCount, unborn, held>>

GetCount(t, l) ==
    /\ pc[t] = "GetCount"
    /\ mActiveCount' = mActiveCount + 1
    /\ Goto(t, l)
    /\ UNCHANGED <<mTop, next, mAllCount, unborn, held, my, age>>

GetObject(t, l) ==
    GetRead(t) \/ GrowAll(t) \/ GrowActive(t, l) \/ GetNext(t) \/ GetSwap(t) \/ GetCount(t, l)

--------------------------------------------------------------------------------
(* ReleaseObject of my[t].obj, which goes on at l                          *)

PutRead(t) ==
    /\ pc[t] = "PutRead"
    /\ my' = [my EXCEPT ![t].top = mTop]
    /\ age' = [age EXCEPT ![t] = 0]
    /\ Goto(t, "PutNext")
    /\ UNCHANGED poolVars

PutNext(t) ==
    /\ pc[t] = "PutNext"
    /\ next' = [next EXCEPT ![my[t].obj] = my[t].top.node]
    /\ Goto(t, "PutSwap")
    /\ UNCHANGED <<mTop, mAllCount, mActiveCount, unborn, held, my, age>>

PutSwap(t) ==
    /\ pc[t] = "PutSwap"
    /\ IF mTop = my[t].top
       THEN /\ NoneOvertaken(t, Between)
            /\ mTop' = Advance(mTop, my[t].obj)
            /\ my' = [my EXCEPT ![t] = Blank]
            /\ Goto(t, "PutCount")
            /\ Overtake(t, Between)
       ELSE Again(t, "PutRead") /\ UNCHANGED mTop
    /\ UNCHANGED <<next, mAllCount, mActiveCount, unborn, held>>

PutCount(t, l) ==
    /\ pc[t] = "PutCount"
    /\ mActiveCount' = mActiveCount - 1
    /\ Goto(t, l)
    /\ UNCHANGED <<mTop, next, mAllCount, unborn, held, my, age>>

ReleaseObject(t, l) == PutRead(t) \/ PutNext(t) \/ PutSwap(t) \/ PutCount(t, l)

--------------------------------------------------------------------------------
(* Users that get objects, keep them, and release them, whoever got them   *)

Get(t) ==
    /\ pc[t] = "Idle"
    /\ Goto(t, "GetRead")
    /\ UNCHANGED <<poolVars, my, age>>

Keep(t) ==
    /\ pc[t] = "Keep"
    /\ held' = held \cup {my[t].obj}
    /\ my' = [my EXCEPT ![t] = Blank]
    /\ Goto(t, "Idle")
    /\ UNCHANGED <<mTop, next, mAllCount, mActiveCount, unborn, age>>

Release(t) ==
    /\ pc[t] = "Idle"
    /\ \E o \in held :
        /\ held' = held \ {o}
        /\ my' = [my EXCEPT ![t].obj = o]
    /\ Goto(t, "PutRead")
    /\ UNCHANGED <<mTop, next, mAllCount, mActiveCount, unborn, age>>

Next == \E t \in Threads :
    Get(t) \/ GetObject(t, "Keep") \/ Keep(t) \/ Release(t) \/ ReleaseObject(t, "Idle")

Spec == Init /\ [][Next]_vars

--------------------------------------------------------------------------------
(* Properties                                                              *)

\* s are the objects from o on, by Next, up to Null.  More than Objects would be
\* a loop.
IsChain(s, o, succ) ==
    /\ s = <<>> <=> o = Null
    /\ s # <<>> => s[1] = o
    /\ \A i \in 1 .. Len(s) - 1 : s[i + 1] = succ[s[i]]
    /\ Len(s) \in 1 .. Cardinality(Objects) => succ[s[Len(s)]] = Null

Chain(o, succ) ==
    CHOOSE s \in UNION {[1 .. k -> Objects] : k \in 0 .. Cardinality(Objects) + 1} :
        IsChain(s, o, succ)

Pool == ToSet(Chain(mTop.node, next))
At(labels) == {t \in Threads : pc[t] \in labels}
Carriers == {t \in Threads : my[t].obj # Null}

\* Every object is in one place, once: not allocated, in the pool, in the hands
\* of one thread, or kept.  An exchange that succeeds on a top that is no longer
\* the one that was read gives an object out twice, or drops some.
ObjectsAccounted ==
    /\ IsInjective(Chain(mTop.node, next))
    /\ \A t, u \in Carriers : t # u => my[t].obj # my[u].obj
    /\ LET carried == {my[t].obj : t \in Carriers} IN
       /\ unborn \cup Pool \cup carried \cup held = Objects
       /\ Cardinality(unborn) + Cardinality(Pool) + Cardinality(carried)
             + Cardinality(held) = Cardinality(Objects)

================================================================================
