----------------------------- MODULE LockFreeStack -----------------------------
(***************************************************************************)
(* LockFreeStack: a linked list whose top carries a count, as the pool     *)
(* that its nodes come from and return to does: an operation makes two     *)
(* exchanges, on two tops, and nodes go round quickly.                     *)
(*                                                                         *)
(* It is used as the servers use theirs: the items are the indexes of free *)
(* slots, all pushed to begin with (WanServer::TryRun); an index is pushed *)
(* by whoever has it, and popped only when there is one to pop, which is   *)
(* what the session count is for.  Any number of threads may pop here; the *)
(* servers have one that does.                                             *)
(***************************************************************************)
EXTENDS ObjectPool

CONSTANTS Items, NoItem, Poppers, Pushers

\* The servers make a stack with as many nodes as they have slots.
ASSUME StackAssumption ==
    /\ IsFiniteSet(Items) /\ NoItem \notin Items /\ Size = Cardinality(Items)
    /\ Threads = Poppers \cup Pushers

VARIABLES
    top,            \* LockFreeStack::mTop
    link, data,     \* Next and Data of LockFreeStack::Node
    out,            \* the items that are not in the stack and nobody pushes
    item            \* a thread's local data

stackVars == <<top, link, data, out, item>>
allVars == <<vars, stackVars>>

\* the places between a read of the stack's top and the exchange on it
BetweenTops == {"PushLink", "PushSwap", "PopLink", "PopSwap"}

StackInit ==
    /\ Init
    /\ top = Pointer(Null, 0)
    /\ link = [n \in Objects |-> Null]
    /\ data = [n \in Objects |-> NoItem]
    /\ out = Items
    /\ item = [t \in Threads |-> NoItem]

--------------------------------------------------------------------------------
(* Push                                                                    *)

CallPush(t) ==
    /\ pc[t] = "Idle"
    /\ \E i \in out : out' = out \ {i} /\ item' = [item EXCEPT ![t] = i]
    /\ Goto(t, "GetRead")
    /\ UNCHANGED <<poolVars, my, age, top, link, data>>

PushData(t) ==
    /\ pc[t] = "PushData"
    /\ data' = [data EXCEPT ![my[t].obj] = item[t]]
    /\ Goto(t, "PushRead")
    /\ UNCHANGED <<poolVars, my, age, top, link, out, item>>

PushRead(t) ==
    /\ pc[t] = "PushRead"
    /\ my' = [my EXCEPT ![t].top = top]
    /\ age' = [age EXCEPT ![t] = 0]
    /\ Goto(t, "PushLink")
    /\ UNCHANGED <<poolVars, stackVars>>

PushLink(t) ==
    /\ pc[t] = "PushLink"
    /\ link' = [link EXCEPT ![my[t].obj] = my[t].top.node]
    /\ Goto(t, "PushSwap")
    /\ UNCHANGED <<poolVars, my, age, top, data, out, item>>

PushSwap(t) ==
    /\ pc[t] = "PushSwap"
    /\ IF top = my[t].top
       THEN /\ NoneOvertaken(t, BetweenTops)
            /\ top' = Advance(top, my[t].obj)
            /\ held' = held \cup {my[t].obj}
            /\ my' = [my EXCEPT ![t] = Blank]
            /\ item' = [item EXCEPT ![t] = NoItem]
            /\ Goto(t, "Idle")
            /\ Overtake(t, BetweenTops)
       ELSE Again(t, "PushRead") /\ UNCHANGED <<top, held, item>>
    /\ UNCHANGED <<mTop, next, mAllCount, mActiveCount, unborn, link, data, out>>

Push(t) ==
    \/ CallPush(t) \/ (GetObject(t, "PushData") /\ UNCHANGED stackVars)
    \/ PushData(t) \/ PushRead(t) \/ PushLink(t) \/ PushSwap(t)

--------------------------------------------------------------------------------
(* Pop                                                                     *)

\* the nodes of the stack, from the top
Nodes == Chain(top.node, link)

\* there is one to pop for each that has not got its own yet
CallPop(t) ==
    /\ pc[t] = "Idle"
    /\ Cardinality(At({"PopRead", "PopLink", "PopSwap"})) < Len(Nodes)
    /\ Goto(t, "PopRead")
    /\ UNCHANGED <<poolVars, my, age, stackVars>>

PopRead(t) ==
    /\ pc[t] = "PopRead"
    /\ my' = [my EXCEPT ![t].top = top]
    /\ age' = [age EXCEPT ![t] = 0]
    /\ Goto(t, "PopLink")
    /\ UNCHANGED <<poolVars, stackVars>>

PopLink(t) ==
    /\ pc[t] = "PopLink"
    /\ my' = [my EXCEPT ![t].succ = link[my[t].top.node]]
    /\ Goto(t, "PopSwap")
    /\ UNCHANGED <<poolVars, age, stackVars>>

TakeTop(t) ==
    /\ NoneOvertaken(t, BetweenTops)
    /\ top' = Advance(top, my[t].succ)
    /\ held' = held \ {my[t].top.node}
    /\ my' = [my EXCEPT ![t] = [Blank EXCEPT !.obj = my[t].top.node]]
    /\ Goto(t, "PopData")
    /\ Overtake(t, BetweenTops)

\* mutant: the count is not compared
PopSwapUncounted(t) ==
    /\ pc[t] = "PopSwap"
    /\ IF top.node = my[t].top.node THEN TakeTop(t)
       ELSE Again(t, "PopRead") /\ UNCHANGED <<top, held>>
    /\ UNCHANGED <<mTop, next, mAllCount, mActiveCount, unborn, link, data, out, item>>

PopSwap(t) ==
    /\ pc[t] = "PopSwap"
    /\ IF top = my[t].top THEN TakeTop(t)
       ELSE Again(t, "PopRead") /\ UNCHANGED <<top, held>>
    /\ UNCHANGED <<mTop, next, mAllCount, mActiveCount, unborn, link, data, out, item>>

\* mutant: the node is not released
PopDataLeak(t) ==
    /\ pc[t] = "PopData"
    /\ item' = [item EXCEPT ![t] = data[my[t].obj]]
    /\ my' = [my EXCEPT ![t] = Blank]
    /\ Goto(t, "ReturnPop")
    /\ UNCHANGED <<poolVars, age, top, link, data, out>>

PopData(t) ==
    /\ pc[t] = "PopData"
    /\ item' = [item EXCEPT ![t] = data[my[t].obj]]
    /\ Goto(t, "PutRead")
    /\ UNCHANGED <<poolVars, my, age, top, link, data, out>>

ReturnPop(t) ==
    /\ pc[t] = "ReturnPop"
    /\ out' = out \cup {item[t]}
    /\ item' = [item EXCEPT ![t] = NoItem]
    /\ Goto(t, "Idle")
    /\ UNCHANGED <<poolVars, my, age, top, link, data>>

Pop(t) ==
    \/ CallPop(t) \/ PopRead(t) \/ PopLink(t) \/ PopSwap(t) \/ PopData(t)
    \/ (ReleaseObject(t, "ReturnPop") /\ UNCHANGED stackVars)
    \/ ReturnPop(t)

StackNext == (\E t \in Pushers : Push(t)) \/ (\E t \in Poppers : Pop(t))

StackSpec == StackInit /\ [][StackNext]_allVars

--------------------------------------------------------------------------------
(* Properties                                                              *)

Contents == [i \in DOMAIN Nodes |-> data[Nodes[i]]]

\* what a thread has popped and its caller has not received yet
Popped == [t \in Threads |->
    CASE pc[t] = "PopData" -> data[my[t].obj]
      [] pc[t] \in {"PutRead", "PutNext", "PutSwap", "PutCount", "ReturnPop"} -> item[t]
      [] OTHER -> NoItem]

\* Every push and pop takes effect at its exchange on top, and a pop returns
\* what was on top then, though the node's Next was read earlier and its Data
\* later than that.
Contract == INSTANCE StackContract WITH stack <- Contents, got <- Popped
RefinesStack == Contract!Spec

\* With a pool as large as the table of indexes the stack never allocates: a
\* push has an index in hand whose node is free, or about to be.
NoNewNode == At({"GrowAll"}) = {}
================================================================================
