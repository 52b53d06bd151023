----------------------------- MODULE StackContract -----------------------------
(***************************************************************************)
(* What LockFreeStack promises to threads that push and pop at once: last  *)
(* in, first out, as if each operation were one step.                      *)
(***************************************************************************)
EXTENDS Sequences

CONSTANTS Items, Threads, NoItem

VARIABLES
    stack,
    got         \* what a thread has popped and its caller has not received yet

Init == stack = <<>> /\ got = [t \in Threads |-> NoItem]

Push(data) == stack' = <<data>> \o stack /\ UNCHANGED got

Pop(t) ==
    /\ stack # <<>> /\ got[t] = NoItem
    /\ got' = [got EXCEPT ![t] = Head(stack)]
    /\ stack' = Tail(stack)

Return(t) == got' = [got EXCEPT ![t] = NoItem] /\ UNCHANGED stack

Next == (\E data \in Items : Push(data)) \/ \E t \in Threads : Pop(t) \/ Return(t)

Spec == Init /\ [][Next]_<<stack, got>>
================================================================================
