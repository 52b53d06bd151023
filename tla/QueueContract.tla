----------------------------- MODULE QueueContract -----------------------------
(***************************************************************************)
(* What LockFreeQueue promises when one thread at a time enqueues: first   *)
(* in, first out.                                                          *)
(***************************************************************************)
EXTENDS Sequences

CONSTANT Items

VARIABLES queued, taken

Init == queued = <<>> /\ taken = <<>>

TryEnqueue(data) == queued' = Append(queued, data) /\ UNCHANGED taken

TryDequeue ==
    /\ queued # <<>>
    /\ taken' = Append(taken, Head(queued))
    /\ queued' = Tail(queued)

Next == (\E data \in Items : TryEnqueue(data)) \/ TryDequeue

Spec == Init /\ [][Next]_<<queued, taken>>
================================================================================
