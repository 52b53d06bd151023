------------------------------ MODULE SendContract ------------------------------
(***************************************************************************)
(* What TrySendMessage promises about a connection: the messages that were *)
(* accepted reach the stream, each once, and if InOrder in the order they  *)
(* were accepted.  Only a send that fails, or the end of the session,      *)
(* loses messages, and it loses those that were to go out first.           *)
(***************************************************************************)
EXTENDS Integers, SequencesExt

CONSTANTS Sessions, Messages, InOrder

VARIABLES
    outbox,     \* accepted, in the order they are to go out
    wire,       \* what the stream of the current connection carried
    faulty      \* the connection is closed, or a send of it failed

Init ==
    /\ outbox = [s \in Sessions |-> <<>>]
    /\ wire = [s \in Sessions |-> <<>>]
    /\ faulty = [s \in Sessions |-> FALSE]

Submit(s, m) ==
    /\ \E i \in 1 .. Len(outbox[s]) + 1 :
        /\ InOrder => i = Len(outbox[s]) + 1
        /\ outbox' = [outbox EXCEPT ![s] = InsertAt(@, i, m)]
    /\ UNCHANGED <<wire, faulty>>

\* the first n messages
First(s, n) == SubSeq(outbox[s], 1, n)
DropFirst(s, n) == outbox' = [outbox EXCEPT ![s] = SubSeq(@, n + 1, Len(@))]

Transmit(s, n) ==
    /\ DropFirst(s, n)
    /\ wire' = [wire EXCEPT ![s] = @ \o First(s, n)]
    /\ UNCHANGED faulty

Lose(s, n) ==
    /\ DropFirst(s, n)
    /\ faulty' = [faulty EXCEPT ![s] = TRUE]
    /\ UNCHANGED wire

Reconnect(s) ==
    /\ outbox[s] = <<>>
    /\ wire' = [wire EXCEPT ![s] = <<>>]
    /\ faulty' = [faulty EXCEPT ![s] = FALSE]
    /\ UNCHANGED outbox

Next ==
    \E s \in Sessions :
        \/ \E m \in Messages : Submit(s, m)
        \/ \E n \in 0 .. Len(outbox[s]) : Transmit(s, n) \/ Lose(s, n)
        \/ Reconnect(s)

Spec == Init /\ [][Next]_<<outbox, wire, faulty>>
================================================================================
