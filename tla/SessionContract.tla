---------------------------- MODULE SessionContract ----------------------------
(***************************************************************************)
(* What WanServer promises its INetworkEventListener about sessions: an ID *)
(* is announced once, withdrawn at most once and only after it was         *)
(* announced, never used again, and at no time do two live IDs share a     *)
(* slot of the table.                                                      *)
(***************************************************************************)
EXTENDS Integers

CONSTANTS Slots, MaxUnique

IDs == (0 .. MaxUnique - 1) \X Slots

VARIABLES
    joined,     \* the IDs OnClientJoin has been called with
    left        \* the IDs OnClientLeave has been called with

live == joined \ left

Init == joined = {} /\ left = {}

OnClientJoin(i) ==
    /\ \A j \in joined : j[1] < i[1]
    /\ \A j \in live : j[2] # i[2]
    /\ joined' = joined \cup {i}
    /\ UNCHANGED left

OnClientLeave(i) ==
    /\ i \in live
    /\ left' = left \cup {i}
    /\ UNCHANGED joined

Next == \E i \in IDs : OnClientJoin(i) \/ OnClientLeave(i)

Spec == Init /\ [][Next]_<<joined, left>>
================================================================================
