----------------------------- MODULE AbstractFifo -----------------------------
(***************************************************************************)
(* What a word buffer promises the cores that use it: a bounded queue that *)
(* one clock edge may extend at the back, shorten at the front, or both,   *)
(* and that a reset empties.                                               *)
(***************************************************************************)
EXTENDS Naturals, Sequences

CONSTANTS Data, Capacity

VARIABLE items

Init == items = <<>>

Put == \E d \in Data : items' = Append(items, d) /\ Len(items) < Capacity

Get == items # <<>> /\ items' = Tail(items)

PutAndGet == items # <<>> /\ \E d \in Data : items' = Append(Tail(items), d)

Flush == items' = <<>>

Next == Put \/ Get \/ PutAndGet \/ Flush

Spec == Init /\ [][Next]_items
=============================================================================
