------------------------------ MODULE FIFOQueue ------------------------------
(***************************************************************************)
(* What a bounded first-in first-out command queue promises its two sides: *)
(* a row is appended whole, rows come out in the order they went in, each  *)
(* at most once, and never more than Capacity of them wait.                *)
(***************************************************************************)
EXTENDS Integers, Sequences

CONSTANTS Capacity, Rows

VARIABLES
    items,      \* the rows that wait, oldest first
    received    \* what the latest successful read returned

vars == <<items, received>>

Init ==
    /\ items = <<>>
    /\ received = <<>>

Put(row) ==
    /\ Len(items) < Capacity
    /\ items' = Append(items, row)
    /\ UNCHANGED received

Take(n) ==
    /\ received' = SubSeq(items, 1, n)
    /\ items' = SubSeq(items, n + 1, Len(items))

Discard(n) ==
    /\ items' = SubSeq(items, n + 1, Len(items))
    /\ UNCHANGED received

Next ==
    \/ \E row \in Rows : Put(row)
    \/ \E n \in 1..Len(items) : Take(n) \/ Discard(n)

Spec == Init /\ [][Next]_vars
=============================================================================
