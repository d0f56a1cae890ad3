---------------------------- MODULE BoundedFIFO -----------------------------
(***************************************************************************)
(* What a bounded multi-producer, single-consumer queue promises: the      *)
(* values put come out once and in the order they were put, and at most    *)
(* Capacity of them are inside.  A put or a take that fails changes        *)
(* nothing, and either may fail at any time.                               *)
(***************************************************************************)
EXTENDS Naturals, Sequences

CONSTANTS Value, Capacity

VARIABLES
    items,               \* the values inside, oldest first
    last                 \* the value taken last

vars == <<items, last>>

Init == items = <<>> /\ last \notin Value

Put(v) ==
    /\ Len(items) < Capacity
    /\ items' = Append(items, v)
    /\ UNCHANGED last

Take ==
    /\ items # <<>>
    /\ last' = Head(items)
    /\ items' = Tail(items)

Next == (\E v \in Value : Put(v)) \/ Take

Spec == Init /\ [][Next]_vars
=============================================================================
