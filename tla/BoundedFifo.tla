----------------------------- MODULE BoundedFifo -----------------------------
(***************************************************************************)
(* What a bounded producer-consumer buffer promises: a first-in first-out  *)
(* queue of at most Capacity items, from which every item put in comes out *)
(* once and in order.                                                      *)
(***************************************************************************)
EXTENDS Naturals, Sequences

CONSTANTS Items, Capacity

VARIABLES queue, taken

vars == <<queue, taken>>

Init ==
    /\ queue = <<>>
    /\ taken = <<>>

Put(item) ==
    /\ Len(queue) < Capacity
    /\ queue' = Append(queue, item)
    /\ UNCHANGED taken

Take ==
    /\ queue # <<>>
    /\ queue' = Tail(queue)
    /\ taken' = Append(taken, Head(queue))

Next == Take \/ \E item \in Items : Put(item)

Spec == Init /\ [][Next]_vars
=============================================================================
