------------------------------ MODULE BoundedMap ------------------------------
(***************************************************************************)
(* What a key-value server promises: requests are served one at a time, a  *)
(* GET is answered with the value of the last SET that was kept, and a SET *)
(* of a new key is kept while there is room and acknowledged in any case.  *)
(***************************************************************************)
EXTENDS Integers, FiniteSets

CONSTANTS Keys, Values, Capacity, None

VARIABLES
    map,    \* per key, its value or None
    last    \* the last request served and its answer

Size == Cardinality({k \in Keys : map[k] # None})

Init ==
    /\ map = [k \in Keys |-> None]
    /\ last = <<None, None>>

Set(k, v) ==
    /\ map' = IF map[k] = None /\ Size >= Capacity THEN map ELSE [map EXCEPT ![k] = v]
    /\ last' = <<[op |-> "SET", key |-> k, value |-> v], "OK">>

Get(k) ==
    /\ last' = <<[op |-> "GET", key |-> k], IF map[k] = None THEN "NOT_FOUND" ELSE map[k]>>
    /\ UNCHANGED map

Refuse ==
    /\ last' = <<[op |-> "BAD"], "ERROR">>
    /\ UNCHANGED map

Next ==
    \/ \E k \in Keys, v \in Values : Set(k, v)
    \/ \E k \in Keys : Get(k)
    \/ Refuse

Spec == Init /\ [][Next]_<<map, last>>
=============================================================================
