----------------------------- MODULE FilterSearch -----------------------------
(***************************************************************************)
(* The two searches of src/filtering.c: a linear one over the records as   *)
(* generated, then, after a sort by age, a binary one for the first record *)
(* that matches.  Every iteration of the binary search is a step.          *)
(***************************************************************************)
EXTENDS Integers

CONSTANTS
    num_records,
    Ages,           \* rand() % 100
    filterage

\* What the searches assume of the constants.
SizesOK == num_records \in Nat /\ Ages \subseteq Int /\ filterage \in Int

VARIABLES
    records,        \* id and age of every record
    at,             \* linear, sort, search or done
    printed,        \* ids the linear search printed
    left, right, result

vars == <<records, at, printed, left, right, result>>

Indices == 0..(num_records - 1)
Record  == [id : Int, age : Ages]

\* generaterecords: ids in order, any ages.
Init ==
    /\ records \in [Indices -> [id : 1..num_records, age : Ages]]
    /\ \A i \in Indices : records[i].id = i + 1
    /\ at = "linear"
    /\ printed = {}
    /\ left = 0 /\ right = -1 /\ result = -1

\* The filter, and the mutant that takes only what is above it.
Above(r)   == r.age > filterage
Matches(r) == r.age >= filterage

linearsearch ==
    /\ at = "linear"
    /\ printed' = {records[i].id : i \in {i \in Indices : records[i].age >= filterage}}
    /\ at' = "sort"
    /\ UNCHANGED <<records, left, right, result>>

\* qsort with comparebyage; records of the same age come in any order.
Permuted == {f \in [Indices -> Indices] : \A j \in Indices : \E i \in Indices : f[i] = j}
SortByAge ==
    /\ at = "sort"
    /\ \E f \in Permuted :
         /\ \A i, j \in Indices : i < j => records[f[i]].age <= records[f[j]].age
         /\ records' = [i \in Indices |-> records[f[i]]]
    /\ left' = 0 /\ right' = num_records - 1 /\ result' = -1
    /\ at' = "search"
    /\ UNCHANGED printed

mid == left + (right - left) \div 2

\* An iteration of binarysearch.
binarysearch ==
    /\ at = "search" /\ left <= right
    /\ IF Matches(records[mid])
         THEN result' = mid /\ right' = mid - 1 /\ UNCHANGED left
         ELSE left' = mid + 1 /\ UNCHANGED <<right, result>>
    /\ UNCHANGED <<records, at, printed>>

Finish ==
    /\ at = "search" /\ left > right
    /\ at' = "done"
    /\ UNCHANGED <<records, printed, left, right, result>>

Next == linearsearch \/ SortByAge \/ binarysearch \/ Finish

Spec == Init /\ [][Next]_vars
-----------------------------------------------------------------------------
TypeOK ==
    /\ records \in [Indices -> Record]
    /\ at \in {"linear", "sort", "search", "done"}
    /\ left \in 0..num_records
    /\ right \in -1..(num_records - 1)
    /\ result \in -1..(num_records - 1)

\* What binarysearch returns (lines 44-62): the first record of that age or
\* above, or -1 if there is none; and from there on the sorted table holds
\* exactly the records the linear search printed (lines 25-34).
FirstFound ==
    at = "done" =>
        LET from == IF result = -1 THEN num_records ELSE result
        IN  printed = {records[i].id : i \in {i \in Indices : i >= from}}
=============================================================================
