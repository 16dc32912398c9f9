------------------------------- MODULE WaitFor -------------------------------
(***************************************************************************)
(* The wait-for matrix of src/mvcc-in-memory-key-value.c (line 53).  The   *)
(* C array wait_for[MAX_TRANSACTIONS][MAX_TRANSACTIONS] is a function from *)
(* a transaction to the set of transactions its row marks with 1.          *)
(***************************************************************************)
EXTENDS Integers

\* Every member of C waits for some member of C: C holds at least one cycle.
Cyclic(C, wait_for) ==
    /\ C # {}
    /\ \A u \in C : \E v \in C : v \in wait_for[u]

\* Mutant of DetectDeadlock: only looks for two transactions that wait for
\* each other.
DetectPairs(T, wait_for) == \E u, v \in T : v \in wait_for[u] /\ u \in wait_for[v]

\* What detect_deadlock answers about the transactions in T.  WaitForGraph
\* holds the depth-first search of the code and compares the two.
DetectDeadlock(T, wait_for) == \E C \in SUBSET T : Cyclic(C, wait_for)

\* wait_for[t][owner] = 1
WithEdge(wait_for, t, owner) == [wait_for EXCEPT ![t] = @ \cup {owner}]

\* wait_for[t][j] = 0 for every j
WithoutRow(wait_for, t) == [wait_for EXCEPT ![t] = {}]

\* Mutant of WithoutTx: forgets the column.
WithoutTxRowOnly(T, wait_for, t) == [u \in T |-> IF u = t THEN {} ELSE wait_for[u]]

\* wait_for[t][j] = wait_for[j][t] = 0 for every j
WithoutTx(T, wait_for, t) ==
    [u \in T |-> IF u = t THEN {} ELSE wait_for[u] \ {t}]
=============================================================================
