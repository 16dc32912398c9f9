------------------------------- MODULE MCMVCC -------------------------------
EXTENDS MVCC, WaitForGraph, TLC

CONSTANTS t1, t2, t3, k1, k2, k3, v1

\* Transactions and keys are interchangeable in safety runs.
Symmetry3 == Permutations({t1, t2, t3}) \cup Permutations({k1, k2, k3})

\* The ways to give the transactions the slots of the C arrays.
Numberings ==
    {f \in [Slots -> Tx] : /\ \A i, j \in Slots : f[i] = f[j] => i = j
                           /\ \A t \in Tx : \E i \in Slots : f[i] = t}

\* detect_deadlock (lines 93-118) answers true exactly when some
\* transactions wait for each other in a circle, on every wait-for matrix
\* the store reaches, whichever slots the transactions have and so whichever
\* order the search visits them in: a node left visited by an earlier,
\* fruitless search is never taken for a cycle, nor hides one.
DfsFindsExactlyTheCycles ==
    \A f \in Numberings :
        detect_deadlock([i \in Slots |-> {j \in Slots : f[j] \in wait_for[f[i]]}])
          <=> DetectDeadlock(Tx, wait_for)
=============================================================================
