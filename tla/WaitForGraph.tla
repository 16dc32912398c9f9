----------------------------- MODULE WaitForGraph -----------------------------
(***************************************************************************)
(* The deadlock detector of src/mvcc-in-memory-key-value.c: the recursive  *)
(* depth-first search dfs_cycle with its two arrays, run by                *)
(* detect_deadlock from every node not yet visited.  Transactions are      *)
(* 0 .. MAX_TRANSACTIONS - 1 here because the search visits them in the    *)
(* order of their slots.  MCMVCC compares it with DetectDeadlock, which    *)
(* MVCC uses.                                                              *)
(***************************************************************************)
EXTENDS Integers, WaitFor

CONSTANT MAX_TRANSACTIONS

ASSUME MaxTransactionsAssumption == MAX_TRANSACTIONS \in Nat \ {0}

Slots == 0 .. MAX_TRANSACTIONS - 1

\* What a call of dfs_cycle returns and leaves in the arrays it is passed.
SearchStates == [found : BOOLEAN, visited : SUBSET Slots, recStack : SUBSET Slots]
SearchState(found, visited, recStack) ==
    [found |-> found, visited |-> visited, recStack |-> recStack]

\* dfs_cycle(u) at its loop's test for v, and the arrays there.
Iterations == [u : Slots, v : 0..MAX_TRANSACTIONS, visited : SUBSET Slots, recStack : SUBSET Slots]
Iteration(u, v, s) == [u |-> u, v |-> v, visited |-> s.visited, recStack |-> s.recStack]

\* dfs_cycle(u) before its loop.
Entered(u, s) ==
    [u |-> u, v |-> 0, visited |-> s.visited \cup {u}, recStack |-> s.recStack \cup {u}]

\* dfs_cycle(u) gives up: u leaves the recursion stack and stays visited.
\* The mutant leaves it on the stack.
StuckOnStack(u, s) == SearchState(FALSE, s.visited, s.recStack)
OffStack(u, s)     == SearchState(FALSE, s.visited, s.recStack \ {u})

\* The rest of a call of dfs_cycle in graph g, from an iteration on.
dfs_cycle(g) ==
    LET rest[c \in Iterations] ==
          LET callee == rest[Entered(c.v, c)]
          IN  IF c.v = MAX_TRANSACTIONS
                THEN OffStack(c.u, c)
              ELSE IF c.v \notin g[c.u]
                THEN rest[Iteration(c.u, c.v + 1, c)]
              ELSE IF c.v \in c.visited
                THEN IF c.v \in c.recStack THEN SearchState(TRUE, c.visited, c.recStack)
                     ELSE rest[Iteration(c.u, c.v + 1, c)]
              ELSE IF callee.found \/ c.v \in callee.recStack
                THEN SearchState(TRUE, callee.visited, callee.recStack)
              ELSE rest[Iteration(c.u, c.v + 1, callee)]
    IN  rest

\* The loop of detect_deadlock, at its test for i.
Roots == [i : 0..MAX_TRANSACTIONS, visited : SUBSET Slots, recStack : SUBSET Slots]
Root(i, s) == [i |-> i, visited |-> s.visited, recStack |-> s.recStack]

detect_deadlock(g) ==
    LET rest[c \in Roots] ==
          LET callee == dfs_cycle(g)[Entered(c.i, c)]
          IN  IF c.i = MAX_TRANSACTIONS THEN FALSE
              ELSE IF c.i \in c.visited THEN rest[Root(c.i + 1, c)]
              ELSE callee.found \/ rest[Root(c.i + 1, callee)]
    IN  rest[Root(0, SearchState(FALSE, {}, {}))]
=============================================================================
