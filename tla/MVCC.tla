-------------------------------- MODULE MVCC --------------------------------
(***************************************************************************)
(* The multi-version key-value store of src/mvcc-in-memory-key-value.c.    *)
(*                                                                         *)
(* A transaction is driven by one thread, which calls begin_tx, tx_read,   *)
(* tx_write, tx_commit and tx_abort in any order.  Every critical section  *)
(* under global_lock is one action, and so is the atomic_fetch_add that    *)
(* tx_commit makes before it takes the lock; a call made of several of     *)
(* them leaves its thread at an intermediate pc, where the threads of      *)
(* other transactions interleave.                                          *)
(*                                                                         *)
(* Concurrent = FALSE is how main of that file calls the store: one thread *)
(* drives all transactions, so a call ends before the next one starts.     *)
(* Concurrent = TRUE is the use global_lock and the atomic clock are for.  *)
(***************************************************************************)
EXTENDS Integers, Sequences, FiniteSets, WaitFor

CONSTANTS
    Tx,                 \* transaction slots, 0 .. MAX_TRANSACTIONS - 1
    Keys,               \* key slots, 0 .. MAX_KEYS - 1
    Values,             \* the values clients write
    InitValue,          \* "-", the value of the initial version
    NoTx,               \* -1 in locked_by
    NoWrite,            \* no entry for a key in a write buffer
    MAX_WRITES_PER_TX,  \* capacity of a write buffer
    ULONG_MAX,          \* end_ts of a version that is still current
    MaxTs,              \* bound: timestamps handed out stay below it
    Concurrent          \* may calls of several threads overlap?

ASSUME ConstantsAssumption ==
    /\ NoTx \notin Tx
    /\ NoWrite \notin Values
    /\ MAX_WRITES_PER_TX \in Nat
    /\ ULONG_MAX \in Nat
    /\ MaxTs \in Nat
    /\ 1 < MaxTs
    /\ MaxTs <= ULONG_MAX
    /\ Concurrent \in BOOLEAN

VARIABLES
    versions,   \* per key, its versions, oldest first (the C list is newest first)
    locked_by,  \* per key, the transaction that may write it, or NoTx
    wait_for,   \* wait-for matrix, see WaitFor
    global_ts,  \* the clock
    state,      \* per transaction: TxState
    start_ts,   \* per transaction: its snapshot
    writes,     \* per transaction: write_keys/write_values, as a map
    pc,         \* per thread: where in the current call it is
    arg,        \* per thread: key and value of the tx_write under way
    commit_ts,  \* per thread: local variable of tx_commit
    ret,        \* per thread: return code of the last call
    out         \* per thread: out_value of the last tx_read

vars == <<versions, locked_by, wait_for, global_ts, state, start_ts, writes,
          pc, arg, commit_ts, ret, out>>

TxStates == {"TX_UNUSED", "TX_ACTIVE", "TX_ABORTED", "TX_COMMITTED"}
Pcs      == {"idle", "buffer", "deadlock", "install"}
Version  == [value : Values \cup {InitValue}, begin_ts : Nat, end_ts : Nat]
NoArg    == [key |-> NoWrite, value |-> NoWrite]
NoWrites == [k \in Keys |-> NoWrite]

\* The transaction may start a call: its thread is in none, and when one
\* thread drives every transaction no call at all is under way.
CanCall(t) ==
    /\ pc[t] = "idle"
    /\ Concurrent \/ \A u \in Tx : pc[u] = "idle"

\* Mutant of SeenBy: takes a version that was replaced for invisible.
SeenByIfCurrent(v, ts) == v.begin_ts <= ts /\ v.end_ts = ULONG_MAX

Newest(k)      == versions[k][Len(versions[k])]
SeenBy(v, ts)  == v.begin_ts <= ts /\ ts < v.end_ts
Visible(k, ts) == {i \in 1..Len(versions[k]) : SeenBy(versions[k][i], ts)}

WriteCount(t)  == Cardinality({k \in Keys : writes[t][k] # NoWrite})

\* The write buffers after write_count = 0 for t; its mutant forgets that.
KeptWrites(t)    == writes
ClearedWrites(t) == [writes EXCEPT ![t] = NoWrites]

\* Mutants of Released: no lock is given back; a wrong value for free locks.
ReleasedNothing(t)  == locked_by
ReleasedBadValue(t) ==
    [k \in Keys |-> IF locked_by[k] = t THEN NoWrite ELSE locked_by[k]]

\* locked_by after every lock of t is given back
Released(t) == [k \in Keys |-> IF locked_by[k] = t THEN NoTx ELSE locked_by[k]]

\* Mutants of Installed: the old version stays current; it is retired one
\* timestamp too early.
InstalledNoRetire(vs, value, ts) ==
    Append(vs, [value |-> value, begin_ts |-> ts, end_ts |-> ULONG_MAX])
InstalledEarly(vs, value, ts) ==
    Append([vs EXCEPT ![Len(vs)].end_ts = ts - 1],
           [value |-> value, begin_ts |-> ts, end_ts |-> ULONG_MAX])

\* The version list after a commit at ts puts value in front of it.
Installed(vs, value, ts) ==
    Append([vs EXCEPT ![Len(vs)].end_ts = ts],
           [value |-> value, begin_ts |-> ts, end_ts |-> ULONG_MAX])
-----------------------------------------------------------------------------
Init ==
    /\ versions = [k \in Keys |->
                    <<[value |-> InitValue, begin_ts |-> 1, end_ts |-> ULONG_MAX]>>]
    /\ locked_by = [k \in Keys |-> NoTx]
    /\ wait_for = [t \in Tx |-> {}]
    /\ global_ts = 1
    /\ state = [t \in Tx |-> "TX_UNUSED"]
    /\ start_ts = [t \in Tx |-> 0]
    /\ writes = [t \in Tx |-> NoWrites]
    /\ pc = [t \in Tx |-> "idle"]
    /\ arg = [t \in Tx |-> NoArg]
    /\ commit_ts = [t \in Tx |-> 0]
    /\ ret = [t \in Tx |-> 0]
    /\ out = [t \in Tx |-> InitValue]

\* begin_tx.  A slot may be begun again whatever its state: the buffer and
\* the wait-for edges go, the locks it holds stay.
BeginTx(t) ==
    /\ CanCall(t)
    /\ global_ts < MaxTs
    /\ state' = [state EXCEPT ![t] = "TX_ACTIVE"]
    /\ start_ts' = [start_ts EXCEPT ![t] = global_ts]
    /\ global_ts' = global_ts + 1
    /\ writes' = ClearedWrites(t)
    /\ wait_for' = WithoutTx(Tx, wait_for, t)
    /\ ret' = [ret EXCEPT ![t] = 0]
    /\ UNCHANGED <<versions, locked_by, pc, arg, commit_ts, out>>

\* The early returns of tx_read, tx_write and tx_commit.
Refused(t) ==
    /\ CanCall(t)
    /\ state[t] # "TX_ACTIVE"
    /\ ret' = [ret EXCEPT ![t] = -1]
    /\ UNCHANGED <<versions, locked_by, wait_for, global_ts, state, start_ts,
                   writes, pc, arg, commit_ts, out>>

\* tx_read: the transaction's own write, else the first version, from the
\* newest on, that its snapshot sees, else failure and out_value untouched.
TxRead(t, k) ==
    LET seen == Visible(k, start_ts[t])
    IN  /\ CanCall(t)
        /\ state[t] = "TX_ACTIVE"
        /\ out' = [out EXCEPT ![t] =
                     IF writes[t][k] # NoWrite THEN writes[t][k]
                     ELSE IF seen = {} THEN @
                     ELSE versions[k][CHOOSE i \in seen : \A j \in seen : j <= i].value]
        /\ ret' = [ret EXCEPT ![t] =
                     IF writes[t][k] = NoWrite /\ seen = {} THEN -1 ELSE 0]
        /\ UNCHANGED <<versions, locked_by, wait_for, global_ts, state, start_ts,
                       writes, pc, arg, commit_ts>>

\* tx_write up to the end of try_acquire_lock, when the lock is free or ours.
AcquireLock(t, k, v) ==
    /\ CanCall(t)
    /\ state[t] = "TX_ACTIVE"
    /\ locked_by[k] \in {NoTx, t}
    /\ locked_by' = [locked_by EXCEPT ![k] = t]
    /\ wait_for' = WithoutRow(wait_for, t)
    /\ pc' = [pc EXCEPT ![t] = "buffer"]
    /\ arg' = [arg EXCEPT ![t] = [key |-> k, value |-> v]]
    /\ UNCHANGED <<versions, global_ts, state, start_ts, writes, commit_ts, ret, out>>

\* tx_write when another transaction owns the lock: an edge is added, and
\* any cycle in the graph, the caller's or not, makes the caller a victim.
\* Without one the write is dropped and the edge stays.
BlockedOnLock(t, k) ==
    /\ CanCall(t)
    /\ state[t] = "TX_ACTIVE"
    /\ locked_by[k] \notin {NoTx, t}
    /\ wait_for' = WithEdge(wait_for, t, locked_by[k])
    /\ \/ /\ DetectDeadlock(Tx, wait_for')
          /\ pc' = [pc EXCEPT ![t] = "deadlock"]
          /\ UNCHANGED ret
       \/ /\ ~DetectDeadlock(Tx, wait_for')
          /\ ret' = [ret EXCEPT ![t] = 1]
          /\ UNCHANGED pc
    /\ UNCHANGED <<versions, locked_by, global_ts, state, start_ts, writes, arg,
                   commit_ts, out>>

\* Mutant of DeadlockAbort: leaves the wait-for edges of the victim.
DeadlockAbortKeepsEdges(t) ==
    /\ pc[t] = "deadlock"
    /\ state' = [state EXCEPT ![t] = "TX_ABORTED"]
    /\ locked_by' = Released(t)
    /\ ret' = [ret EXCEPT ![t] = -1]
    /\ pc' = [pc EXCEPT ![t] = "idle"]
    /\ UNCHANGED <<versions, wait_for, global_ts, start_ts, writes, arg, commit_ts, out>>

\* The victim's cleanup in tx_write.  t->state is set before the lock is
\* taken, but only this thread reads it.  The write buffer is left as it is.
DeadlockAbort(t) ==
    /\ pc[t] = "deadlock"
    /\ state' = [state EXCEPT ![t] = "TX_ABORTED"]
    /\ wait_for' = WithoutTx(Tx, wait_for, t)
    /\ locked_by' = Released(t)
    /\ ret' = [ret EXCEPT ![t] = -1]
    /\ pc' = [pc EXCEPT ![t] = "idle"]
    /\ UNCHANGED <<versions, global_ts, start_ts, writes, arg, commit_ts, out>>

\* The second critical section of tx_write: update the entry of the key, or
\* add one if there is room.  A full buffer fails the write, lock kept.
BufferWrite(t) ==
    LET k == arg[t].key
        full == writes[t][k] = NoWrite /\ WriteCount(t) >= MAX_WRITES_PER_TX
    IN  /\ pc[t] = "buffer"
        /\ \/ /\ full
              /\ ret' = [ret EXCEPT ![t] = -1]
              /\ UNCHANGED writes
           \/ /\ ~full
              /\ writes' = [writes EXCEPT ![t][k] = arg[t].value]
              /\ ret' = [ret EXCEPT ![t] = 0]
        /\ pc' = [pc EXCEPT ![t] = "idle"]
        /\ arg' = [arg EXCEPT ![t] = NoArg]
        /\ UNCHANGED <<versions, locked_by, wait_for, global_ts, state, start_ts,
                       commit_ts, out>>

\* tx_commit draws its timestamp before it takes global_lock ...
DrawCommitTs(t) ==
    /\ CanCall(t)
    /\ state[t] = "TX_ACTIVE"
    /\ global_ts < MaxTs
    /\ commit_ts' = [commit_ts EXCEPT ![t] = global_ts]
    /\ global_ts' = global_ts + 1
    /\ pc' = [pc EXCEPT ![t] = "install"]
    /\ UNCHANGED <<versions, locked_by, wait_for, state, start_ts, writes, arg,
                   ret, out>>

\* ... and installs the buffered writes under the lock.
InstallCommit(t) ==
    /\ pc[t] = "install"
    /\ versions' = [k \in Keys |->
                     IF writes[t][k] = NoWrite THEN versions[k]
                     ELSE Installed(versions[k], writes[t][k], commit_ts[t])]
    /\ locked_by' = Released(t)
    /\ wait_for' = WithoutTx(Tx, wait_for, t)
    /\ state' = [state EXCEPT ![t] = "TX_COMMITTED"]
    /\ pc' = [pc EXCEPT ![t] = "idle"]
    /\ commit_ts' = [commit_ts EXCEPT ![t] = 0]
    /\ ret' = [ret EXCEPT ![t] = 0]
    /\ UNCHANGED <<global_ts, start_ts, writes, arg, out>>

\* tx_abort, which asks nothing of the state of the transaction.
TxAbort(t) ==
    /\ CanCall(t)
    /\ locked_by' = Released(t)
    /\ wait_for' = WithoutTx(Tx, wait_for, t)
    /\ writes' = ClearedWrites(t)
    /\ state' = [state EXCEPT ![t] = "TX_ABORTED"]
    /\ UNCHANGED <<versions, global_ts, start_ts, pc, arg, commit_ts, ret, out>>

Next ==
    \E t \in Tx :
        \/ BeginTx(t)
        \/ Refused(t)
        \/ \E k \in Keys : TxRead(t, k)
        \/ \E k \in Keys, v \in Values : AcquireLock(t, k, v)
        \/ \E k \in Keys : BlockedOnLock(t, k)
        \/ DeadlockAbort(t)
        \/ BufferWrite(t)
        \/ DrawCommitTs(t)
        \/ InstallCommit(t)
        \/ TxAbort(t)

\* A thread inside a call goes on until the call returns: no section of a
\* call waits for anything but global_lock, which no section keeps.
Fairness ==
    \A t \in Tx : WF_vars(DeadlockAbort(t) \/ BufferWrite(t) \/ InstallCommit(t))

Spec == Init /\ [][Next]_vars /\ Fairness
-----------------------------------------------------------------------------
TypeOK ==
    /\ versions \in [Keys -> Seq(Version)]
    /\ locked_by \in [Keys -> Tx \cup {NoTx}]
    /\ wait_for \in [Tx -> SUBSET Tx]
    /\ global_ts \in 1..MaxTs
    /\ state \in [Tx -> TxStates]
    /\ start_ts \in [Tx -> Nat]
    /\ writes \in [Tx -> [Keys -> Values \cup {NoWrite}]]
    /\ pc \in [Tx -> Pcs]
    /\ arg \in [Tx -> [key : Keys, value : Values] \cup {NoArg}]
    /\ commit_ts \in [Tx -> Nat]
    /\ ret \in [Tx -> {-1, 0, 1}]
    /\ out \in [Tx -> Values \cup {InitValue}]

\* A snapshot sees exactly one version of every key: tx_read of an active
\* transaction neither falls through the version list (line 199) nor depends
\* on the order in which it walks the list.
SnapshotTotal ==
    \A t \in Tx, k \in Keys :
        state[t] = "TX_ACTIVE" =>
            \E i \in 1..Len(versions[k]) : Visible(k, start_ts[t]) = {i}

\* Write locks do their work across calls: the key of a buffered write of a
\* live transaction is locked by it until commit (lines 146-148, 282-284),
\* so two live transactions never have writes of one key to install.
BufferedMeansLocked ==
    \A t \in Tx, k \in Keys :
        state[t] = "TX_ACTIVE" /\ writes[t][k] # NoWrite => locked_by[k] = t

\* No lock outlives its transaction: whatever way it ended (commit, abort,
\* deadlock), nothing is left locked by a transaction that is not live, so
\* nobody can be blocked by it for ever.
NoLeakedLock ==
    \A k \in Keys : locked_by[k] # NoTx => state[locked_by[k]] = "TX_ACTIVE"

\* Write locks and transactions live together, whatever order the calls of a
\* slot come in (begin_tx may reuse a live one, lines 129-140).
LocksCoverWrites == BufferedMeansLocked /\ NoLeakedLock

\* No stale edge: a transaction that somebody waits for still holds a lock
\* (every path that gives locks back also clears the column of the matrix).
EdgesPointAtOwners ==
    \A t, u \in Tx :
        u \in wait_for[t] => \E k \in Keys : locked_by[k] = u

\* No deadlock goes unnoticed: every cycle of the wait-for graph, whoever
\* closed it and whatever happened between try_acquire_lock and the cleanup
\* at lines 216-222, has a member that is on its way to abort.
CyclesHaveVictim ==
    \A C \in SUBSET Tx :
        Cyclic(C, wait_for) => \E t \in C : pc[t] = "deadlock"

\* The claim main prints at line 353: what a live transaction reads is
\* unchanged by the commit of another one.
SnapshotStable ==
    [][\A t \in Tx, k \in Keys :
         (state[t] = "TX_ACTIVE" /\ state'[t] = "TX_ACTIVE" /\ start_ts'[t] = start_ts[t])
         => Visible(k, start_ts[t])' = Visible(k, start_ts[t])]_vars

\* What is left of it when calls overlap: a commit moves the snapshot of a
\* live transaction only if its timestamp was drawn (line 263) before that
\* transaction began, and its versions arrived after.
SnapshotMovesOnlyBackwards ==
    [][\A t, u \in Tx, k \in Keys :
         (state[t] = "TX_ACTIVE" /\ t # u /\ pc[u] = "install" /\ pc'[u] = "idle"
            /\ start_ts[t] < commit_ts[u])
         => Visible(k, start_ts[t])' = Visible(k, start_ts[t])]_vars

\* Deadlocks are resolved: no set of transactions waits in a circle for ever.
DeadlockBroken ==
    \A C \in SUBSET Tx : Cyclic(C, wait_for) ~> ~Cyclic(C, wait_for)
=============================================================================
