----------------------------- MODULE MVCCProofs -----------------------------
(***************************************************************************)
(* Proofs about the store of the module MVCC, for any number of            *)
(* transactions and keys, with calls overlapping or not, and about the     *)
(* depth-first search of its deadlock detector in WaitForGraph.            *)
(***************************************************************************)
EXTENDS MCMVCC, FiniteSetTheorems, NaturalsInduction, WellFoundedInduction, TLAPS

\* Locks and program counters.
LockInv ==
    /\ BufferedMeansLocked
    /\ NoLeakedLock
    /\ \A t \in Tx : pc[t] # "idle" => state[t] = "TX_ACTIVE"
    /\ \A t \in Tx : pc[t] = "buffer" =>
         /\ arg[t].key \in Keys
         /\ arg[t].value \in Values
         /\ locked_by[arg[t].key] = t

\* The clock is ahead of everything drawn from it.
ClockInv ==
    /\ \A t \in Tx : state[t] = "TX_ACTIVE" => start_ts[t] \in 1..(global_ts - 1)
    /\ \A t \in Tx : pc[t] = "install" => commit_ts[t] \in 2..(global_ts - 1)

\* One key's version list, oldest first: not empty, intervals that do not
\* overlap, the last one open, and together covering all of 1..ULONG_MAX-1.
Chain(vs) ==
    /\ Len(vs) # 0
    /\ vs[Len(vs)].end_ts = ULONG_MAX
    /\ \A i \in 1..Len(vs) : vs[i].begin_ts < vs[i].end_ts
    /\ \A i, j \in 1..Len(vs) : i < j => vs[i].end_ts <= vs[j].begin_ts
    /\ \A ts \in 1..(ULONG_MAX - 1) : \E i \in 1..Len(vs) : SeenBy(vs[i], ts)

ChainInv ==
    \A k \in Keys :
        /\ Chain(versions[k])
        /\ Newest(k).begin_ts = 1 \/ Newest(k).begin_ts < global_ts

\* A commit timestamp under way is later than what it will retire.
CommitInv ==
    \A t \in Tx, k \in Keys :
        pc[t] = "install" /\ writes[t][k] # NoWrite =>
            Newest(k).begin_ts < commit_ts[t]

IInv == TypeOK /\ LockInv /\ ClockInv /\ ChainInv /\ CommitInv
-----------------------------------------------------------------------------
\* What tx_commit's list surgery (lines 270-279) leaves behind.
LEMMA InstalledFacts ==
  ASSUME NEW vs \in Seq(Version), Len(vs) # 0, NEW value \in Values, NEW ts \in Nat
  PROVE  /\ Installed(vs, value, ts) \in Seq(Version)
         /\ Len(Installed(vs, value, ts)) = Len(vs) + 1
         /\ \A i \in 1..Len(vs) :
              /\ i # Len(vs) => Installed(vs, value, ts)[i] = vs[i]
              /\ Installed(vs, value, ts)[i].begin_ts = vs[i].begin_ts
         /\ Installed(vs, value, ts)[Len(vs)].end_ts = ts
         /\ Installed(vs, value, ts)[Len(vs) + 1].begin_ts = ts
         /\ Installed(vs, value, ts)[Len(vs) + 1].end_ts = ULONG_MAX
  <1> DEFINE old == [vs EXCEPT ![Len(vs)].end_ts = ts]
             new == [value |-> value, begin_ts |-> ts, end_ts |-> ULONG_MAX]
  <1> USE ConstantsAssumption
  <1>1. Len(vs) \in 1..Len(vs) /\ vs[Len(vs)] \in Version
    OBVIOUS
  <1>2. [vs[Len(vs)] EXCEPT !.end_ts = ts] \in Version
    BY <1>1 DEF Version
  <1>3. /\ old \in Seq(Version)
        /\ Len(old) = Len(vs)
        /\ old[Len(vs)] = [vs[Len(vs)] EXCEPT !.end_ts = ts]
        /\ \A i \in 1..Len(vs) : i # Len(vs) => old[i] = vs[i]
    BY <1>1, <1>2
  <1>4. new \in Version /\ new.begin_ts = ts /\ new.end_ts = ULONG_MAX
    BY DEF Version
  <1>5. /\ old[Len(vs)].end_ts = ts
        /\ old[Len(vs)].begin_ts = vs[Len(vs)].begin_ts
    BY <1>1, <1>3 DEF Version
  <1> HIDE DEF old, new
  <1>6. /\ Append(old, new) \in Seq(Version)
        /\ Len(Append(old, new)) = Len(vs) + 1
        /\ \A i \in 1..Len(vs) : Append(old, new)[i] = old[i]
        /\ Append(old, new)[Len(vs) + 1] = new
    BY <1>3, <1>4
  <1>7. Installed(vs, value, ts) = Append(old, new)
    BY DEF Installed, old, new
  <1>8. \A i \in 1..Len(vs) : old[i].begin_ts = vs[i].begin_ts
    BY <1>3, <1>5
  <1> QED
    BY <1>1, <1>3, <1>4, <1>5, <1>6, <1>7, <1>8

\* In a chain of versions every timestamp sees exactly one.
LEMMA ChainTotal ==
  ASSUME NEW vs \in Seq(Version), Chain(vs), NEW ts \in 1..(ULONG_MAX - 1)
  PROVE  \E i \in 1..Len(vs) : {j \in 1..Len(vs) : SeenBy(vs[j], ts)} = {i}
  <1>1. PICK i \in 1..Len(vs) : SeenBy(vs[i], ts)
    BY DEF Chain
  <1>2. ASSUME NEW j \in 1..Len(vs), SeenBy(vs[j], ts) PROVE j = i
    <2>1. vs[i] \in Version /\ vs[j] \in Version
      OBVIOUS
    <2>2. /\ vs[i].begin_ts \in Nat /\ vs[i].end_ts \in Nat
          /\ vs[j].begin_ts \in Nat /\ vs[j].end_ts \in Nat
      BY <2>1 DEF Version
    <2>3. ~(i < j)
      BY <1>1, <1>2, <2>2 DEF Chain, SeenBy
    <2>4. ~(j < i)
      BY <1>1, <1>2, <2>2 DEF Chain, SeenBy
    <2> QED
      BY <2>3, <2>4
  <1> QED
    BY <1>1, <1>2

\* A live transaction's snapshot lies where the chains are total.
LEMMA SnapshotTotalFromInv == IInv => SnapshotTotal
  <1> SUFFICES ASSUME IInv, NEW t \in Tx, NEW k \in Keys, state[t] = "TX_ACTIVE"
               PROVE  \E i \in 1..Len(versions[k]) : Visible(k, start_ts[t]) = {i}
    BY DEF SnapshotTotal
  <1>1. start_ts[t] \in 1..(ULONG_MAX - 1)
    BY ConstantsAssumption DEF IInv, TypeOK, ClockInv
  <1>2. versions[k] \in Seq(Version) /\ Chain(versions[k])
    BY DEF IInv, TypeOK, ChainInv
  <1> QED
    BY <1>1, <1>2, ChainTotal DEF Visible

\* The initial state satisfies the type invariant (init_store, lines 64-90).
LEMMA TypeInit == Init => TypeOK
  BY ConstantsAssumption
  DEF Init, TypeOK, TxStates, Pcs, Version, NoWrites, NoArg

\* Every critical section keeps the type invariant.
LEMMA TypeNext == IInv /\ [Next]_vars => TypeOK'
  <1> SUFFICES ASSUME IInv, [Next]_vars PROVE TypeOK'
    OBVIOUS
  <1> TypeOK /\ LockInv /\ ChainInv
    BY DEF IInv
  <1> USE ConstantsAssumption DEF TypeOK, TxStates, Pcs
  <1>1. ASSUME NEW t \in Tx, BeginTx(t) PROVE TypeOK'
    BY <1>1 DEF BeginTx, ClearedWrites, NoWrites, WithoutTx
  <1>2. ASSUME NEW t \in Tx, Refused(t) PROVE TypeOK'
    BY <1>2 DEF Refused
  <1>3. ASSUME NEW t \in Tx, NEW k \in Keys, TxRead(t, k) PROVE TypeOK'
    <2> DEFINE seen == Visible(k, start_ts[t])
               newest == CHOOSE i \in seen : \A j \in seen : j <= i
               result == IF writes[t][k] # NoWrite THEN writes[t][k]
                         ELSE IF seen = {} THEN out[t] ELSE versions[k][newest].value
    <2>1. PICK i \in 1..Len(versions[k]) : seen = {i}
      BY <1>3, SnapshotTotalFromInv DEF TxRead, SnapshotTotal
    <2>2. newest = i /\ seen # {}
      BY <2>1
    <2>3. versions[k][i] \in Version
      OBVIOUS
    <2>4. versions[k][i].value \in Values \cup {InitValue}
      BY <2>3 DEF Version
    <2>5. out' = [out EXCEPT ![t] = result]
      BY <1>3 DEF TxRead
    <2> HIDE DEF newest, seen
    <2>6. result \in Values \cup {InitValue}
      BY <2>2, <2>4
    <2> HIDE DEF result
    <2>7. out' \in [Tx -> Values \cup {InitValue}]
      BY <2>5, <2>6
    <2> QED
      BY <1>3, <2>7 DEF TxRead
  <1>4. ASSUME NEW t \in Tx, NEW k \in Keys, NEW v \in Values, AcquireLock(t, k, v)
        PROVE TypeOK'
    <2>1. [key |-> k, value |-> v] \in [key : Keys, value : Values]
      OBVIOUS
    <2>2. arg' \in [Tx -> [key : Keys, value : Values] \cup {NoArg}]
      BY <1>4, <2>1 DEF AcquireLock
    <2> QED
      BY <1>4, <2>2 DEF AcquireLock, WithoutRow
  <1>5. ASSUME NEW t \in Tx, NEW k \in Keys, BlockedOnLock(t, k) PROVE TypeOK'
    <2>1. locked_by[k] \in Tx
      BY <1>5 DEF BlockedOnLock
    <2>2. wait_for' \in [Tx -> SUBSET Tx]
      BY <1>5, <2>1 DEF BlockedOnLock, WithEdge
    <2>3. pc' \in [Tx -> Pcs] /\ ret' \in [Tx -> {-1, 0, 1}]
      BY <1>5, ZenonT(60) DEF BlockedOnLock
    <2> QED
      BY <1>5, <2>2, <2>3 DEF BlockedOnLock
  <1>6. ASSUME NEW t \in Tx, DeadlockAbort(t) PROVE TypeOK'
    BY <1>6 DEF DeadlockAbort, WithoutTx, Released
  <1>7. ASSUME NEW t \in Tx, BufferWrite(t) PROVE TypeOK'
    <2>1. arg[t].key \in Keys /\ arg[t].value \in Values
      BY <1>7 DEF BufferWrite, LockInv
    <2>2. [writes EXCEPT ![t][arg[t].key] = arg[t].value]
            \in [Tx -> [Keys -> Values \cup {NoWrite}]]
      BY <2>1
    <2>3. [arg EXCEPT ![t] = NoArg] \in [Tx -> [key : Keys, value : Values] \cup {NoArg}]
      OBVIOUS
    <2> QED
      BY <1>7, <2>2, <2>3 DEF BufferWrite
  <1>8. ASSUME NEW t \in Tx, DrawCommitTs(t) PROVE TypeOK'
    BY <1>8 DEF DrawCommitTs
  <1>9. ASSUME NEW t \in Tx, InstallCommit(t) PROVE TypeOK'
    <2>1. ASSUME NEW k \in Keys, writes[t][k] # NoWrite
          PROVE Installed(versions[k], writes[t][k], commit_ts[t]) \in Seq(Version)
      <3>1. versions[k] \in Seq(Version) /\ Len(versions[k]) # 0
        BY DEF ChainInv, Chain
      <3>2. writes[t][k] \in Values /\ commit_ts[t] \in Nat
        BY <2>1
      <3> QED
        BY <3>1, <3>2, InstalledFacts
    <2>2. versions' \in [Keys -> Seq(Version)]
      BY <1>9, <2>1 DEF InstallCommit
    <2> QED
      BY <1>9, <2>2 DEF InstallCommit, WithoutTx, Released
  <1>10. ASSUME NEW t \in Tx, TxAbort(t) PROVE TypeOK'
    BY <1>10 DEF TxAbort, WithoutTx, Released, ClearedWrites, NoWrites
  <1>11. CASE UNCHANGED vars
    BY <1>11 DEF vars
  <1> QED
    BY <1>1, <1>2, <1>3, <1>4, <1>5, <1>6, <1>7, <1>8, <1>9, <1>10, <1>11 DEF Next

\* Locks, buffers and program counters hold together over every section of
\* begin_tx, tx_write, tx_commit and tx_abort.
LEMMA LockNext == IInv /\ [Next]_vars => LockInv'
  <1> SUFFICES ASSUME IInv, [Next]_vars PROVE LockInv'
    OBVIOUS
  <1> TypeOK /\ LockInv
    BY DEF IInv
  <1> USE ConstantsAssumption
      DEF TypeOK, LockInv, BufferedMeansLocked, NoLeakedLock, TxStates, Pcs
  <1>1. ASSUME NEW t \in Tx, BeginTx(t) PROVE LockInv'
    BY <1>1 DEF BeginTx, ClearedWrites, NoWrites, CanCall
  <1>2. ASSUME NEW t \in Tx, Refused(t) PROVE LockInv'
    BY <1>2 DEF Refused
  <1>3. ASSUME NEW t \in Tx, NEW k \in Keys, TxRead(t, k) PROVE LockInv'
    BY <1>3 DEF TxRead
  <1>4. ASSUME NEW t \in Tx, NEW k \in Keys, NEW v \in Values, AcquireLock(t, k, v)
        PROVE LockInv'
    BY <1>4 DEF AcquireLock, CanCall
  <1>5. ASSUME NEW t \in Tx, NEW k \in Keys, BlockedOnLock(t, k) PROVE LockInv'
    BY <1>5 DEF BlockedOnLock, CanCall
  <1>6. ASSUME NEW t \in Tx, DeadlockAbort(t) PROVE LockInv'
    BY <1>6 DEF DeadlockAbort, Released
  <1>7. ASSUME NEW t \in Tx, BufferWrite(t) PROVE LockInv'
    <2> DEFINE key == arg[t].key
    <2>1. key \in Keys /\ locked_by[key] = t /\ state[t] = "TX_ACTIVE"
      BY <1>7 DEF BufferWrite
    <2>2. \A u \in Tx, k \in Keys :
            writes'[u][k] = writes[u][k] \/ (u = t /\ k = key)
      BY <1>7, <2>1 DEF BufferWrite
    <2>3. UNCHANGED <<locked_by, state>>
      BY <1>7 DEF BufferWrite
    <2>4. \A u \in Tx : u # t => pc'[u] = pc[u] /\ arg'[u] = arg[u]
      BY <1>7 DEF BufferWrite
    <2>5. pc'[t] = "idle"
      BY <1>7 DEF BufferWrite
    <2>6. ASSUME NEW u \in Tx, NEW k \in Keys,
                 state'[u] = "TX_ACTIVE", writes'[u][k] # NoWrite
          PROVE  locked_by'[k] = u
      <3>1. CASE u = t /\ k = key
        BY <3>1, <2>1, <2>3
      <3>2. CASE ~(u = t /\ k = key)
        <4>1. writes[u][k] # NoWrite /\ state[u] = "TX_ACTIVE"
          BY <3>2, <2>2, <2>3, <2>6
        <4> QED
          BY <4>1, <2>3
      <3> QED
        BY <3>1, <3>2
    <2>7. BufferedMeansLocked'
      BY <2>6
    <2> QED
      BY <2>3, <2>4, <2>5, <2>7
  <1>8. ASSUME NEW t \in Tx, DrawCommitTs(t) PROVE LockInv'
    BY <1>8 DEF DrawCommitTs, CanCall
  <1>9. ASSUME NEW t \in Tx, InstallCommit(t) PROVE LockInv'
    BY <1>9 DEF InstallCommit, Released
  <1>10. ASSUME NEW t \in Tx, TxAbort(t) PROVE LockInv'
    BY <1>10 DEF TxAbort, Released, ClearedWrites, NoWrites, CanCall
  <1>11. CASE UNCHANGED vars
    BY <1>11 DEF vars
  <1> QED
    BY <1>1, <1>2, <1>3, <1>4, <1>5, <1>6, <1>7, <1>8, <1>9, <1>10, <1>11 DEF Next

\* The clock stays ahead of every snapshot and every commit under way.
LEMMA ClockNext == IInv /\ [Next]_vars => ClockInv'
  <1> SUFFICES ASSUME IInv, [Next]_vars PROVE ClockInv'
    OBVIOUS
  <1> TypeOK /\ ClockInv
    BY DEF IInv
  <1> USE ConstantsAssumption DEF TypeOK, ClockInv, TxStates, Pcs
  <1>1. ASSUME NEW t \in Tx, BeginTx(t) PROVE ClockInv'
    BY <1>1 DEF BeginTx
  <1>2. ASSUME NEW t \in Tx, Refused(t) PROVE ClockInv'
    BY <1>2 DEF Refused
  <1>3. ASSUME NEW t \in Tx, NEW k \in Keys, TxRead(t, k) PROVE ClockInv'
    BY <1>3 DEF TxRead
  <1>4. ASSUME NEW t \in Tx, NEW k \in Keys, NEW v \in Values, AcquireLock(t, k, v)
        PROVE ClockInv'
    BY <1>4 DEF AcquireLock
  <1>5. ASSUME NEW t \in Tx, NEW k \in Keys, BlockedOnLock(t, k) PROVE ClockInv'
    BY <1>5 DEF BlockedOnLock
  <1>6. ASSUME NEW t \in Tx, DeadlockAbort(t) PROVE ClockInv'
    BY <1>6 DEF DeadlockAbort
  <1>7. ASSUME NEW t \in Tx, BufferWrite(t) PROVE ClockInv'
    BY <1>7 DEF BufferWrite
  <1>8. ASSUME NEW t \in Tx, DrawCommitTs(t) PROVE ClockInv'
    BY <1>8 DEF DrawCommitTs
  <1>9. ASSUME NEW t \in Tx, InstallCommit(t) PROVE ClockInv'
    BY <1>9 DEF InstallCommit
  <1>10. ASSUME NEW t \in Tx, TxAbort(t) PROVE ClockInv'
    BY <1>10 DEF TxAbort
  <1>11. CASE UNCHANGED vars
    BY <1>11 DEF vars
  <1> QED
    BY <1>1, <1>2, <1>3, <1>4, <1>5, <1>6, <1>7, <1>8, <1>9, <1>10, <1>11 DEF Next

\* A commit later than the newest version turns a chain into a chain.
LEMMA ChainInstalled ==
  ASSUME NEW vs \in Seq(Version), Chain(vs), NEW value \in Values,
         NEW ts \in Nat, vs[Len(vs)].begin_ts < ts, ts < ULONG_MAX
  PROVE  Chain(Installed(vs, value, ts))
  <1> DEFINE ws == Installed(vs, value, ts)
             n == Len(vs)
  <1> USE ConstantsAssumption
  <1>1. n \in Nat /\ n # 0
    BY DEF Chain
  <1>2. \A i \in 1..n : vs[i].begin_ts \in Nat /\ vs[i].end_ts \in Nat
    <2> TAKE i \in 1..n
    <2>1. vs[i] \in Version
      OBVIOUS
    <2> QED
      BY <2>1 DEF Version
  <1>3. /\ Len(ws) = n + 1
        /\ \A i \in 1..n : (i # n => ws[i] = vs[i]) /\ ws[i].begin_ts = vs[i].begin_ts
        /\ ws[n].end_ts = ts
        /\ ws[n + 1].begin_ts = ts
        /\ ws[n + 1].end_ts = ULONG_MAX
    <2>1. Len(vs) # 0
      BY <1>1
    <2>2. Len(ws) = n + 1
      BY <2>1, InstalledFacts
    <2>3. \A i \in 1..n : (i # n => ws[i] = vs[i]) /\ ws[i].begin_ts = vs[i].begin_ts
      BY <2>1, InstalledFacts
    <2>4. ws[n].end_ts = ts /\ ws[n + 1].begin_ts = ts /\ ws[n + 1].end_ts = ULONG_MAX
      BY <2>1, InstalledFacts
    <2> QED
      BY <2>2, <2>3, <2>4
  <1> HIDE DEF ws
  <1>4. \A i \in 1..(n - 1) : vs[i].end_ts <= vs[n].begin_ts
    BY <1>1 DEF Chain
  <1>5. \A i \in 1..(n + 1) : ws[i].begin_ts < ws[i].end_ts
    BY <1>1, <1>2, <1>3 DEF Chain
  <1>6. \A i, j \in 1..(n + 1) : i < j => ws[i].end_ts <= ws[j].begin_ts
    <2> TAKE i, j \in 1..(n + 1)
    <2> HAVE i < j
    <2>1. CASE j = n + 1 /\ i = n
      BY <2>1, <1>1, <1>3
    <2>2. CASE j = n + 1 /\ i # n
      BY <2>2, <1>1, <1>2, <1>3, <1>4
    <2>3. CASE j # n + 1
      <3>1. i \in 1..n /\ j \in 1..n /\ i # n
        BY <2>3, <1>1
      <3> QED
        BY <3>1, <1>3 DEF Chain
    <2> QED
      BY <2>1, <2>2, <2>3
  <1>7. ASSUME NEW now \in 1..(ULONG_MAX - 1)
        PROVE  \E i \in 1..(n + 1) : SeenBy(ws[i], now)
    <2>1. CASE ts <= now
      <3>1. SeenBy(ws[n + 1], now)
        BY <2>1, <1>3 DEF SeenBy
      <3>2. n + 1 \in 1..(n + 1)
        BY <1>1
      <3> QED
        BY <3>1, <3>2
    <2>2. CASE now < ts
      <3>1. PICK i \in 1..n : SeenBy(vs[i], now)
        BY DEF Chain
      <3>2. SeenBy(ws[i], now)
        BY <3>1, <2>2, <1>1, <1>2, <1>3 DEF SeenBy
      <3> QED
        BY <3>2, <1>1
    <2> QED
      BY <2>1, <2>2
  <1> QED
    BY <1>1, <1>3, <1>5, <1>6, <1>7 DEF Chain, ws

\* Version lists stay chains, and the newest version stays behind the clock.
LEMMA ChainNext == IInv /\ [Next]_vars => ChainInv'
  <1> SUFFICES ASSUME IInv, [Next]_vars PROVE ChainInv'
    OBVIOUS
  <1> TypeOK /\ LockInv /\ ClockInv /\ ChainInv /\ CommitInv
    BY DEF IInv
  <1> USE ConstantsAssumption
  <1>1. CASE UNCHANGED versions
    <2>1. global_ts \in Nat
      BY DEF TypeOK
    <2>3. global_ts' = global_ts \/ global_ts' = global_ts + 1
      BY Zenon DEF Next, vars, BeginTx, Refused, TxRead, AcquireLock,
         BlockedOnLock, DeadlockAbort, BufferWrite, DrawCommitTs, InstallCommit, TxAbort
    <2>2. ASSUME NEW k \in Keys PROVE Newest(k).begin_ts \in Nat
      <3>1. versions[k] \in Seq(Version) /\ Len(versions[k]) # 0
        BY DEF TypeOK, ChainInv, Chain
      <3>2. versions[k][Len(versions[k])] \in Version
        BY <3>1
      <3> QED
        BY <3>2 DEF Newest, Version
    <2> QED
      BY <1>1, <2>1, <2>2, <2>3 DEF ChainInv, Newest
  <1>2. ASSUME NEW t \in Tx, InstallCommit(t) PROVE ChainInv'
    <2> SUFFICES ASSUME NEW k \in Keys
                 PROVE  \/ Chain(versions'[k]) /\ Newest(k)'.begin_ts < global_ts'
                        \/ UNCHANGED <<versions[k], global_ts>>
      BY DEF ChainInv, Newest
    <2>1. CASE writes[t][k] = NoWrite
      BY <2>1, <1>2 DEF InstallCommit
    <2>2. CASE writes[t][k] # NoWrite
      <3> DEFINE vs == versions[k]
                 ts == commit_ts[t]
                 value == writes[t][k]
      <3>1. versions'[k] = Installed(vs, value, ts) /\ global_ts' = global_ts
        BY <2>2, <1>2 DEF InstallCommit
      <3>2. vs \in Seq(Version) /\ Chain(vs) /\ value \in Values
        BY <2>2 DEF TypeOK, ChainInv
      <3>3. ts \in Nat /\ ts < global_ts /\ global_ts <= MaxTs
        BY <1>2 DEF TypeOK, ClockInv, InstallCommit
      <3>4. vs[Len(vs)].begin_ts < ts
        BY <2>2, <1>2 DEF CommitInv, InstallCommit, Newest
      <3>5. ts < ULONG_MAX
        BY <3>3 DEF TypeOK
      <3> HIDE DEF vs, ts, value
      <3>6. Chain(versions'[k])
        BY <3>1, <3>2, <3>3, <3>4, <3>5, ChainInstalled
      <3>7. Installed(vs, value, ts)[Len(Installed(vs, value, ts))].begin_ts = ts
        <4>1. Len(vs) # 0
          BY <3>2 DEF Chain
        <4>2. /\ Len(Installed(vs, value, ts)) = Len(vs) + 1
              /\ Installed(vs, value, ts)[Len(vs) + 1].begin_ts = ts
          BY <3>2, <3>3, <4>1, InstalledFacts
        <4> QED
          BY <4>2
      <3>8. Newest(k)'.begin_ts = ts
        BY <3>1, <3>7 DEF Newest
      <3> QED
        BY <3>1, <3>3, <3>6, <3>8
    <2> QED
      BY <2>1, <2>2
  <1>3. UNCHANGED versions \/ \E t \in Tx : InstallCommit(t)
    BY DEF Next, vars, BeginTx, Refused, TxRead, AcquireLock, BlockedOnLock,
       DeadlockAbort, BufferWrite, DrawCommitTs, TxAbort
  <1> QED
    BY <1>1, <1>2, <1>3

\* A pending commit stays later than the versions it will retire: the lock
\* keeps every other commit off those keys.
LEMMA CommitNext == IInv /\ [Next]_vars => CommitInv'
  <1> SUFFICES ASSUME IInv, [Next]_vars, NEW u \in Tx, NEW k \in Keys,
                      pc'[u] = "install", writes'[u][k] # NoWrite
               PROVE  Newest(k)'.begin_ts < commit_ts'[u]
    BY DEF CommitInv
  <1> TypeOK /\ LockInv /\ ClockInv /\ ChainInv /\ CommitInv
    BY DEF IInv
  <1> USE ConstantsAssumption
  <1>1. CASE UNCHANGED <<versions, pc, writes, commit_ts>>
    BY <1>1 DEF CommitInv, Newest
  <1>2. ASSUME NEW t \in Tx, DrawCommitTs(t) PROVE Newest(k)'.begin_ts < commit_ts'[u]
    <2>1. CASE u = t
      <3>1. start_ts[t] \in 1..(global_ts - 1) /\ global_ts \in Nat
        BY <1>2 DEF DrawCommitTs, ClockInv, TypeOK
      <3>2. Newest(k).begin_ts = 1 \/ Newest(k).begin_ts < global_ts
        BY DEF ChainInv
      <3>3. commit_ts'[u] = global_ts /\ versions' = versions
        BY <2>1, <1>2 DEF DrawCommitTs, TypeOK
      <3> QED
        BY <3>1, <3>2, <3>3 DEF Newest
    <2>2. CASE u # t
      BY <2>2, <1>2 DEF DrawCommitTs, TypeOK, CommitInv, Newest
    <2> QED
      BY <2>1, <2>2
  <1>3. ASSUME NEW t \in Tx, InstallCommit(t) PROVE Newest(k)'.begin_ts < commit_ts'[u]
    <2>1. u # t /\ pc[u] = "install" /\ writes[u][k] # NoWrite /\ commit_ts'[u] = commit_ts[u]
      BY <1>3 DEF InstallCommit, TypeOK
    <2>2. locked_by[k] = u
      BY <2>1 DEF LockInv, BufferedMeansLocked
    <2>3. writes[t][k] = NoWrite
      BY <2>1, <2>2, <1>3 DEF LockInv, BufferedMeansLocked, InstallCommit
    <2>4. versions'[k] = versions[k]
      BY <2>3, <1>3 DEF InstallCommit
    <2> QED
      BY <2>1, <2>4 DEF CommitInv, Newest
  <1>4. ASSUME NEW t \in Tx, BeginTx(t) \/ TxAbort(t)
        PROVE  Newest(k)'.begin_ts < commit_ts'[u]
    <2>1. u # t /\ pc[u] = "install" /\ writes[u][k] # NoWrite
      BY <1>4 DEF BeginTx, TxAbort, CanCall, TypeOK, ClearedWrites, NoWrites
    <2> QED
      BY <2>1, <1>4 DEF BeginTx, TxAbort, CommitInv, Newest
  <1>5. ASSUME NEW t \in Tx, BufferWrite(t) PROVE Newest(k)'.begin_ts < commit_ts'[u]
    <2>1. u # t /\ pc[u] = "install" /\ writes[u][k] # NoWrite
      BY <1>5 DEF BufferWrite, TypeOK
    <2> QED
      BY <2>1, <1>5 DEF BufferWrite, CommitInv, Newest
  <1>6. ASSUME NEW t \in Tx,
               \/ DeadlockAbort(t)
               \/ \E kk \in Keys : BlockedOnLock(t, kk)
               \/ \E kk \in Keys, v \in Values : AcquireLock(t, kk, v)
        PROVE  Newest(k)'.begin_ts < commit_ts'[u]
    <2>1. pc[u] = "install" /\ UNCHANGED <<versions, writes, commit_ts>>
      BY <1>6 DEF DeadlockAbort, BlockedOnLock, AcquireLock, TypeOK
    <2> QED
      BY <2>1 DEF CommitInv, Newest
  <1>7. ASSUME NEW t \in Tx, Refused(t) \/ \E kk \in Keys : TxRead(t, kk)
        PROVE  UNCHANGED <<versions, pc, writes, commit_ts>>
    BY <1>7 DEF Refused, TxRead
  <1>8. CASE UNCHANGED vars
    BY <1>8, <1>1 DEF vars
  <1> QED
    BY <1>1, <1>2, <1>3, <1>4, <1>5, <1>6, <1>7, <1>8 DEF Next

\* The inductive invariant is one.
LEMMA IInvInductive == (Init => IInv) /\ (IInv /\ [Next]_vars => IInv')
  <1>1. Init => IInv
    <2> SUFFICES ASSUME Init PROVE IInv
      OBVIOUS
    <2> USE ConstantsAssumption
    <2>1. TypeOK
      BY TypeInit
    <2>2. LockInv
      BY DEF Init, LockInv, BufferedMeansLocked, NoLeakedLock, NoWrites
    <2>3. ClockInv
      BY DEF Init, ClockInv
    <2>4. ASSUME NEW k \in Keys PROVE Chain(versions[k]) /\ Newest(k).begin_ts = 1
      <3>1. /\ Len(versions[k]) = 1
            /\ versions[k][1].begin_ts = 1
            /\ versions[k][1].end_ts = ULONG_MAX
        BY DEF Init
      <3> QED
        BY <3>1 DEF Chain, Newest, SeenBy
    <2>5. CommitInv
      BY DEF Init, CommitInv
    <2> QED
      BY <2>1, <2>2, <2>3, <2>4, <2>5 DEF IInv, ChainInv
  <1>2. IInv /\ [Next]_vars => IInv'
    BY TypeNext, LockNext, ClockNext, ChainNext, CommitNext DEF IInv
  <1> QED
    BY <1>1, <1>2

\* The inductive invariant holds in every behaviour of the store.
LEMMA IInvHolds == Spec => []IInv
  BY IInvInductive, PTL DEF Spec

\* Every reachable state of the store is well typed, for any transactions,
\* keys and bounds.
THEOREM TypeCorrect == Spec => []TypeOK
  BY IInvHolds, PTL DEF IInv

\* A tx_read of a live transaction finds exactly one version of the key
\* (lines 187-199): the read never fails and never depends on list order.
THEOREM SnapshotsAreTotal == Spec => []SnapshotTotal
  BY IInvHolds, SnapshotTotalFromInv, PTL

\* A buffered write of a live transaction is covered by its lock until the
\* commit, and no lock is left behind by a finished transaction.
THEOREM WritersExclude == Spec => []LocksCoverWrites
  <1>1. IInv => LocksCoverWrites
    BY DEF IInv, LockInv, LocksCoverWrites
  <1> QED
    BY <1>1, IInvHolds, PTL
-----------------------------------------------------------------------------
\* A cycle left after edges were taken away was there before.
LEMMA CyclicShrinks ==
  ASSUME NEW C, NEW wf, NEW wg, \A u \in C : wg[u] \subseteq wf[u], Cyclic(C, wg)
  PROVE  Cyclic(C, wf)
  BY DEF Cyclic

\* Taking the row and the column of t away breaks every cycle through t.
LEMMA WithoutTxBreaks ==
  ASSUME NEW T, NEW t \in T, NEW wf, NEW C \in SUBSET T, Cyclic(C, WithoutTx(T, wf, t))
  PROVE  t \notin C /\ Cyclic(C, wf)
  BY DEF Cyclic, WithoutTx

\* No section of any call leaves a cycle without a victim.
LEMMA VictimNext == TypeOK /\ CyclesHaveVictim /\ [Next]_vars => CyclesHaveVictim'
  <1> SUFFICES ASSUME TypeOK, CyclesHaveVictim, [Next]_vars,
                      NEW C \in SUBSET Tx, Cyclic(C, wait_for')
               PROVE  \E t \in C : pc'[t] = "deadlock"
    BY DEF CyclesHaveVictim
  <1>1. CASE UNCHANGED <<wait_for, pc>>
    BY <1>1 DEF CyclesHaveVictim
  <1>2. ASSUME NEW t \in Tx, wait_for' = WithoutTx(Tx, wait_for, t),
               \A u \in Tx : u # t => pc'[u] = pc[u]
        PROVE  \E u \in C : pc'[u] = "deadlock"
    <2>1. t \notin C /\ Cyclic(C, wait_for)
      BY <1>2, WithoutTxBreaks
    <2>2. PICK u \in C : pc[u] = "deadlock"
      BY <2>1 DEF CyclesHaveVictim
    <2> QED
      BY <1>2, <2>1, <2>2
  <1>3. ASSUME NEW t \in Tx, BeginTx(t) \/ DeadlockAbort(t) \/ InstallCommit(t) \/ TxAbort(t)
        PROVE  \E u \in C : pc'[u] = "deadlock"
    <2>1. wait_for' = WithoutTx(Tx, wait_for, t)
      BY <1>3 DEF BeginTx, DeadlockAbort, InstallCommit, TxAbort
    <2>2. \A u \in Tx : u # t => pc'[u] = pc[u]
      BY <1>3 DEF BeginTx, DeadlockAbort, InstallCommit, TxAbort, TypeOK
    <2> QED
      BY <1>2, <2>1, <2>2
  <1>4. ASSUME NEW t \in Tx, NEW k \in Keys, NEW v \in Values, AcquireLock(t, k, v)
        PROVE  \E u \in C : pc'[u] = "deadlock"
    <2>1. \A u \in C : wait_for'[u] \subseteq wait_for[u]
      BY <1>4 DEF AcquireLock, WithoutRow, TypeOK
    <2>2. wait_for'[t] = {}
      BY <1>4 DEF AcquireLock, WithoutRow, TypeOK
    <2>3. t \notin C
      BY <2>2 DEF Cyclic
    <2>4. Cyclic(C, wait_for)
      BY <2>1, CyclicShrinks
    <2>5. PICK u \in C : pc[u] = "deadlock"
      BY <2>4 DEF CyclesHaveVictim
    <2> QED
      BY <1>4, <2>3, <2>5 DEF AcquireLock, TypeOK
  <1>5. ASSUME NEW t \in Tx, NEW k \in Keys, BlockedOnLock(t, k)
        PROVE  \E u \in C : pc'[u] = "deadlock"
    <2>1. DetectDeadlock(Tx, wait_for')
      BY DEF DetectDeadlock
    <2>2. pc' = [pc EXCEPT ![t] = "deadlock"]
      BY <1>5, <2>1 DEF BlockedOnLock
    <2>3. CASE t \in C
      BY <2>2, <2>3 DEF TypeOK
    <2>4. CASE t \notin C
      <3>1. \A u \in C : wait_for'[u] \subseteq wait_for[u]
        BY <1>5, <2>4 DEF BlockedOnLock, WithEdge, TypeOK
      <3>2. PICK u \in C : pc[u] = "deadlock"
        BY <3>1, CyclicShrinks DEF CyclesHaveVictim
      <3> QED
        BY <2>2, <2>4, <3>2 DEF TypeOK
    <2> QED
      BY <2>3, <2>4
  <1>6. ASSUME NEW t \in Tx, BufferWrite(t) \/ DrawCommitTs(t)
        PROVE  \E u \in C : pc'[u] = "deadlock"
    <2>1. wait_for' = wait_for
      BY <1>6 DEF BufferWrite, DrawCommitTs
    <2>2. PICK u \in C : pc[u] = "deadlock"
      BY <2>1 DEF CyclesHaveVictim
    <2>3. u \in Tx /\ u # t
      BY <1>6, <2>2 DEF BufferWrite, DrawCommitTs, CanCall
    <2> QED
      BY <1>6, <2>2, <2>3 DEF BufferWrite, DrawCommitTs, TypeOK
  <1>7. ASSUME NEW t \in Tx, Refused(t) \/ \E k \in Keys : TxRead(t, k)
        PROVE  UNCHANGED <<wait_for, pc>>
    BY <1>7 DEF Refused, TxRead
  <1>8. CASE UNCHANGED vars
    BY <1>1, <1>8 DEF vars
  <1> QED
    BY <1>1, <1>3, <1>4, <1>5, <1>6, <1>7, <1>8 DEF Next

\* Every wait-for cycle, however many transactions close however many of
\* them at once, has a member about to abort (lines 157-163 and 211-224).
THEOREM DeadlocksHaveVictims == Spec => []CyclesHaveVictim
  <1>1. Init => CyclesHaveVictim
    BY DEF Init, CyclesHaveVictim, Cyclic
  <1>2. IInv => TypeOK
    BY DEF IInv
  <1> QED
    BY <1>1, <1>2, VictimNext, IInvHolds, PTL DEF Spec

\* A lock is given back only together with the edges towards its holder.
LEMMA EdgesNext == TypeOK /\ EdgesPointAtOwners /\ [Next]_vars => EdgesPointAtOwners'
  <1> SUFFICES ASSUME TypeOK, EdgesPointAtOwners, [Next]_vars,
                      NEW t \in Tx, NEW u \in Tx, u \in wait_for'[t]
               PROVE  \E k \in Keys : locked_by'[k] = u
    BY DEF EdgesPointAtOwners
  <1> DEFINE Goal == \E k \in Keys : locked_by'[k] = u
  <1>1. ASSUME u \in wait_for[t], \A k \in Keys : locked_by[k] = u => locked_by'[k] = u
        PROVE  Goal
    BY <1>1 DEF EdgesPointAtOwners
  <1>2. ASSUME NEW w \in Tx, DeadlockAbort(w) \/ InstallCommit(w) \/ TxAbort(w)
        PROVE  Goal
    <2>1. wait_for' = WithoutTx(Tx, wait_for, w) /\ locked_by' = Released(w)
      BY <1>2 DEF DeadlockAbort, InstallCommit, TxAbort
    <2>2. u \in wait_for[t] /\ u # w
      BY <2>1 DEF WithoutTx
    <2> QED
      BY <1>1, <2>1, <2>2 DEF Released
  <1>3. ASSUME NEW w \in Tx, BeginTx(w) PROVE Goal
    BY <1>1, <1>3 DEF BeginTx, WithoutTx
  <1>4. ASSUME NEW w \in Tx, NEW k \in Keys, NEW v \in Values, AcquireLock(w, k, v)
        PROVE  Goal
    <2>1. u \in wait_for[t]
      BY <1>4 DEF AcquireLock, WithoutRow, TypeOK
    <2>2. ASSUME NEW j \in Keys, locked_by[j] = u PROVE locked_by'[j] = u
      BY <1>4, <2>2, ConstantsAssumption DEF AcquireLock, TypeOK
    <2> QED
      BY <1>1, <2>1, <2>2
  <1>5. ASSUME NEW w \in Tx, NEW k \in Keys, BlockedOnLock(w, k) PROVE Goal
    <2>1. u \in wait_for[t] \/ u = locked_by[k]
      BY <1>5 DEF BlockedOnLock, WithEdge, TypeOK
    <2>2. locked_by' = locked_by
      BY <1>5 DEF BlockedOnLock
    <2> QED
      BY <1>1, <2>1, <2>2
  <1>6. ASSUME NEW w \in Tx,
               Refused(w) \/ (\E k \in Keys : TxRead(w, k)) \/ BufferWrite(w) \/ DrawCommitTs(w)
        PROVE  Goal
    BY <1>1, <1>6 DEF Refused, TxRead, BufferWrite, DrawCommitTs
  <1>7. CASE UNCHANGED vars
    BY <1>1, <1>7 DEF vars
  <1> QED
    BY <1>2, <1>3, <1>4, <1>5, <1>6, <1>7 DEF Next

\* Nobody waits for a transaction that holds no lock: an edge of the wait-for
\* matrix goes no later than the last lock of the transaction it points at
\* (lines 217-221, 282-287, 302-309), so no cycle is made of old news.
THEOREM EdgesAreLive == Spec => []EdgesPointAtOwners
  <1>1. Init => EdgesPointAtOwners
    BY DEF Init, EdgesPointAtOwners
  <1>2. IInv => TypeOK
    BY DEF IInv
  <1> QED
    BY <1>1, <1>2, EdgesNext, IInvHolds, PTL DEF Spec
-----------------------------------------------------------------------------
\* A commit is invisible to every snapshot older than its timestamp.
LEMMA InstallInvisible ==
  ASSUME NEW vs \in Seq(Version), Chain(vs), NEW value \in Values, NEW ts \in Nat,
         NEW old \in Nat, old < ts, ts < ULONG_MAX
  PROVE  {i \in 1..Len(Installed(vs, value, ts)) :
             SeenBy(Installed(vs, value, ts)[i], old)}
           = {i \in 1..Len(vs) : SeenBy(vs[i], old)}
  <1> DEFINE ws == Installed(vs, value, ts)
             n == Len(vs)
  <1>1. n \in Nat /\ n # 0
    BY DEF Chain
  <1>2. /\ Len(ws) = n + 1
        /\ \A i \in 1..n : (i # n => ws[i] = vs[i]) /\ ws[i].begin_ts = vs[i].begin_ts
        /\ ws[n].end_ts = ts
        /\ ws[n + 1].begin_ts = ts
    BY <1>1, InstalledFacts
  <1> HIDE DEF ws
  <1>3. vs[n].end_ts = ULONG_MAX /\ vs[n].begin_ts \in Nat
    <2>1. vs[n] \in Version
      BY <1>1
    <2> QED
      BY <2>1 DEF Chain, Version
  <1>4. ~SeenBy(ws[n + 1], old)
    BY <1>2 DEF SeenBy
  <1>5. ASSUME NEW i \in 1..n
        PROVE  SeenBy(ws[i], old) <=> SeenBy(vs[i], old)
    <2>1. CASE i # n
      BY <2>1, <1>2
    <2>2. CASE i = n
      BY <2>2, <1>2, <1>3, ConstantsAssumption DEF SeenBy
    <2> QED
      BY <2>1, <2>2
  <1> QED
    BY <1>1, <1>2, <1>4, <1>5 DEF ws

\* Only InstallCommit changes what a snapshot sees, and not for snapshots
\* older than the commit.
LEMMA InstallKeepsOldSnapshots ==
  ASSUME IInv, NEW u \in Tx, InstallCommit(u), NEW t \in Tx, NEW k \in Keys,
         start_ts[t] < commit_ts[u]
  PROVE  Visible(k, start_ts[t])' = Visible(k, start_ts[t])
  <1> USE ConstantsAssumption
  <1>1. TypeOK /\ ClockInv /\ ChainInv
    BY DEF IInv
  <1>2. start_ts' = start_ts
    BY DEF InstallCommit
  <1>3. CASE writes[u][k] = NoWrite
    BY <1>2, <1>3 DEF InstallCommit, Visible
  <1>4. CASE writes[u][k] # NoWrite
    <2>1. versions'[k] = Installed(versions[k], writes[u][k], commit_ts[u])
      BY <1>4 DEF InstallCommit
    <2>2. /\ versions[k] \in Seq(Version)
          /\ Chain(versions[k])
          /\ writes[u][k] \in Values
          /\ commit_ts[u] \in Nat
          /\ start_ts[t] \in Nat
      BY <1>1, <1>4 DEF TypeOK, ChainInv
    <2>3. commit_ts[u] < ULONG_MAX
      BY <1>1 DEF ClockInv, TypeOK, InstallCommit
    <2> QED
      BY <1>2, <2>1, <2>2, <2>3, InstallInvisible DEF Visible
  <1> QED
    BY <1>3, <1>4

\* A thread leaves "install" by installing, and no other thread moves it.
LEMMA OnlyInstallEndsCommit ==
  ASSUME IInv, [Next]_vars, NEW u \in Tx, pc[u] = "install", pc'[u] # "install"
  PROVE  InstallCommit(u)
  <1>1. pc \in [Tx -> Pcs]
    BY DEF IInv, TypeOK
  <1>2. PICK w \in Tx :
          \/ BeginTx(w) \/ Refused(w) \/ DeadlockAbort(w) \/ BufferWrite(w)
          \/ DrawCommitTs(w) \/ InstallCommit(w) \/ TxAbort(w)
          \/ \E k \in Keys : TxRead(w, k)
          \/ \E k \in Keys, v \in Values : AcquireLock(w, k, v)
          \/ \E k \in Keys : BlockedOnLock(w, k)
    BY DEF Next, vars
  <1>3. CASE BeginTx(w) \/ Refused(w) \/ TxAbort(w) \/ \E k \in Keys : TxRead(w, k)
    BY <1>3 DEF BeginTx, Refused, TxAbort, TxRead
  <1>4. CASE DeadlockAbort(w) \/ BufferWrite(w) \/ InstallCommit(w)
    BY <1>1, <1>4 DEF DeadlockAbort, BufferWrite, InstallCommit
  <1>5. CASE \/ DrawCommitTs(w)
             \/ \E k \in Keys, v \in Values : AcquireLock(w, k, v)
             \/ \E k \in Keys : BlockedOnLock(w, k)
    <2>1. pc[w] = "idle"
      BY <1>5 DEF DrawCommitTs, AcquireLock, BlockedOnLock, CanCall
    <2> QED
      BY <1>1, <1>5, <2>1 DEF DrawCommitTs, AcquireLock, BlockedOnLock
  <1> QED
    BY <1>2, <1>3, <1>4, <1>5

\* Overlapping calls or not, the versions a commit installs never change
\* what a transaction that began before the commit timestamp was drawn reads.
THEOREM OldSnapshotsStable == Spec => SnapshotMovesOnlyBackwards
  <1>1. ASSUME IInv, [Next]_vars,
               NEW t \in Tx, NEW u \in Tx, NEW k \in Keys,
               pc[u] = "install", pc'[u] = "idle", start_ts[t] < commit_ts[u]
        PROVE  Visible(k, start_ts[t])' = Visible(k, start_ts[t])
    <2>1. InstallCommit(u)
      BY <1>1, OnlyInstallEndsCommit
    <2> QED
      BY <1>1, <2>1, InstallKeepsOldSnapshots
  <1>2. IInv /\ [Next]_vars =>
          [\A t, u \in Tx, k \in Keys :
             (state[t] = "TX_ACTIVE" /\ t # u /\ pc[u] = "install" /\ pc'[u] = "idle"
                /\ start_ts[t] < commit_ts[u])
             => Visible(k, start_ts[t])' = Visible(k, start_ts[t])]_vars
    BY <1>1
  <1> QED
    BY <1>2, IInvHolds, PTL DEF Spec, SnapshotMovesOnlyBackwards
-----------------------------------------------------------------------------
\* One thread for all: one call at a time, and whoever is live while a
\* commit is under way began before its timestamp was drawn.
SerialInv ==
    ~Concurrent =>
        /\ \A t, u \in Tx : pc[t] # "idle" /\ pc[u] # "idle" => t = u
        /\ \A t, u \in Tx :
             state[t] = "TX_ACTIVE" /\ pc[u] = "install" => start_ts[t] < commit_ts[u]

\* One thread keeps to one call at a time.
LEMMA SerialNext == IInv /\ SerialInv /\ [Next]_vars => SerialInv'
  <1> SUFFICES ASSUME IInv, SerialInv, [Next]_vars, ~Concurrent PROVE SerialInv'
    BY DEF SerialInv
  <1>1. TypeOK /\ ClockInv
    BY DEF IInv
  <1> USE <1>1 DEF TypeOK, SerialInv, TxStates, Pcs
  <1>2. ASSUME NEW t \in Tx, BeginTx(t) \/ Refused(t) \/ TxAbort(t)
                                \/ \E k \in Keys : TxRead(t, k)
        PROVE  SerialInv'
    <2>1. \A u \in Tx : pc[u] = "idle"
      BY <1>2 DEF BeginTx, Refused, TxAbort, TxRead, CanCall
    <2>2. pc' = pc
      BY <1>2 DEF BeginTx, Refused, TxAbort, TxRead
    <2> QED
      BY <2>1, <2>2
  <1>3. ASSUME NEW t \in Tx, \/ \E k \in Keys, v \in Values : AcquireLock(t, k, v)
                             \/ \E k \in Keys : BlockedOnLock(t, k)
        PROVE  SerialInv'
    <2>1. \A u \in Tx : pc[u] = "idle"
      BY <1>3 DEF AcquireLock, BlockedOnLock, CanCall
    <2>2. \A u \in Tx : pc'[u] # "install" /\ (u # t => pc'[u] = "idle")
      BY <1>3, <2>1 DEF AcquireLock, BlockedOnLock
    <2> QED
      BY <2>2
  <1>4. ASSUME NEW t \in Tx, DrawCommitTs(t) PROVE SerialInv'
    <2>1. \A u \in Tx : pc[u] = "idle"
      BY <1>4 DEF DrawCommitTs, CanCall
    <2>2. \A u \in Tx : u # t => pc'[u] = "idle"
      BY <1>4, <2>1 DEF DrawCommitTs
    <2>3. commit_ts'[t] = global_ts /\ start_ts' = start_ts /\ state' = state
      BY <1>4 DEF DrawCommitTs
    <2>4. \A u \in Tx : state[u] = "TX_ACTIVE" => start_ts[u] < global_ts
      BY DEF ClockInv
    <2> QED
      BY <2>2, <2>3, <2>4
  <1>5. ASSUME NEW t \in Tx, DeadlockAbort(t) \/ BufferWrite(t) \/ InstallCommit(t)
        PROVE  SerialInv'
    <2>1. \A u \in Tx : u # t => pc[u] = "idle"
      BY <1>5 DEF DeadlockAbort, BufferWrite, InstallCommit
    <2>2. pc' = [pc EXCEPT ![t] = "idle"]
      BY <1>5 DEF DeadlockAbort, BufferWrite, InstallCommit
    <2> QED
      BY <2>1, <2>2
  <1>6. CASE UNCHANGED vars
    BY <1>6 DEF vars
  <1> QED
    BY <1>2, <1>3, <1>4, <1>5, <1>6 DEF Next

\* Driven by one thread, as main drives it, the store keeps the promise
\* main prints at line 353: a live transaction's reads are unchanged by the
\* commits of the others.
THEOREM SerialSnapshotsStable == ~Concurrent => (Spec => SnapshotStable)
  <1> SUFFICES ASSUME ~Concurrent PROVE Spec => SnapshotStable
    OBVIOUS
  <1>1. Init => SerialInv
    BY DEF Init, SerialInv
  <1>2. ASSUME IInv, SerialInv, [Next]_vars, NEW t \in Tx, NEW k \in Keys,
               state[t] = "TX_ACTIVE", state'[t] = "TX_ACTIVE",
               start_ts'[t] = start_ts[t]
        PROVE  Visible(k, start_ts[t])' = Visible(k, start_ts[t])
    <2>1. CASE versions' = versions
      BY <1>2, <2>1 DEF Visible
    <2>2. ASSUME NEW u \in Tx, InstallCommit(u)
          PROVE  Visible(k, start_ts[t])' = Visible(k, start_ts[t])
      <3>1. start_ts[t] < commit_ts[u]
        BY <1>2, <2>2 DEF SerialInv, InstallCommit
      <3> QED
        BY <1>2, <2>2, <3>1, InstallKeepsOldSnapshots
    <2>3. versions' = versions \/ \E u \in Tx : InstallCommit(u)
      BY <1>2 DEF Next, vars, BeginTx, Refused, TxRead, AcquireLock, BlockedOnLock,
         DeadlockAbort, BufferWrite, DrawCommitTs, TxAbort
    <2> QED
      BY <2>1, <2>2, <2>3
  <1>3. IInv /\ SerialInv /\ [Next]_vars =>
          [\A t \in Tx, k \in Keys :
             (state[t] = "TX_ACTIVE" /\ state'[t] = "TX_ACTIVE"
                /\ start_ts'[t] = start_ts[t])
             => Visible(k, start_ts[t])' = Visible(k, start_ts[t])]_vars
    BY <1>2
  <1> QED
    BY <1>1, <1>3, SerialNext, IInvHolds, PTL DEF Spec, SnapshotStable
-----------------------------------------------------------------------------
(***************************************************************************)
(* The depth-first search of detect_deadlock.                              *)
(***************************************************************************)
\* A set of natural numbers has a least one.
LEMMA LeastNat ==
  ASSUME NEW T, T \subseteq Nat, T # {}
  PROVE  \E m \in T : \A k \in T : m <= k
  <1> DEFINE R == OpToRel(<, Nat)
  <1>1. \A x, y \in Nat : <<x, y>> \in R <=> x < y
    BY DEF OpToRel
  <1>2. IsWellFoundedOn(R, Nat)
    BY NatLessThanWellFounded
  <1> HIDE DEF R
  <1>3. PICK x \in T : \A y \in T : ~(<<y, x>> \in R)
    BY <1>2, WFMin
  <1>4. ASSUME NEW k \in T PROVE x <= k
    <2>1. x \in Nat /\ k \in Nat
      OBVIOUS
    <2>2. ~(k < x)
      BY <2>1, <1>1, <1>3, <1>4
    <2> QED
      BY <2>1, <2>2
  <1> QED
    BY <1>4

\* What holds of c as soon as it holds of everything that weighs less, holds
\* of all.
LEMMA LightestFirst ==
  ASSUME NEW S, NEW H, NEW weight \in [S -> Nat],
         \A c \in S : (\A d \in S : weight[d] < weight[c] => d \in H) => c \in H
  PROVE  S \subseteq H
  <1> SUFFICES ASSUME NEW x \in S, x \notin H PROVE FALSE
    OBVIOUS
  <1> DEFINE W == {weight[c] : c \in S \ H}
  <1>1. W \subseteq Nat /\ W # {}
    OBVIOUS
  <1>2. PICK m \in W : \A k \in W : m <= k
    BY <1>1, LeastNat
  <1>3. PICK c \in S \ H : m = weight[c]
    BY <1>2
  <1>4. ASSUME NEW d \in S, weight[d] < weight[c], d \notin H PROVE FALSE
    <2>1. weight[d] \in W
      BY <1>4
    <2>2. m <= weight[d] /\ weight[d] \in Nat /\ weight[c] \in Nat
      BY <1>2, <2>1
    <2> QED
      BY <1>3, <1>4, <2>2
  <1> QED
    BY <1>3, <1>4

\* F builds a function out of another, and its value at c depends on lighter
\* arguments only.
Descends(S, G, F, weight) ==
    \A f, h \in G, c \in S :
       (\A d \in S : weight[d] < weight[c] => f[d] = h[d]) => F[f][c] = F[h][c]

Solvable(S, G, F) == \E f \in G : \A c \in S : f[c] = F[f][c]

\* A recursion that descends has a solution.
LEMMA RecursionEnds ==
  ASSUME NEW S, NEW G, G # {}, NEW F \in [G -> G],
         NEW weight \in [S -> Nat], NEW M \in Nat, \A c \in S : weight[c] < M,
         Descends(S, G, F, weight)
  PROVE  Solvable(S, G, F)
  <1> DEFINE Solved(n) == \E f \in G : \A c \in S : weight[c] < n => f[c] = F[f][c]
             U == {n \in Nat : ~Solved(n)}
  <1>1. Solved(0)
    <2>1. \A c \in S : ~(weight[c] < 0)
      OBVIOUS
    <2> QED
      BY <2>1
  <1>2. ASSUME NEW n \in Nat, Solved(n) PROVE Solved(n + 1)
    <2>1. PICK f \in G : \A c \in S : weight[c] < n => f[c] = F[f][c]
      BY <1>2
    <2>2. F[f] \in G
      OBVIOUS
    <2>3. ASSUME NEW c \in S, weight[c] < n + 1 PROVE F[f][c] = F[F[f]][c]
      <3>1. \A d \in S : weight[d] < weight[c] => f[d] = F[f][d]
        <4>1. ASSUME NEW d \in S, weight[d] < weight[c] PROVE weight[d] < n
          <5>1. weight[d] \in Nat /\ weight[c] \in Nat
            OBVIOUS
          <5> QED
            BY <5>1, <2>3, <4>1
        <4> QED
          BY <2>1, <4>1
      <3> QED
        BY <2>2, <3>1 DEF Descends
    <2> QED
      BY <2>2, <2>3
  <1>3. U = {}
    <2> SUFFICES ASSUME U # {} PROVE FALSE
      OBVIOUS
    <2> HIDE DEF Solved
    <2>1. U \subseteq Nat
      OBVIOUS
    <2>2. PICK m \in U : \A k \in U : m <= k
      BY <2>1, LeastNat
    <2>3. m \in Nat /\ m # 0
      BY <1>1, <2>2
    <2>4. m - 1 \in Nat /\ m - 1 \notin U
      BY <2>2, <2>3
    <2>5. Solved((m - 1) + 1)
      BY <1>2, <2>4
    <2>6. (m - 1) + 1 = m
      BY <2>3
    <2> QED
      BY <2>2, <2>5, <2>6
  <1>4. Solved(M)
    <2> HIDE DEF Solved
    <2> QED
      BY <1>3
  <1> QED
    BY <1>4 DEF Solvable
-----------------------------------------------------------------------------
\* A node visited more, or else a node of the loop more, is lighter.
Unvisited(c) == Cardinality(Slots \ c.visited)
Weight(c)    == Unvisited(c) * (MAX_TRANSACTIONS + 1) + (MAX_TRANSACTIONS - c.v)

LEMMA Lexicographic ==
  ASSUME NEW a \in Nat, NEW b \in Nat, NEW n \in Nat, a < b, NEW i \in 0..n, NEW j \in 0..n
  PROVE  a * (n + 1) + (n - i) < b * (n + 1) + (n - j)
  <1>1. PICK d \in Nat : b = a + 1 + d
    <2>1. b - a - 1 \in Nat /\ b = a + 1 + (b - a - 1)
      OBVIOUS
    <2> QED
      BY <2>1
  <1>2. b * (n + 1) = a * (n + 1) + (n + 1) + d * (n + 1)
    BY <1>1
  <1>3. d * (n + 1) \in Nat /\ a * (n + 1) \in Nat
    OBVIOUS
  <1>4. \A x, y, z \in Nat : x = y + (n + 1) + z => y + (n - i) < x + (n - j)
    OBVIOUS
  <1>5. b * (n + 1) \in Nat
    OBVIOUS
  <1> QED
    BY <1>2, <1>3, <1>4, <1>5

LEMMA SlotsFinite == IsFiniteSet(Slots) /\ Cardinality(Slots) \in Nat
  BY MaxTransactionsAssumption, FS_Interval, FS_CardinalityType DEF Slots

LEMMA UnvisitedIsNat ==
  ASSUME NEW V, NEW W, V \subseteq W
  PROVE  /\ Cardinality(Slots \ V) \in Nat /\ Cardinality(Slots \ W) \in Nat
         /\ Cardinality(Slots \ W) <= Cardinality(Slots \ V)
         /\ Cardinality(Slots \ V) <= Cardinality(Slots)
         /\ \A n \in Slots : n \in W /\ n \notin V => Cardinality(Slots \ W) < Cardinality(Slots \ V)
  <1>1. IsFiniteSet(Slots \ V) /\ IsFiniteSet(Slots \ W)
    BY SlotsFinite, FS_Difference
  <1>2. Slots \ W \in SUBSET (Slots \ V) /\ Slots \ V \in SUBSET Slots
    OBVIOUS
  <1>3. /\ Cardinality(Slots \ W) <= Cardinality(Slots \ V)
        /\ Cardinality(Slots \ V) <= Cardinality(Slots)
        /\ Cardinality(Slots \ W) = Cardinality(Slots \ V) => Slots \ W = Slots \ V
    BY <1>1, <1>2, SlotsFinite, FS_Subset
  <1>4. Cardinality(Slots \ V) \in Nat /\ Cardinality(Slots \ W) \in Nat
    BY <1>1, FS_CardinalityType
  <1>5. ASSUME NEW n \in Slots, n \in W, n \notin V PROVE Slots \ W # Slots \ V
    BY <1>5
  <1> QED
    BY <1>3, <1>4, <1>5

LEMMA WeightIsNat ==
  ASSUME NEW c \in Iterations
  PROVE  /\ Weight(c) \in Nat /\ Unvisited(c) \in Nat
         /\ Weight(c) < (Cardinality(Slots) + 1) * (MAX_TRANSACTIONS + 1) + (MAX_TRANSACTIONS - MAX_TRANSACTIONS)
  <1>1. MAX_TRANSACTIONS \in Nat /\ c.v \in 0..MAX_TRANSACTIONS
    BY MaxTransactionsAssumption DEF Iterations
  <1>2. Unvisited(c) \in Nat /\ Unvisited(c) <= Cardinality(Slots) /\ Cardinality(Slots) \in Nat
    BY UnvisitedIsNat, SlotsFinite DEF Unvisited
  <1>3. Unvisited(c) * (MAX_TRANSACTIONS + 1) \in Nat
    BY <1>1, <1>2
  <1>4. Weight(c) \in Nat
    BY <1>1, <1>3 DEF Weight
  <1>5. Unvisited(c) < Cardinality(Slots) + 1 /\ Cardinality(Slots) + 1 \in Nat
        /\ MAX_TRANSACTIONS \in 0..MAX_TRANSACTIONS
    BY <1>1, <1>2
  <1>6. Weight(c) < (Cardinality(Slots) + 1) * (MAX_TRANSACTIONS + 1) + (MAX_TRANSACTIONS - MAX_TRANSACTIONS)
    BY <1>1, <1>2, <1>5, Lexicographic DEF Weight
  <1> QED
    BY <1>2, <1>4, <1>6

\* What the three recursive uses in the loop are: the next iteration of the
\* same call, the call for v, and the next iteration when that has returned.
LEMMA NextIteration ==
  ASSUME NEW c \in Iterations, c.v # MAX_TRANSACTIONS
  PROVE  /\ Iteration(c.u, c.v + 1, c) \in Iterations
         /\ Weight(Iteration(c.u, c.v + 1, c)) < Weight(c)
  <1>1. MAX_TRANSACTIONS \in Nat /\ c.v \in 0..MAX_TRANSACTIONS /\ c.v + 1 \in 0..MAX_TRANSACTIONS
    BY MaxTransactionsAssumption DEF Iterations
  <1>2. Iteration(c.u, c.v + 1, c) \in Iterations
    BY <1>1 DEF Iterations, Iteration
  <1>3. Unvisited(Iteration(c.u, c.v + 1, c)) = Unvisited(c) /\ Iteration(c.u, c.v + 1, c).v = c.v + 1
    BY DEF Iteration, Unvisited
  <1>4. Unvisited(c) * (MAX_TRANSACTIONS + 1) \in Nat
    BY <1>1, WeightIsNat
  <1> QED
    BY <1>1, <1>2, <1>3, <1>4 DEF Weight

LEMMA CalleeEntered ==
  ASSUME NEW c \in Iterations, c.v # MAX_TRANSACTIONS, c.v \notin c.visited
  PROVE  /\ Entered(c.v, c) \in Iterations
         /\ Weight(Entered(c.v, c)) < Weight(c)
  <1>1. MAX_TRANSACTIONS \in Nat /\ c.v \in 0..MAX_TRANSACTIONS /\ c.v \in Slots
        /\ 0 \in 0..MAX_TRANSACTIONS
    BY MaxTransactionsAssumption DEF Iterations, Slots
  <1>2. Entered(c.v, c) \in Iterations
    BY <1>1 DEF Iterations, Entered
  <1>3. Unvisited(Entered(c.v, c)) < Unvisited(c) /\ Entered(c.v, c).v = 0
    BY <1>1, UnvisitedIsNat DEF Entered, Unvisited
  <1> QED
    BY <1>1, <1>2, <1>3, WeightIsNat, Lexicographic DEF Weight

LEMMA CalleeReturned ==
  ASSUME NEW c \in Iterations, c.v # MAX_TRANSACTIONS, c.v \notin c.visited,
         NEW s \in SearchStates, c.visited \subseteq s.visited, c.v \in s.visited
  PROVE  /\ Iteration(c.u, c.v + 1, s) \in Iterations
         /\ Weight(Iteration(c.u, c.v + 1, s)) < Weight(c)
  <1>1. MAX_TRANSACTIONS \in Nat /\ c.v \in 0..MAX_TRANSACTIONS /\ c.v \in Slots
        /\ c.v + 1 \in 0..MAX_TRANSACTIONS
    BY MaxTransactionsAssumption DEF Iterations, Slots
  <1>2. Iteration(c.u, c.v + 1, s) \in Iterations
    BY <1>1 DEF Iterations, Iteration, SearchStates
  <1>3. Unvisited(Iteration(c.u, c.v + 1, s)) < Unvisited(c) /\ Iteration(c.u, c.v + 1, s).v = c.v + 1
    BY <1>1, UnvisitedIsNat DEF Iteration, Unvisited
  <1> QED
    BY <1>1, <1>2, <1>3, WeightIsNat, Lexicographic DEF Weight
-----------------------------------------------------------------------------
\* One iteration of dfs_cycle, with f for the recursive calls.
Step(g, f, c) ==
    LET callee == f[Entered(c.v, c)]
    IN  IF c.v = MAX_TRANSACTIONS
          THEN OffStack(c.u, c)
        ELSE IF c.v \notin g[c.u]
          THEN f[Iteration(c.u, c.v + 1, c)]
        ELSE IF c.v \in c.visited
          THEN IF c.v \in c.recStack THEN SearchState(TRUE, c.visited, c.recStack)
               ELSE f[Iteration(c.u, c.v + 1, c)]
        ELSE IF callee.found \/ c.v \in callee.recStack
          THEN SearchState(TRUE, callee.visited, callee.recStack)
        ELSE f[Iteration(c.u, c.v + 1, callee)]

\* A result of a call has visited what was visited before.
Visits(c) == {s \in SearchStates : c.visited \subseteq s.visited}

LEMMA StepVisits ==
  ASSUME NEW g, NEW f, NEW c \in Iterations,
         \A d \in Iterations : Weight(d) < Weight(c) => f[d] \in Visits(d)
  PROVE  Step(g, f, c) \in Visits(c)
  <1> DEFINE n == Iteration(c.u, c.v + 1, c)
             e == Entered(c.v, c)
             m == Iteration(c.u, c.v + 1, f[e])
  <1>1. CASE c.v = MAX_TRANSACTIONS
    BY <1>1 DEF Step, OffStack, SearchState, SearchStates, Visits, Iterations
  <1>2. ASSUME c.v # MAX_TRANSACTIONS PROVE f[n] \in Visits(c)
    <2>1. n \in Iterations /\ Weight(n) < Weight(c)
      BY <1>2, NextIteration
    <2>2. f[n] \in Visits(n) /\ n.visited = c.visited
      BY <2>1 DEF Iteration
    <2> QED
      BY <2>2 DEF Visits
  <1>3. SearchState(TRUE, c.visited, c.recStack) \in Visits(c)
    BY DEF SearchState, SearchStates, Visits, Iterations
  <1>4. ASSUME c.v # MAX_TRANSACTIONS, c.v \notin c.visited
        PROVE  SearchState(TRUE, f[e].visited, f[e].recStack) \in Visits(c) /\ f[m] \in Visits(c)
    <2>1. e \in Iterations /\ Weight(e) < Weight(c)
      BY <1>4, CalleeEntered
    <2>2. f[e] \in Visits(e) /\ e.visited = c.visited \cup {c.v}
      BY <2>1 DEF Entered
    <2>3. f[e] \in SearchStates /\ c.visited \subseteq f[e].visited /\ c.v \in f[e].visited
      BY <2>2 DEF Visits
    <2>4. SearchState(TRUE, f[e].visited, f[e].recStack) \in Visits(c)
      BY <2>3 DEF SearchState, SearchStates, Visits
    <2>5. m \in Iterations /\ Weight(m) < Weight(c)
      BY <1>4, <2>3, CalleeReturned
    <2>6. f[m] \in Visits(m) /\ m.visited = f[e].visited
      BY <2>5 DEF Iteration
    <2> QED
      BY <2>3, <2>4, <2>6 DEF Visits
  <1> HIDE DEF n, e, m
  <1> QED
    BY <1>1, <1>2, <1>3, <1>4 DEF Step, n, e, m

\* What an iteration does depends on lighter iterations only.
LEMMA StepIsLocal ==
  ASSUME NEW g, NEW f, NEW h, NEW c \in Iterations,
         \A d \in Iterations : Weight(d) < Weight(c) => f[d] \in Visits(d) /\ f[d] = h[d]
  PROVE  Step(g, f, c) = Step(g, h, c)
  <1> DEFINE n == Iteration(c.u, c.v + 1, c)
             e == Entered(c.v, c)
             m == Iteration(c.u, c.v + 1, f[e])
  <1>1. CASE c.v = MAX_TRANSACTIONS
    BY <1>1 DEF Step
  <1>2. ASSUME c.v # MAX_TRANSACTIONS PROVE f[n] = h[n]
    BY <1>2, NextIteration
  <1>3. ASSUME c.v # MAX_TRANSACTIONS, c.v \notin c.visited
        PROVE  f[e] = h[e] /\ f[m] = h[m]
    <2>1. e \in Iterations /\ Weight(e) < Weight(c)
      BY <1>3, CalleeEntered
    <2>2. f[e] \in Visits(e) /\ e.visited = c.visited \cup {c.v}
      BY <2>1 DEF Entered
    <2>3. f[e] \in SearchStates /\ c.visited \subseteq f[e].visited /\ c.v \in f[e].visited
      BY <2>2 DEF Visits
    <2>4. m \in Iterations /\ Weight(m) < Weight(c)
      BY <1>3, <2>3, CalleeReturned
    <2> QED
      BY <2>1, <2>4
  <1> HIDE DEF n, e, m
  <1> QED
    BY <1>1, <1>2, <1>3 DEF Step, n, e, m
-----------------------------------------------------------------------------
\* dfs_cycle is a solution of its recursion, for one exists.
LEMMA SearchRecurs ==
  ASSUME NEW g
  PROVE  \A c \in Iterations : dfs_cycle(g)[c] = Step(g, dfs_cycle(g), c)
  <1> DEFINE G == {f \in [Iterations -> SearchStates] : \A c \in Iterations : f[c] \in Visits(c)}
             F == [f \in G |-> [c \in Iterations |-> Step(g, f, c)]]
             weight == [c \in Iterations |-> Weight(c)]
             M == (Cardinality(Slots) + 1) * (MAX_TRANSACTIONS + 1) + (MAX_TRANSACTIONS - MAX_TRANSACTIONS)
  <1>1. weight \in [Iterations -> Nat] /\ \A c \in Iterations : weight[c] < M
    BY WeightIsNat
  <1>2. M \in Nat
    BY SlotsFinite, MaxTransactionsAssumption
  <1>3. [c \in Iterations |-> SearchState(FALSE, c.visited, c.recStack)] \in G
    BY DEF Iterations, SearchState, SearchStates, Visits
  <1>4. F \in [G -> G]
    <2>1. ASSUME NEW f \in G, NEW c \in Iterations PROVE Step(g, f, c) \in Visits(c) /\ Step(g, f, c) \in SearchStates
      <3>1. \A d \in Iterations : Weight(d) < Weight(c) => f[d] \in Visits(d)
        OBVIOUS
      <3>2. Step(g, f, c) \in Visits(c)
        BY <3>1, StepVisits
      <3> QED
        BY <3>2 DEF Visits
    <2>2. \A f \in G : [c \in Iterations |-> Step(g, f, c)] \in G
      BY <2>1
    <2> QED
      BY <2>2
  <1>5. ASSUME NEW f \in G, NEW h \in G, NEW c \in Iterations,
               \A d \in Iterations : weight[d] < weight[c] => f[d] = h[d]
        PROVE  F[f][c] = F[h][c]
    <2>1. \A d \in Iterations : Weight(d) < Weight(c) => f[d] \in Visits(d) /\ f[d] = h[d]
      BY <1>5
    <2>2. Step(g, f, c) = Step(g, h, c)
      BY <2>1, StepIsLocal
    <2> QED
      BY <2>2
  <1>6. Solvable(Iterations, G, F)
    <2>1. Descends(Iterations, G, F, weight)
      BY <1>5 DEF Descends
    <2> HIDE DEF G, F, weight, M
    <2>2. G # {}
      BY <1>3
    <2> QED
      BY <1>1, <1>2, <1>4, <2>1, <2>2, RecursionEnds
  <1>7. PICK f \in G : \A c \in Iterations : f[c] = Step(g, f, c)
    BY <1>6 DEF Solvable
  <1>8. f = [c \in Iterations |-> Step(g, f, c)]
    BY <1>7
  <1>9. dfs_cycle(g) = CHOOSE rest : rest = [c \in Iterations |-> Step(g, rest, c)]
    BY DEF dfs_cycle, Step
  <1>10. dfs_cycle(g) = [c \in Iterations |-> Step(g, dfs_cycle(g), c)]
    BY <1>8, <1>9
  <1> QED
    BY <1>10, Zenon
-----------------------------------------------------------------------------
\* The nodes the search has finished with.
Black(s) == s.visited \ s.recStack

\* The search has found no cycle among them, and their edges stay among them.
Explored(g, D) ==
    /\ \A w \in D : g[w] \subseteq D
    /\ \A C \in SUBSET D : ~Cyclic(C, g)

HasCycle(g) == \E C \in SUBSET Slots : Cyclic(C, g)

\* Before an iteration: every node on the stack but u waits for another one on
\* it, and what u waits for left of v is finished with.
Before(g, c) ==
    /\ c.u \in c.recStack /\ c.recStack \subseteq c.visited
    /\ \A w \in c.recStack \ {c.u} : \E x \in c.recStack : x \in g[w]
    /\ Explored(g, Black(c))
    /\ \A j \in g[c.u] : j < c.v => j \in Black(c)

\* After the call it belongs to.
After(g, c, s) ==
    /\ s \in Visits(c)
    /\ s.found => HasCycle(g)
    /\ ~s.found => s.recStack = c.recStack \ {c.u} /\ Explored(g, Black(s))

\* A node whose edges lead to finished nodes is finished with.
LEMMA OneMoreExplored ==
  ASSUME NEW g, NEW D, NEW u, Explored(g, D), g[u] \subseteq D, u \notin D
  PROVE  Explored(g, D \cup {u})
  <1>1. \A w \in D \cup {u} : g[w] \subseteq D \cup {u}
    BY DEF Explored
  <1>2. ASSUME NEW C \in SUBSET (D \cup {u}), Cyclic(C, g) PROVE FALSE
    <2>1. \A w \in C \ {u} : \E x \in C \ {u} : x \in g[w]
      BY <1>2 DEF Explored, Cyclic
    <2>2. C \ {u} # {}
      BY <1>2 DEF Cyclic
    <2>3. Cyclic(C \ {u}, g) /\ C \ {u} \in SUBSET D
      BY <2>1, <2>2 DEF Cyclic
    <2> QED
      BY <2>3 DEF Explored
  <1> QED
    BY <1>1, <1>2 DEF Explored

\* An iteration of dfs_cycle does what a call promises, if lighter ones do.
LEMMA StepExplores ==
  ASSUME NEW g \in [Slots -> SUBSET Slots], NEW f, NEW c \in Iterations, Before(g, c),
         \A d \in Iterations : Weight(d) < Weight(c) =>
            f[d] \in Visits(d) /\ (Before(g, d) => After(g, d, f[d]))
  PROVE  After(g, c, Step(g, f, c))
  <1> DEFINE n == Iteration(c.u, c.v + 1, c)
             e == Entered(c.v, c)
             m == Iteration(c.u, c.v + 1, f[e])
  <1>0. /\ c.u \in Slots /\ c.v \in 0..MAX_TRANSACTIONS /\ MAX_TRANSACTIONS \in Nat
        /\ c.visited \subseteq Slots /\ c.recStack \subseteq Slots /\ g[c.u] \subseteq Slots
        /\ \A j \in g[c.u] : j \in Nat /\ j < MAX_TRANSACTIONS
    BY MaxTransactionsAssumption DEF Iterations, Slots
  <1>a. Step(g, f, c) \in Visits(c)
    BY StepVisits
  <1>1. CASE c.v = MAX_TRANSACTIONS
    <2>1. Step(g, f, c) = OffStack(c.u, c)
      BY <1>1 DEF Step
    <2>2. g[c.u] \subseteq Black(c) /\ c.u \notin Black(c)
      BY <1>0, <1>1 DEF Before, Black
    <2>3. Explored(g, Black(c) \cup {c.u})
      BY <2>2, OneMoreExplored DEF Before
    <2>4. Black(OffStack(c.u, c)) = Black(c) \cup {c.u}
      BY DEF Before, Black, OffStack, SearchState
    <2>5. ~OffStack(c.u, c).found /\ OffStack(c.u, c).recStack = c.recStack \ {c.u}
      BY DEF OffStack, SearchState
    <2> QED
      BY <1>a, <2>1, <2>3, <2>4, <2>5 DEF After
  <1>2. ASSUME c.v # MAX_TRANSACTIONS, c.v \in g[c.u] => c.v \in Black(c)
        PROVE  After(g, c, f[n])
    <2>1. n \in Iterations /\ Weight(n) < Weight(c)
      BY <1>2, NextIteration
    <2>2. n.u = c.u /\ n.v = c.v + 1 /\ n.visited = c.visited /\ n.recStack = c.recStack
      BY DEF Iteration
    <2>3. Black(n) = Black(c)
      BY <2>2 DEF Black
    <2>4. \A j \in g[c.u] : j < c.v + 1 => j < c.v \/ j = c.v
      BY <1>0
    <2>5. Before(g, n)
      BY <1>2, <2>2, <2>3, <2>4 DEF Before
    <2>6. After(g, n, f[n])
      BY <2>1, <2>5
    <2> QED
      BY <2>2, <2>6 DEF After, Visits
  <1>3. ASSUME c.v \in g[c.u], c.v \in c.recStack
        PROVE  HasCycle(g)
    <2>1. Cyclic(c.recStack, g)
      BY <1>3 DEF Before, Cyclic
    <2> QED
      BY <1>0, <2>1 DEF HasCycle
  <1>4. ASSUME c.v # MAX_TRANSACTIONS, c.v \in g[c.u], c.v \notin c.visited
        PROVE  /\ f[e].found => HasCycle(g)
               /\ ~f[e].found => c.v \notin f[e].recStack /\ After(g, c, f[m])
    <2>1. e \in Iterations /\ Weight(e) < Weight(c)
      BY <1>4, CalleeEntered
    <2>2. /\ e.u = c.v /\ e.v = 0
          /\ e.visited = c.visited \cup {c.v} /\ e.recStack = c.recStack \cup {c.v}
      BY DEF Entered
    <2>3. Black(e) = Black(c)
      BY <1>4, <2>2 DEF Black
    <2>4. c.v \in Slots /\ \A j \in g[c.v] : ~(j < 0)
      BY <1>0, <1>4 DEF Slots
    <2>5. \A w \in e.recStack \ {e.u} : \E x \in e.recStack : x \in g[w]
      BY <1>4, <2>2 DEF Before
    <2>6. Before(g, e)
      BY <2>2, <2>3, <2>4, <2>5 DEF Before
    <2>7. f[e] \in Visits(e) /\ After(g, e, f[e])
      BY <2>1, <2>6
    <2>8. ASSUME ~f[e].found PROVE c.v \notin f[e].recStack /\ After(g, c, f[m])
      <3>1. f[e].recStack = c.recStack
        <4>1. f[e].recStack = e.recStack \ {e.u}
          BY <2>7, <2>8 DEF After
        <4>2. c.v \notin c.recStack
          BY <1>4 DEF Before
        <4> QED
          BY <2>2, <4>1, <4>2
      <3>2. f[e] \in SearchStates /\ c.visited \subseteq f[e].visited /\ c.v \in f[e].visited
        BY <2>2, <2>7 DEF Visits
      <3>3. c.v \notin f[e].recStack
        BY <1>4, <3>1 DEF Before
      <3>4. m \in Iterations /\ Weight(m) < Weight(c)
        BY <1>4, <3>2, CalleeReturned
      <3>5. m.u = c.u /\ m.v = c.v + 1 /\ m.visited = f[e].visited /\ m.recStack = c.recStack
        BY <3>1 DEF Iteration
      <3>6. Black(m) = Black(f[e]) /\ Black(c) \subseteq Black(m) /\ c.v \in Black(m)
        BY <3>1, <3>2, <3>3, <3>5 DEF Black
      <3>7. Explored(g, Black(m))
        BY <2>7, <2>8, <3>6 DEF After
      <3>8. \A j \in g[c.u] : j < c.v + 1 => j < c.v \/ j = c.v
        BY <1>0
      <3>9. Before(g, m)
        BY <3>2, <3>5, <3>6, <3>7, <3>8 DEF Before
      <3>10. After(g, m, f[m])
        BY <3>4, <3>9
      <3> QED
        BY <3>2, <3>3, <3>5, <3>10 DEF After, Visits
    <2> QED
      BY <2>7, <2>8 DEF After
  <1>5. CASE c.v # MAX_TRANSACTIONS /\ (c.v \notin g[c.u] \/ c.v \in Black(c))
    <2>1. Step(g, f, c) = f[n]
      BY <1>5 DEF Step, Black
    <2> QED
      BY <1>2, <1>5, <2>1
  <1>6. CASE c.v # MAX_TRANSACTIONS /\ c.v \in g[c.u] /\ c.v \in c.recStack
    <2>1. Step(g, f, c) = SearchState(TRUE, c.visited, c.recStack)
      BY <1>6 DEF Step, Before
    <2> QED
      BY <1>3, <1>6, <1>a, <2>1 DEF After, SearchState
  <1>7. CASE c.v # MAX_TRANSACTIONS /\ c.v \in g[c.u] /\ c.v \notin c.visited
    <2>1. CASE f[e].found
      <3>1. Step(g, f, c) = SearchState(TRUE, f[e].visited, f[e].recStack)
        BY <1>7, <2>1 DEF Step
      <3> QED
        BY <1>4, <1>7, <1>a, <2>1, <3>1 DEF After, SearchState
    <2>2. CASE ~f[e].found
      <3>1. c.v \notin f[e].recStack /\ After(g, c, f[m])
        BY <1>4, <1>7, <2>2
      <3>2. Step(g, f, c) = f[m]
        BY <1>7, <2>2, <3>1 DEF Step
      <3> QED
        BY <3>1, <3>2
    <2> QED
      BY <2>1, <2>2
  <1> QED
    BY <1>1, <1>5, <1>6, <1>7 DEF Black

\* dfs_cycle does what it promises.
LEMMA SearchExplores ==
  ASSUME NEW g \in [Slots -> SUBSET Slots], NEW c \in Iterations
  PROVE  /\ dfs_cycle(g)[c] \in Visits(c)
         /\ Before(g, c) => After(g, c, dfs_cycle(g)[c])
  <1> DEFINE f == dfs_cycle(g)
             H == {d \in Iterations : f[d] \in Visits(d) /\ (Before(g, d) => After(g, d, f[d]))}
             weight == [d \in Iterations |-> Weight(d)]
  <1>1. weight \in [Iterations -> Nat]
    BY WeightIsNat
  <1>2. ASSUME NEW d \in Iterations, \A b \in Iterations : weight[b] < weight[d] => b \in H
        PROVE  d \in H
    <2>1. \A b \in Iterations : Weight(b) < Weight(d) =>
             f[b] \in Visits(b) /\ (Before(g, b) => After(g, b, f[b]))
      BY <1>2
    <2> HIDE DEF f
    <2>2. f[d] = Step(g, f, d)
      BY SearchRecurs DEF f
    <2>3. f[d] \in Visits(d)
      BY <2>1, <2>2, StepVisits
    <2>4. Before(g, d) => After(g, d, f[d])
      BY <2>1, <2>2, StepExplores
    <2> QED
      BY <2>3, <2>4
  <1>3. Iterations \subseteq H
    <2> HIDE DEF H, weight
    <2> QED
      BY <1>1, <1>2, LightestFirst
  <1> QED
    BY <1>3
-----------------------------------------------------------------------------
\* One iteration of detect_deadlock, with h for the rest of its loop.
RootStep(g, h, c) ==
    LET callee == dfs_cycle(g)[Entered(c.i, c)]
    IN  IF c.i = MAX_TRANSACTIONS THEN FALSE
        ELSE IF c.i \in c.visited THEN h[Root(c.i + 1, c)]
        ELSE callee.found \/ h[Root(c.i + 1, callee)]

RootWeight(c) == MAX_TRANSACTIONS - c.i

\* The next iteration of the loop, when dfs_cycle(i) was not called, and when
\* it has returned.
LEMMA NextRoot ==
  ASSUME NEW g \in [Slots -> SUBSET Slots], NEW c \in Roots, c.i # MAX_TRANSACTIONS
  PROVE  LET e == Entered(c.i, c)
             r == dfs_cycle(g)[e]
         IN  /\ Root(c.i + 1, c) \in Roots /\ RootWeight(Root(c.i + 1, c)) < RootWeight(c)
             /\ e \in Iterations /\ r \in Visits(e)
             /\ Root(c.i + 1, r) \in Roots /\ RootWeight(Root(c.i + 1, r)) < RootWeight(c)
  <1> DEFINE e == Entered(c.i, c)
             r == dfs_cycle(g)[e]
  <1>1. /\ MAX_TRANSACTIONS \in Nat /\ c.i \in 0..MAX_TRANSACTIONS /\ c.i \in Slots
        /\ c.i + 1 \in 0..MAX_TRANSACTIONS /\ 0 \in 0..MAX_TRANSACTIONS
        /\ c.visited \in SUBSET Slots /\ c.recStack \in SUBSET Slots
    BY MaxTransactionsAssumption DEF Roots, Slots
  <1>2. e \in Iterations
    BY <1>1 DEF Entered, Iterations
  <1>3. r \in Visits(e)
    BY <1>2, SearchExplores
  <1>4. r \in SearchStates
    BY <1>3 DEF Visits
  <1>5. Root(c.i + 1, c) \in Roots /\ Root(c.i + 1, c).i = c.i + 1
    BY <1>1 DEF Root, Roots
  <1> HIDE DEF r
  <1>6. Root(c.i + 1, r) \in Roots /\ Root(c.i + 1, r).i = c.i + 1
    BY <1>1, <1>4 DEF Root, Roots, SearchStates
  <1>7. MAX_TRANSACTIONS - (c.i + 1) < MAX_TRANSACTIONS - c.i
    BY <1>1
  <1> QED
    BY <1>2, <1>3, <1>5, <1>6, <1>7 DEF RootWeight, r

LEMMA RootWeightIsNat ==
  ASSUME NEW c \in Roots
  PROVE  RootWeight(c) \in Nat /\ RootWeight(c) < MAX_TRANSACTIONS + 1
  BY MaxTransactionsAssumption DEF RootWeight, Roots

\* The loop of detect_deadlock, as a function of where it is.
RootLoop(g) == CHOOSE rest : rest = [c \in Roots |-> RootStep(g, rest, c)]

LEMMA RootsRecur ==
  ASSUME NEW g \in [Slots -> SUBSET Slots]
  PROVE  \A c \in Roots : RootLoop(g)[c] = RootStep(g, RootLoop(g), c)
  <1> DEFINE G == [Roots -> BOOLEAN]
             F == [h \in G |-> [c \in Roots |-> RootStep(g, h, c)]]
             weight == [c \in Roots |-> RootWeight(c)]
  <1>1. weight \in [Roots -> Nat] /\ \A c \in Roots : weight[c] < MAX_TRANSACTIONS + 1
    BY RootWeightIsNat
  <1>2. MAX_TRANSACTIONS + 1 \in Nat
    BY MaxTransactionsAssumption
  <1>3. [c \in Roots |-> FALSE] \in G
    OBVIOUS
  <1>4. F \in [G -> G]
    <2>1. \A h \in G, c \in Roots : RootStep(g, h, c) \in BOOLEAN
      <3> SUFFICES ASSUME NEW h \in G, NEW c \in Roots PROVE RootStep(g, h, c) \in BOOLEAN
        OBVIOUS
      <3>1. CASE c.i = MAX_TRANSACTIONS
        BY <3>1 DEF RootStep
      <3>2. CASE c.i # MAX_TRANSACTIONS
        <4>1. h[Root(c.i + 1, c)] \in BOOLEAN
          BY <3>2, NextRoot
        <4> QED
          BY <3>2, <4>1, Zenon DEF RootStep
      <3> QED
        BY <3>1, <3>2
    <2> HIDE DEF G
    <2>2. \A h \in G : [c \in Roots |-> RootStep(g, h, c)] \in G
      BY <2>1 DEF G
    <2> QED
      BY <2>2
  <1>5. Descends(Roots, G, F, weight)
    <2> SUFFICES ASSUME NEW h \in G, NEW k \in G, NEW c \in Roots,
                        \A d \in Roots : weight[d] < weight[c] => h[d] = k[d]
                 PROVE  F[h][c] = F[k][c]
      BY DEF Descends
    <2>1. \A d \in Roots : RootWeight(d) < RootWeight(c) => h[d] = k[d]
      OBVIOUS
    <2>2. RootStep(g, h, c) = RootStep(g, k, c)
      <3>1. CASE c.i = MAX_TRANSACTIONS
        BY <3>1 DEF RootStep
      <3>2. CASE c.i # MAX_TRANSACTIONS
        <4>1. h[Root(c.i + 1, c)] = k[Root(c.i + 1, c)]
          BY <2>1, <3>2, NextRoot
        <4>2. h[Root(c.i + 1, dfs_cycle(g)[Entered(c.i, c)])] = k[Root(c.i + 1, dfs_cycle(g)[Entered(c.i, c)])]
          BY <2>1, <3>2, NextRoot
        <4> QED
          BY <4>1, <4>2, Zenon DEF RootStep
      <3> QED
        BY <3>1, <3>2
    <2> QED
      BY <2>2
  <1>6. Solvable(Roots, G, F)
    <2> HIDE DEF G, F, weight
    <2>1. G # {}
      BY <1>3
    <2> QED
      BY <1>1, <1>2, <1>4, <1>5, <2>1, RecursionEnds
  <1>7. PICK h \in G : \A c \in Roots : h[c] = RootStep(g, h, c)
    BY <1>6 DEF Solvable
  <1>8. h = [c \in Roots |-> RootStep(g, h, c)]
    BY <1>7
  <1>9. RootLoop(g) = [c \in Roots |-> RootStep(g, RootLoop(g), c)]
    BY <1>8 DEF RootLoop
  <1> QED
    BY <1>9, Zenon

\* From the first slot not dealt with on, the loop finds a cycle if there is one.
RootBefore(g, c) ==
    /\ c.recStack = {}
    /\ Explored(g, c.visited)
    /\ \A j \in Slots : j < c.i => j \in c.visited

LEMMA RootStepFinds ==
  ASSUME NEW g \in [Slots -> SUBSET Slots], NEW h, NEW c \in Roots, RootBefore(g, c),
         \A d \in Roots : RootWeight(d) < RootWeight(c) =>
            (RootBefore(g, d) => h[d] = HasCycle(g))
  PROVE  RootStep(g, h, c) = HasCycle(g)
  <1> DEFINE e == Entered(c.i, c)
             r == dfs_cycle(g)[e]
  <1>0. /\ MAX_TRANSACTIONS \in Nat /\ c.i \in 0..MAX_TRANSACTIONS
        /\ c.visited \subseteq Slots /\ \A j \in Slots : j \in Nat /\ j < MAX_TRANSACTIONS
    BY MaxTransactionsAssumption DEF Roots, Slots
  <1>1. CASE c.i = MAX_TRANSACTIONS
    <2>1. c.visited = Slots
      BY <1>0, <1>1 DEF RootBefore
    <2>2. ~HasCycle(g)
      BY <2>1 DEF RootBefore, Explored, HasCycle
    <2> QED
      BY <1>1, <2>2 DEF RootStep, HasCycle
  <1>2. CASE c.i # MAX_TRANSACTIONS /\ c.i \in c.visited
    <2>1. Root(c.i + 1, c) \in Roots /\ RootWeight(Root(c.i + 1, c)) < RootWeight(c)
      BY <1>2, NextRoot
    <2>2. \A j \in Slots : j < c.i + 1 => j < c.i \/ j = c.i
      BY <1>0
    <2>3. RootBefore(g, Root(c.i + 1, c))
      BY <1>2, <2>2 DEF RootBefore, Root
    <2>4. h[Root(c.i + 1, c)] = HasCycle(g)
      BY <2>1, <2>3
    <2> QED
      BY <1>2, <2>4, Zenon DEF RootStep
  <1>3. CASE c.i # MAX_TRANSACTIONS /\ c.i \notin c.visited
    <2>1. /\ e \in Iterations /\ r \in Visits(e)
          /\ Root(c.i + 1, r) \in Roots /\ RootWeight(Root(c.i + 1, r)) < RootWeight(c)
      BY <1>3, NextRoot
    <2>2. e.u = c.i /\ e.v = 0 /\ e.visited = c.visited \cup {c.i} /\ e.recStack = {c.i}
      BY DEF Entered, RootBefore
    <2>3. Before(g, e)
      <3>1. Black(e) = c.visited
        BY <1>3, <2>2 DEF Black
      <3>2. \A j \in g[c.i] : ~(j < 0)
        BY <1>0, <1>3 DEF Slots
      <3> QED
        BY <2>2, <3>1, <3>2 DEF Before, RootBefore
    <2>4. After(g, e, r)
      BY <2>1, <2>3, SearchExplores
    <2>5. CASE r.found
      <3>1. HasCycle(g)
        BY <2>4, <2>5 DEF After
      <3>2. RootStep(g, h, c) = (r.found \/ h[Root(c.i + 1, r)])
        BY <1>3, Zenon DEF RootStep
      <3> QED
        BY <2>5, <3>1, <3>2, Zenon DEF HasCycle
    <2>6. CASE ~r.found
      <3>1. r.recStack = {} /\ Explored(g, Black(r)) /\ c.visited \subseteq r.visited /\ c.i \in r.visited
        BY <2>1, <2>2, <2>4, <2>6 DEF After, Visits
      <3>2. Root(c.i + 1, r).i = c.i + 1 /\ Root(c.i + 1, r).visited = r.visited
            /\ Root(c.i + 1, r).recStack = r.recStack
        BY DEF Root
      <3>3. Black(r) = r.visited
        BY <3>1 DEF Black
      <3>4. \A j \in Slots : j < c.i + 1 => j < c.i \/ j = c.i
        BY <1>0
      <3>5. RootBefore(g, Root(c.i + 1, r))
        BY <3>1, <3>2, <3>3, <3>4 DEF RootBefore
      <3>6. h[Root(c.i + 1, r)] = HasCycle(g)
        BY <2>1, <3>5
      <3>7. RootStep(g, h, c) = (r.found \/ h[Root(c.i + 1, r)])
        BY <1>3, Zenon DEF RootStep
      <3> QED
        BY <2>6, <3>6, <3>7, Zenon DEF HasCycle
    <2> QED
      BY <2>5, <2>6
  <1> QED
    BY <1>1, <1>2, <1>3

\* detect_deadlock answers true exactly on the graphs with a cycle.
LEMMA DetectorIsRight ==
  ASSUME NEW g \in [Slots -> SUBSET Slots]
  PROVE  detect_deadlock(g) = DetectDeadlock(Slots, g)
  <1> DEFINE h == RootLoop(g)
             H == {c \in Roots : RootBefore(g, c) => h[c] = HasCycle(g)}
             weight == [c \in Roots |-> RootWeight(c)]
             start == Root(0, SearchState(FALSE, {}, {}))
  <1>1. weight \in [Roots -> Nat]
    BY RootWeightIsNat
  <1>2. ASSUME NEW c \in Roots, \A d \in Roots : weight[d] < weight[c] => d \in H
        PROVE  c \in H
    <2>1. \A d \in Roots : RootWeight(d) < RootWeight(c) => (RootBefore(g, d) => h[d] = HasCycle(g))
      BY <1>2
    <2> HIDE DEF h
    <2>2. h[c] = RootStep(g, h, c)
      BY RootsRecur DEF h
    <2> QED
      BY <2>1, <2>2, RootStepFinds
  <1>3. Roots \subseteq H
    <2> HIDE DEF H, weight
    <2> QED
      BY <1>1, <1>2, LightestFirst
  <1>4. start \in Roots
    BY MaxTransactionsAssumption DEF Root, Roots, SearchState
  <1>5. RootBefore(g, start)
    <2>1. start.i = 0 /\ start.visited = {} /\ start.recStack = {}
      BY DEF Root, SearchState
    <2>2. \A j \in Slots : ~(j < 0)
      BY DEF Slots
    <2>3. Explored(g, {})
      BY DEF Explored, Cyclic
    <2> QED
      BY <2>1, <2>2, <2>3 DEF RootBefore
  <1>6. h[start] = HasCycle(g)
    BY <1>3, <1>4, <1>5
  <1>7. detect_deadlock(g) = h[start]
    BY Zenon DEF detect_deadlock, RootLoop, RootStep
  <1> QED
    BY <1>6, <1>7, Zenon DEF HasCycle, DetectDeadlock

\* The numbers of the slots do not matter to a cycle.
LEMMA Renumbered ==
  ASSUME NEW w \in [Tx -> SUBSET Tx], NEW f \in Numberings
  PROVE  DetectDeadlock(Slots, [i \in Slots |-> {j \in Slots : f[j] \in w[f[i]]}]) = DetectDeadlock(Tx, w)
  <1> DEFINE g == [i \in Slots |-> {j \in Slots : f[j] \in w[f[i]]}]
  <1>1. f \in [Slots -> Tx] /\ \A t \in Tx : \E i \in Slots : f[i] = t
    BY DEF Numberings
  <1>2. ASSUME NEW C \in SUBSET Slots, Cyclic(C, g) PROVE DetectDeadlock(Tx, w)
    <2>1. {f[i] : i \in C} \in SUBSET Tx /\ {f[i] : i \in C} # {}
      BY <1>1, <1>2 DEF Cyclic
    <2>2. \A i \in C : \E j \in C : f[j] \in w[f[i]]
      BY <1>2 DEF Cyclic
    <2>3. Cyclic({f[i] : i \in C}, w)
      BY <2>1, <2>2 DEF Cyclic
    <2> QED
      BY <2>1, <2>3 DEF DetectDeadlock
  <1>3. ASSUME NEW D \in SUBSET Tx, Cyclic(D, w) PROVE DetectDeadlock(Slots, g)
    <2> DEFINE C == {i \in Slots : f[i] \in D}
    <2>1. C # {}
      BY <1>1, <1>3 DEF Cyclic
    <2>2. \A i \in C : \E j \in C : j \in g[i]
      <3> SUFFICES ASSUME NEW i \in C PROVE \E j \in C : j \in g[i]
        OBVIOUS
      <3>1. PICK t \in D : t \in w[f[i]]
        BY <1>3 DEF Cyclic
      <3>2. PICK j \in Slots : f[j] = t
        BY <1>1, <3>1
      <3> QED
        BY <3>1, <3>2
    <2>3. Cyclic(C, g)
      BY <2>1, <2>2 DEF Cyclic
    <2> QED
      BY <2>3 DEF DetectDeadlock
  <1> HIDE DEF g
  <1>4. DetectDeadlock(Slots, g) <=> DetectDeadlock(Tx, w)
    BY <1>2, <1>3 DEF DetectDeadlock
  <1> QED
    BY <1>4, Zenon DEF DetectDeadlock, g

\* detect_deadlock answers true exactly when transactions wait for each other
\* in a circle, for every number of slots and transactions and every state
\* of the store: the search from one slot leaves nodes visited that neither
\* hide a cycle from the next nor are taken for one.
THEOREM SearchIsExact == Spec => []DfsFindsExactlyTheCycles
  <1>1. TypeOK => DfsFindsExactlyTheCycles
    <2> SUFFICES ASSUME TypeOK, NEW f \in Numberings
                 PROVE  detect_deadlock([i \in Slots |-> {j \in Slots : f[j] \in wait_for[f[i]]}])
                          <=> DetectDeadlock(Tx, wait_for)
      BY DEF DfsFindsExactlyTheCycles
    <2>1. PICK w \in [Tx -> SUBSET Tx] : w = wait_for
      BY DEF TypeOK
    <2> DEFINE g == [i \in Slots |-> {j \in Slots : f[j] \in w[f[i]]}]
    <2>2. g \in [Slots -> SUBSET Slots]
      OBVIOUS
    <2>3. detect_deadlock(g) = DetectDeadlock(Slots, g)
      BY <2>2, DetectorIsRight
    <2>4. DetectDeadlock(Slots, g) = DetectDeadlock(Tx, w)
      BY Renumbered
    <2> QED
      BY <2>1, <2>3, <2>4
  <1> QED
    BY <1>1, TypeCorrect, PTL
=============================================================================
