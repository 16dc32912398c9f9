CONSTANTS
  t1 = t1
  t2 = t2
  t3 = t3
  k1 = k1
  k2 = k2
  k3 = k3
  v1 = v1
  Tx = {t1, t2}
  Keys = {k1, k2}
  Values = {v1}
  InitValue = InitValue
  NoTx = NoTx
  NoWrite = NoWrite
  MAX_WRITES_PER_TX = 2
  ULONG_MAX = 100
  MaxTs = 5
  MAX_TRANSACTIONS = 2
  Concurrent = TRUE
SPECIFICATION Spec
INVARIANTS
  TypeOK
  SnapshotTotal
  LocksCoverWrites
PROPERTIES
  SnapshotMovesOnlyBackwards
  DeadlockBroken
