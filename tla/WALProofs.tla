------------------------------ MODULE WALProofs ------------------------------
(***************************************************************************)
(* Proofs about the write-ahead log of the module WAL, for any number of   *)
(* runs and power losses.                                                  *)
(***************************************************************************)
EXTENDS WAL, SequenceTheorems, WellFoundedInduction, TLAPS

\* Which command is where: only recovery replays, only the writers log, and
\* the one without fsync is never inside fsync_file.
CommandInv ==
    \A o \in Runs :
        /\ pc[o] = "replaying" => command[o] = "recover"
        /\ pc[o] = "buffered" => command[o] \in {"write", "write-nosync", "crash-after-wal"}
        /\ pc[o] = "flushed" => command[o] \in {"write", "crash-after-wal"}

\* Between fflush and fsync the record is with the kernel.
FlushedInv == \A o \in Runs : pc[o] = "flushed" => Holds(wal, o)

\* A pair gets into db.txt by a run that was started, and that of a writer
\* with fsync after its record is on disk.
DbInv ==
    \A o \in Runs :
        o \in Range(db) \cup Range(dbDisk) =>
            /\ pc[o] # "unstarted"
            /\ command[o] = "write" => Holds(walDisk, o)

IInv ==
    /\ TypeOK
    /\ RecordsContiguous
    /\ CommandInv
    /\ SyncedStays
    /\ FlushedInv
    /\ DbInv
-----------------------------------------------------------------------------
\* A set of natural numbers that is not empty has a least member.
LEMMA LeastNat ==
  ASSUME NEW T, T \subseteq Nat, T # {}
  PROVE  \E m \in T : \A k \in T : m <= k
  <1> DEFINE R == OpToRel(<, Nat)
  <1>1. \A x, y \in Nat : <<x, y>> \in R <=> x < y
    BY DEF OpToRel
  <1>2. IsWellFoundedOn(R, Nat)
    BY NatLessThanWellFounded
  <1> HIDE DEF R
  <1>3. PICK x \in T : \A y \in T : ~(<<y, x>> \in R)
    BY <1>2, WFMin
  <1>4. ASSUME NEW k \in T PROVE x <= k
    <2>1. x \in Nat /\ k \in Nat
      OBVIOUS
    <2>2. ~(k < x)
      BY <2>1, <1>1, <1>3, <1>4
    <2> QED
      BY <2>1, <2>2
  <1> QED
    BY <1>4

\* The loop of recovery (lines 132-151) ends with nothing to write, whatever
\* the log holds: the first sscanf returns 0 for every line, so the branches
\* after it are never taken.
LEMMA ReplaysNothing ==
  ASSUME NEW lines \in Seq(Lines)
  PROVE  Replayed(lines) = <<>>
  <1> DEFINE L == Len(lines)
             start == [in_transaction |-> FALSE, current |-> <<>>, output |-> <<>>]
             loop == CHOOSE f : f = [n \in 0..L |->
                        IF n = 0 THEN start ELSE ReplayLine(f[n - 1], lines[n])]
             all == [n \in 0..L |->
                        IF n = 0 THEN start ELSE [start EXCEPT !.in_transaction = TRUE]]
  <1>1. L \in Nat
    OBVIOUS
  <1>2. \A acc, line : ReplayLine(acc, line) = [acc EXCEPT !.in_transaction = TRUE]
    BY DEF ReplayLine, scan_begin
  <1>3. all = [n \in 0..L |-> IF n = 0 THEN start ELSE ReplayLine(all[n - 1], lines[n])]
    <2> SUFFICES ASSUME NEW n \in 0..L
                 PROVE  all[n] = IF n = 0 THEN start ELSE ReplayLine(all[n - 1], lines[n])
      OBVIOUS
    <2>1. CASE n = 0
      BY <2>1
    <2>2. CASE n # 0
      <3>1. n - 1 \in 0..L /\ all[n] = [start EXCEPT !.in_transaction = TRUE]
        BY <2>2, <1>1
      <3>2. all[n - 1] \in {start, [start EXCEPT !.in_transaction = TRUE]}
        BY <3>1
      <3>3. [all[n - 1] EXCEPT !.in_transaction = TRUE] = [start EXCEPT !.in_transaction = TRUE]
        BY <3>2
      <3> QED
        BY <2>2, <3>1, <3>3, <1>2
    <2> QED
      BY <2>1, <2>2
  <1> HIDE DEF all
  <1>4. loop = [n \in 0..L |-> IF n = 0 THEN start ELSE ReplayLine(loop[n - 1], lines[n])]
    BY <1>3
  <1>5. Replayed(lines) = loop[L].output
    BY DEF Replayed
  <1> HIDE DEF loop
  <1> DEFINE Bad == {n \in 0..L : loop[n] \notin {start, [start EXCEPT !.in_transaction = TRUE]}}
  <1>6. Bad = {}
    <2> SUFFICES ASSUME Bad # {} PROVE FALSE
      OBVIOUS
    <2>1. Bad \subseteq Nat
      OBVIOUS
    <2> HIDE DEF Bad
    <2>2. PICK m \in Bad : \A k \in Bad : m <= k
      BY <2>1, LeastNat
    <2>3. m \in 0..L /\ m # 0
      BY <2>2, <1>4 DEF Bad
    <2>4. m - 1 \in 0..L /\ m - 1 \notin Bad
      BY <2>2, <2>3, <1>1
    <2>5. loop[m - 1] \in {start, [start EXCEPT !.in_transaction = TRUE]}
      BY <2>4 DEF Bad
    <2>6. loop[m] = [loop[m - 1] EXCEPT !.in_transaction = TRUE]
      BY <2>3, <1>2, <1>4
    <2>7. loop[m] = [start EXCEPT !.in_transaction = TRUE]
      BY <2>5, <2>6
    <2> QED
      BY <2>2, <2>7 DEF Bad
  <1>7. loop[L] \in {start, [start EXCEPT !.in_transaction = TRUE]}
    BY <1>1, <1>6
  <1>8. start.output = <<>> /\ [start EXCEPT !.in_transaction = TRUE].output = <<>>
    OBVIOUS
  <1> QED
    BY <1>5, <1>7, <1>8
-----------------------------------------------------------------------------
\* The three lines of a transaction.
LEMMA RecordFacts ==
  ASSUME NEW o \in Runs
  PROVE  /\ Record(o) \in Seq(Lines)
         /\ Len(Record(o)) = 3
         /\ Record(o)[1] = Line("BEGIN", o)
         /\ Record(o)[2] = Line("SET", o)
         /\ Record(o)[3] = Line("COMMIT", o)
  <1>1. \A kind \in {"BEGIN", "SET", "COMMIT"} : Line(kind, o) \in Lines
    BY DEF Line, Lines
  <1> QED
    BY <1>1 DEF Record

\* A record in a log, line by line.
LEMMA RecordAt ==
  ASSUME NEW lines \in Seq(Lines), NEW o \in Runs, NEW n \in 1..(Len(lines) - 2)
  PROVE  SubSeq(lines, n, n + 2) = Record(o) <=>
            /\ lines[n] = Line("BEGIN", o)
            /\ lines[n + 1] = Line("SET", o)
            /\ lines[n + 2] = Line("COMMIT", o)
  <1> DEFINE sub == SubSeq(lines, n, n + 2)
  <1>1. n \in Nat /\ n >= 1 /\ n + 2 <= Len(lines) /\ Len(lines) \in Nat
    OBVIOUS
  <1>2. \A i \in n..(n + 2) : lines[i] \in Lines
    BY <1>1, ElementOfSeq
  <1>3. /\ sub \in Seq(Lines)
        /\ Len(sub) = 3
        /\ \A i \in 1..3 : sub[i] = lines[n + i - 1]
    BY <1>1, <1>2, SubSeqProperties
  <1>4. sub[1] = lines[n] /\ sub[2] = lines[n + 1] /\ sub[3] = lines[n + 2]
    BY <1>1, <1>3
  <1> HIDE DEF sub
  <1>5. sub = Record(o) <=> \A i \in 1..3 : sub[i] = Record(o)[i]
    BY <1>3, RecordFacts, SeqEqual
  <1>6. 1..3 = {1, 2, 3}
    OBVIOUS
  <1> QED
    BY <1>4, <1>5, <1>6, RecordFacts DEF sub

\* A prefix, line by line.
LEMMA PrefixPointwise ==
  ASSUME NEW S, NEW s \in Seq(S), NEW t \in Seq(S)
  PROVE  IsPrefix(s, t) <=> Len(s) <= Len(t) /\ \A i \in 1..Len(s) : s[i] = t[i]
  <1>1. Len(s) \in Nat /\ Len(t) \in Nat
    OBVIOUS
  <1>2. ASSUME Len(s) <= Len(t)
        PROVE  SubSeq(s, 1, Len(s)) = SubSeq(t, 1, Len(s))
                 <=> \A i \in 1..Len(s) : s[i] = t[i]
    <2>1. (\A i \in 1..Len(s) : s[i] \in S) /\ (\A i \in 1..Len(s) : t[i] \in S)
      BY <1>1, <1>2, ElementOfSeq
    <2>2. /\ SubSeq(s, 1, Len(s)) = s
          /\ SubSeq(t, 1, Len(s)) \in Seq(S)
          /\ Len(SubSeq(t, 1, Len(s))) = Len(s)
          /\ \A i \in 1..Len(s) : SubSeq(t, 1, Len(s))[i] = t[i]
      BY <1>1, <2>1, SubSeqFull, SubSeqProperties
    <2> QED
      BY <2>2, SeqEqual
  <1> QED
    BY <1>2 DEF IsPrefix

\* A log that goes on like another one holds the records of that one.
LEMMA HoldsLonger ==
  ASSUME NEW s \in Seq(Lines), NEW t \in Seq(Lines), Len(s) <= Len(t),
         \A i \in 1..Len(s) : s[i] = t[i], NEW o \in Runs, Holds(s, o)
  PROVE  Holds(t, o)
  <1>1. PICK n \in 1..(Len(s) - 2) : SubSeq(s, n, n + 2) = Record(o)
    BY DEF Holds
  <1>2. n \in Nat /\ n \in 1..(Len(t) - 2) /\ {n, n + 1, n + 2} \subseteq 1..Len(s)
    OBVIOUS
  <1>3. SubSeq(t, n, n + 2) = Record(o)
    BY <1>1, <1>2, RecordAt
  <1> QED
    BY <1>2, <1>3 DEF Holds

\* The front of a sequence.
LEMMA FrontFacts ==
  ASSUME NEW S, NEW s \in Seq(S), NEW n \in 0..Len(s)
  PROVE  /\ SubSeq(s, 1, n) \in Seq(S)
         /\ Len(SubSeq(s, 1, n)) = n
         /\ \A i \in 1..n : SubSeq(s, 1, n)[i] = s[i]
         /\ IsPrefix(SubSeq(s, 1, n), s)
  <1>1. n \in Nat /\ Len(s) \in Nat /\ \A i \in 1..n : s[i] \in S
    BY ElementOfSeq
  <1>2. /\ SubSeq(s, 1, n) \in Seq(S)
        /\ Len(SubSeq(s, 1, n)) = n
        /\ \A i \in 1..n : SubSeq(s, 1, n)[i] = s[i]
    BY <1>1, SubSeqProperties
  <1> DEFINE front == SubSeq(s, 1, n)
  <1> HIDE DEF front
  <1>3. front \in Seq(S) /\ Len(front) = n /\ \A i \in 1..n : front[i] = s[i]
    BY <1>2 DEF front
  <1>4. IsPrefix(front, s)
    BY <1>1, <1>3, PrefixPointwise
  <1> QED
    BY <1>2, <1>4 DEF front

\* The log after the lines of a run are added to it.
LEMMA LogGrows ==
  ASSUME NEW lines \in Seq(Lines), NEW o \in Runs
  PROVE  LET longer == lines \o Record(o)
         IN  /\ longer \in Seq(Lines)
             /\ Len(longer) = Len(lines) + 3
             /\ \A i \in 1..Len(lines) : longer[i] = lines[i]
             /\ longer[Len(lines) + 1] = Line("BEGIN", o)
             /\ longer[Len(lines) + 2] = Line("SET", o)
             /\ longer[Len(lines) + 3] = Line("COMMIT", o)
             /\ Holds(longer, o)
  <1> DEFINE longer == lines \o Record(o)
             L == Len(lines)
  <1>1. L \in Nat
    OBVIOUS
  <1>2. /\ longer \in Seq(Lines)
        /\ Len(longer) = L + 3
        /\ \A i \in 1..(L + 3) : longer[i] = IF i <= L THEN lines[i] ELSE Record(o)[i - L]
    BY RecordFacts, ConcatProperties
  <1>3. /\ longer[L + 1] = Line("BEGIN", o)
        /\ longer[L + 2] = Line("SET", o)
        /\ longer[L + 3] = Line("COMMIT", o)
    BY <1>1, <1>2, RecordFacts
  <1>4. \A i \in 1..L : longer[i] = lines[i]
    BY <1>1, <1>2
  <1> HIDE DEF longer
  <1>5. L + 1 \in 1..(Len(longer) - 2) /\ (L + 1) + 1 = L + 2 /\ (L + 1) + 2 = L + 3
    BY <1>1, <1>2
  <1>6. SubSeq(longer, L + 1, (L + 1) + 2) = Record(o)
    BY <1>2, <1>3, <1>5, RecordAt
  <1>7. Holds(longer, o)
    BY <1>5, <1>6 DEF Holds
  <1> QED
    BY <1>2, <1>3, <1>4, <1>7 DEF longer
-----------------------------------------------------------------------------
\* What a power loss can leave in db.txt was there before.
LEMMA ImageFacts ==
  ASSUME db \in Seq(Runs), dbDisk \in Seq(Runs), NEW image \in DbImages
  PROVE  image \in Seq(Runs) /\ Range(image) \subseteq Range(db) \cup Range(dbDisk)
  <1>1. CASE image = dbDisk
    BY <1>1
  <1>2. CASE image # dbDisk
    <2>1. PICK n \in 0..Len(db) : image = SubSeq(db, 1, n)
      BY <1>2 DEF DbImages
    <2>2. /\ image \in Seq(Runs) /\ Len(image) = n
          /\ \A i \in 1..n : image[i] = db[i]
      BY <2>1, FrontFacts
    <2>3. Range(image) = {image[i] : i \in 1..n} /\ Range(db) = {db[i] : i \in 1..Len(db)}
      BY <2>2, RangeEquality
    <2>4. 1..n \subseteq 1..Len(db)
      OBVIOUS
    <2> QED
      BY <2>2, <2>3, <2>4
  <1> QED
    BY <1>1, <1>2

\* The fclose that ends recovery leaves db.txt as it finds it.
LEMMA RecoveryWritesNothing ==
  ASSUME TypeOK, NEW o \in Runs, FinishRecover(o)
  PROVE  db' = db
  <1>1. Replayed(wal) = <<>> /\ db \in Seq(Runs)
    BY ReplaysNothing DEF TypeOK
  <1>2. db' = <<>> \o SubSeq(db, Len(<<>>) + 1, Len(db))
    BY <1>1 DEF FinishRecover
  <1>3. SubSeq(db, Len(<<>>) + 1, Len(db)) = db
    BY <1>1, SubSeqFull
  <1> QED
    BY <1>1, <1>2, <1>3, ConcatEmptySeq

\* What becomes of the two images of the log in a power loss.
LEMMA LogAfterPowerLoss ==
  ASSUME TypeOK, PowerLoss
  PROVE  /\ wal' \in Seq(Lines) /\ walDisk' = wal'
         /\ Len(walDisk) <= Len(wal') /\ Len(wal') <= Len(wal)
         /\ \A i \in 1..Len(wal') : wal'[i] = wal[i]
         /\ \A i \in 1..Len(walDisk) : walDisk[i] = wal'[i]
  <1>1. /\ wal \in Seq(Lines) /\ walDisk \in Seq(Lines)
        /\ Len(walDisk) <= Len(wal) /\ \A i \in 1..Len(walDisk) : walDisk[i] = wal[i]
    BY PrefixPointwise DEF TypeOK
  <1>2. PICK n \in Len(walDisk)..Len(wal) :
          wal' = SubSeq(wal, 1, n) /\ walDisk' = SubSeq(wal, 1, n)
    BY DEF PowerLoss
  <1>3. Len(walDisk) \in Nat /\ Len(wal) \in Nat /\ n \in 0..Len(wal)
    BY <1>1
  <1>4. wal' \in Seq(Lines) /\ Len(wal') = n /\ \A i \in 1..n : wal'[i] = wal[i]
    BY <1>1, <1>2, <1>3, FrontFacts
  <1>5. 1..Len(walDisk) \subseteq 1..n
    BY <1>2, <1>3
  <1> QED
    BY <1>1, <1>2, <1>3, <1>4, <1>5

\* Every step keeps the types, and the part of the log that is on disk a
\* prefix of the log.
LEMMA TypeNext == TypeOK /\ [Next]_vars => TypeOK'
  <1> SUFFICES ASSUME TypeOK, [Next]_vars PROVE TypeOK'
    OBVIOUS
  <1> USE WalAssumption DEF TypeOK, Pcs, Commands, Running, Goto
  <1>1. ASSUME NEW o \in Runs, NEW cmd \in {"write", "write-nosync", "crash-after-wal"},
               StartWrite(o, cmd)
        PROVE  TypeOK'
    BY <1>1 DEF StartWrite
  <1>2. ASSUME NEW o \in Runs, FlushLog(o) PROVE TypeOK'
    <2>1. /\ wal' \in Seq(Lines) /\ Len(wal') = Len(wal) + 3
          /\ \A i \in 1..Len(wal) : wal'[i] = wal[i]
      BY <1>2, LogGrows DEF FlushLog
    <2>2. Len(walDisk) <= Len(wal) /\ \A i \in 1..Len(walDisk) : walDisk[i] = wal[i]
      BY PrefixPointwise
    <2>3. Len(walDisk) <= Len(wal') /\ \A i \in 1..Len(walDisk) : walDisk[i] = wal'[i]
      BY <2>1, <2>2
    <2>4. IsPrefix(walDisk, wal')
      BY <2>1, <2>3, PrefixPointwise
    <2> QED
      BY <1>2, <2>1, <2>4 DEF FlushLog
  <1>3. ASSUME NEW o \in Runs, SyncLog(o) PROVE TypeOK'
    <2>1. IsPrefix(wal, wal)
      BY DEF IsPrefix
    <2> QED
      BY <1>3, <2>1 DEF SyncLog
  <1>4. ASSUME NEW o \in Runs, Apply(o) PROVE TypeOK'
    <2>1. db' \in Seq(Runs)
      <3>1. db' = db \/ db' = Append(db, o)
        BY <1>4 DEF Apply
      <3>2. Append(db, o) \in Seq(Runs)
        BY AppendProperties
      <3> QED
        BY <3>1, <3>2
    <2>2. pc' \in [Runs -> Pcs]
      BY <1>4 DEF Apply
    <2> QED
      BY <1>4, <2>1, <2>2 DEF Apply
  <1>5. ASSUME NEW o \in Runs, StartRecover(o) PROVE TypeOK'
    <2>1. db' \in Seq(Runs)
      BY <1>5, EmptySeq DEF StartRecover
    <2>2. pc' \in [Runs -> Pcs] /\ command' \in [Runs -> Commands]
      BY <1>5 DEF StartRecover
    <2> QED
      BY <1>5, <2>1, <2>2 DEF StartRecover
  <1>6. ASSUME NEW o \in Runs, FinishRecover(o) PROVE TypeOK'
    <2>1. db' = db
      BY <1>6, RecoveryWritesNothing
    <2> QED
      BY <1>6, <2>1 DEF FinishRecover
  <1>7. ASSUME NEW o \in Runs, Kill(o) PROVE TypeOK'
    BY <1>7 DEF Kill
  <1>8. CASE PowerLoss
    <2>1. wal' \in Seq(Lines) /\ walDisk' = wal' /\ IsPrefix(walDisk', wal')
      BY <1>8, LogAfterPowerLoss DEF IsPrefix
    <2>2. db' \in Seq(Runs) /\ dbDisk' \in Seq(Runs)
      BY <1>8, ImageFacts DEF PowerLoss
    <2>3. pc' \in [Runs -> Pcs] /\ command' = command /\ powerLosses' \in 0..MaxPowerLosses
      BY <1>8 DEF PowerLoss
    <2> QED
      BY <2>1, <2>2, <2>3
  <1>9. CASE UNCHANGED vars
    BY <1>9 DEF vars
  <1> QED
    BY <1>1, <1>2, <1>3, <1>4, <1>5, <1>6, <1>7, <1>8, <1>9 DEF Next, Finished

\* No step leaves a COMMIT line without its record in front of it: a flush
\* adds a whole record, a power loss cuts between lines.
LEMMA ContiguousNext == TypeOK /\ RecordsContiguous /\ [Next]_vars => RecordsContiguous'
  <1> SUFFICES ASSUME TypeOK, RecordsContiguous, [Next]_vars,
                      NEW n \in 1..Len(wal'), wal'[n].kind = "COMMIT"
               PROVE  n > 2 /\ SubSeq(wal', n - 2, n) = Record(wal'[n].run)
    BY DEF RecordsContiguous
  <1>1. wal \in Seq(Lines) /\ wal' \in Seq(Lines) /\ Len(wal) \in Nat /\ Len(wal') \in Nat
    BY TypeNext DEF TypeOK
  <1>2. ASSUME n \in 1..Len(wal), \A i \in 1..n : wal'[i] = wal[i]
        PROVE  n > 2 /\ SubSeq(wal', n - 2, n) = Record(wal'[n].run)
    <2> DEFINE o == wal[n].run
               m == n - 2
    <2>1. wal'[n] = wal[n] /\ wal[n].kind = "COMMIT" /\ o \in Runs
      <3>1. n \in 1..n /\ wal[n] \in Lines
        BY <1>1, <1>2, ElementOfSeq
      <3> QED
        BY <1>2, <3>1 DEF Lines
    <2>2. n > 2 /\ SubSeq(wal, m, n) = Record(o)
      BY <2>1, <1>2 DEF RecordsContiguous
    <2>3. m \in 1..(Len(wal) - 2) /\ m \in 1..(Len(wal') - 2) /\ n = m + 2
      BY <1>1, <1>2, <2>2
    <2>4. {m, m + 1, m + 2} \subseteq 1..n
      BY <2>2
    <2>5. SubSeq(wal, m, m + 2) = Record(o)
      BY <2>2, <2>3
    <2>6. SubSeq(wal', m, m + 2) = Record(o)
      BY <1>1, <1>2, <2>1, <2>3, <2>4, <2>5, RecordAt
    <2> QED
      BY <2>1, <2>2, <2>3, <2>6
  <1>3. ASSUME NEW o \in Runs, FlushLog(o)
        PROVE  n > 2 /\ SubSeq(wal', n - 2, n) = Record(wal'[n].run)
    <2> DEFINE L == Len(wal)
    <2>1. /\ Len(wal') = L + 3
          /\ \A i \in 1..L : wal'[i] = wal[i]
          /\ wal'[L + 1] = Line("BEGIN", o)
          /\ wal'[L + 2] = Line("SET", o)
          /\ wal'[L + 3] = Line("COMMIT", o)
      BY <1>1, <1>3, LogGrows DEF FlushLog
    <2>2. CASE n <= L
      BY <1>1, <1>2, <2>1, <2>2
    <2>3. CASE n > L
      <3>1. n \in {L + 1, L + 2, L + 3}
        BY <1>1, <2>1, <2>3
      <3>2. n = L + 3 /\ wal'[n].run = o
        BY <2>1, <3>1 DEF Line
      <3>3. L + 1 \in 1..(Len(wal') - 2) /\ (L + 1) + 1 = L + 2 /\ (L + 1) + 2 = L + 3
        BY <1>1, <2>1
      <3>4. SubSeq(wal', L + 1, (L + 1) + 2) = Record(o)
        BY <1>1, <2>1, <3>3, RecordAt
      <3>5. n > 2 /\ n - 2 = L + 1 /\ n = (L + 1) + 2
        BY <1>1, <3>2
      <3> QED
        BY <3>2, <3>4, <3>5
    <2>4. n <= L \/ n > L
      BY <1>1
    <2> QED
      BY <2>2, <2>3, <2>4
  <1>4. CASE PowerLoss
    <2>1. Len(wal') <= Len(wal) /\ \A i \in 1..Len(wal') : wal'[i] = wal[i]
      BY <1>4, LogAfterPowerLoss
    <2> QED
      BY <1>1, <1>2, <2>1
  <1>5. CASE wal' = wal
    BY <1>2, <1>5
  <1> QED
    BY <1>3, <1>4, <1>5 DEF Next, vars, Finished, StartWrite, SyncLog, Apply, StartRecover,
       FinishRecover, Kill

\* A command and its program counter go together.
LEMMA CommandNext == TypeOK /\ CommandInv /\ [Next]_vars => CommandInv'
  <1> SUFFICES ASSUME TypeOK, CommandInv, [Next]_vars PROVE CommandInv'
    OBVIOUS
  <1> USE DEF TypeOK, CommandInv, Goto, Commands, Pcs
  <1>1. ASSUME NEW o \in Runs, NEW cmd \in {"write", "write-nosync", "crash-after-wal"},
               StartWrite(o, cmd)
        PROVE  CommandInv'
    BY <1>1 DEF StartWrite
  <1>2. ASSUME NEW o \in Runs, FlushLog(o) PROVE CommandInv'
    BY <1>2 DEF FlushLog
  <1>3. ASSUME NEW o \in Runs,
               SyncLog(o) \/ Apply(o) \/ StartRecover(o) \/ FinishRecover(o) \/ Kill(o)
        PROVE  CommandInv'
    BY <1>3 DEF SyncLog, Apply, StartRecover, FinishRecover, Kill
  <1>4. CASE PowerLoss
    BY <1>4 DEF PowerLoss, Running
  <1>5. CASE UNCHANGED vars
    BY <1>5 DEF vars
  <1> QED
    BY <1>1, <1>2, <1>3, <1>4, <1>5 DEF Next, Finished

\* A record that is on disk stays there.
LEMMA DiskKeeps ==
  ASSUME TypeOK, [Next]_vars, NEW o \in Runs, Holds(walDisk, o)
  PROVE  Holds(walDisk', o)
  <1>1. wal \in Seq(Lines) /\ walDisk \in Seq(Lines) /\ walDisk' \in Seq(Lines)
    BY TypeNext DEF TypeOK
  <1>2. CASE walDisk' = walDisk
    BY <1>2
  <1>3. ASSUME NEW u \in Runs, SyncLog(u) PROVE Holds(walDisk', o)
    <2>1. Len(walDisk) <= Len(wal) /\ \A i \in 1..Len(walDisk) : walDisk[i] = wal[i]
      BY <1>1, PrefixPointwise DEF TypeOK
    <2> QED
      BY <1>1, <1>3, <2>1, HoldsLonger DEF SyncLog
  <1>4. CASE PowerLoss
    BY <1>1, <1>4, LogAfterPowerLoss, HoldsLonger
  <1> QED
    BY <1>2, <1>3, <1>4 DEF Next, vars, Finished, StartWrite, FlushLog, Apply, StartRecover,
       FinishRecover, Kill

\* How the program counter and the command of a run change.
LEMMA Progress ==
  ASSUME TypeOK, [Next]_vars, NEW o \in Runs
  PROVE  \/ pc'[o] = pc[o] /\ command'[o] = command[o]
         \/ pc[o] = "unstarted" /\ pc'[o] \in {"buffered", "replaying", "failed"}
         \/ pc'[o] = "failed" /\ command'[o] = command[o]
         \/ FlushLog(o) \/ SyncLog(o) \/ Apply(o) \/ FinishRecover(o)
  BY DEF Next, vars, Finished, StartWrite, FlushLog, SyncLog, Apply, StartRecover,
     FinishRecover, Kill, PowerLoss, Goto, TypeOK

\* A record is with the kernel from fflush to fsync.
LEMMA FlushedNext == TypeOK /\ FlushedInv /\ [Next]_vars => FlushedInv'
  <1> SUFFICES ASSUME TypeOK, FlushedInv, [Next]_vars, NEW o \in Runs, pc'[o] = "flushed"
               PROVE  Holds(wal', o)
    BY DEF FlushedInv
  <1>1. wal \in Seq(Lines) /\ wal' \in Seq(Lines)
    BY TypeNext DEF TypeOK
  <1>2. ASSUME NEW u \in Runs, FlushLog(u) PROVE Holds(wal', o)
    <2>1. /\ wal' = wal \o Record(u) /\ Len(wal') = Len(wal) + 3
          /\ \A i \in 1..Len(wal) : wal'[i] = wal[i]
      BY <1>1, <1>2, LogGrows DEF FlushLog
    <2>2. CASE u = o
      BY <1>1, <2>1, <2>2, LogGrows
    <2>3. CASE u # o
      <3>1. pc[o] = "flushed"
        BY <1>2, <2>3 DEF FlushLog, Goto, TypeOK
      <3>2. Holds(wal, o) /\ Len(wal) <= Len(wal')
        BY <1>1, <2>1, <3>1 DEF FlushedInv
      <3> QED
        BY <1>1, <2>1, <3>2, HoldsLonger
    <2> QED
      BY <2>2, <2>3
  <1>3. ~PowerLoss
    BY DEF PowerLoss, Running, TypeOK
  <1>4. CASE wal' = wal
    <2>1. pc[o] = "flushed"
      <3>1. ASSUME FlushLog(o) PROVE FALSE
        <4>1. wal' = wal \o Record(o) /\ Len(wal') = Len(wal) + 3 /\ Len(wal) \in Nat
          BY <1>1, <3>1, LogGrows DEF FlushLog
        <4> QED
          BY <1>4, <4>1
      <3> QED
        BY <3>1, Progress DEF SyncLog, Apply, FinishRecover, Goto, TypeOK
    <2> QED
      BY <1>4, <2>1 DEF FlushedInv
  <1> QED
    BY <1>2, <1>3, <1>4 DEF Next, vars, Finished, StartWrite, SyncLog, Apply, StartRecover,
       FinishRecover, Kill

\* A run gets past fsync_file only with its record on disk.
LEMMA SyncedNext ==
  TypeOK /\ CommandInv /\ FlushedInv /\ SyncedStays /\ [Next]_vars => SyncedStays'
  <1> SUFFICES ASSUME TypeOK, CommandInv, FlushedInv, SyncedStays, [Next]_vars, NEW o \in Runs,
                      command'[o] \in {"write", "crash-after-wal"},
                      pc'[o] \in {"logged", "done", "crashed"}
               PROVE  Holds(walDisk', o)
    BY DEF SyncedStays
  <1>1. ASSUME command'[o] = command[o], pc[o] \in {"logged", "done", "crashed"}
        PROVE  Holds(walDisk', o)
    BY <1>1, DiskKeeps DEF SyncedStays
  <1>2. ~FlushLog(o) /\ ~FinishRecover(o)
    BY DEF FlushLog, FinishRecover, CommandInv, Goto, TypeOK
  <1>3. ASSUME SyncLog(o) PROVE Holds(walDisk', o)
    BY <1>3 DEF SyncLog, FlushedInv
  <1>4. ASSUME Apply(o) PROVE Holds(walDisk', o)
    BY <1>1, <1>4 DEF Apply
  <1> QED
    BY <1>1, <1>2, <1>3, <1>4, Progress

\* Nothing gets into db.txt but by a run whose record is where it must be.
LEMMA DbNext == TypeOK /\ SyncedStays /\ DbInv /\ [Next]_vars => DbInv'
  <1> SUFFICES ASSUME TypeOK, SyncedStays, DbInv, [Next]_vars, NEW o \in Runs,
                      o \in Range(db') \cup Range(dbDisk')
               PROVE  pc'[o] # "unstarted" /\ (command'[o] = "write" => Holds(walDisk', o))
    BY DEF DbInv
  <1>1. ASSUME o \in Range(db) \cup Range(dbDisk)
        PROVE  pc'[o] # "unstarted" /\ (command'[o] = "write" => Holds(walDisk', o))
    <2>1. pc[o] # "unstarted" /\ (command[o] = "write" => Holds(walDisk, o))
      BY <1>1 DEF DbInv
    <2>2. pc'[o] # "unstarted" /\ command'[o] = command[o]
      BY <2>1, Progress DEF FlushLog, SyncLog, Apply, FinishRecover, Goto, TypeOK
    <2> QED
      BY <2>1, <2>2, DiskKeeps
  <1>2. ASSUME Apply(o)
        PROVE  pc'[o] # "unstarted" /\ (command'[o] = "write" => Holds(walDisk', o))
    <2>1. pc[o] = "logged" /\ pc'[o] # "unstarted" /\ command' = command /\ walDisk' = walDisk
      BY <1>2 DEF Apply, Goto, TypeOK
    <2> QED
      BY <2>1 DEF SyncedStays
  <1>3. ASSUME NEW u \in Runs, Apply(u) PROVE Apply(o) \/ o \in Range(db) \cup Range(dbDisk)
    <2>1. CASE UNCHANGED <<db, dbDisk>>
      BY <2>1
    <2>2. CASE db' = Append(db, u) /\ dbDisk' = dbDisk
      <3>1. db \in Seq(Runs) /\ db' \in Seq(Runs) /\ Len(db') = Len(db) + 1 /\ Len(db) \in Nat
        BY <2>2, AppendProperties DEF TypeOK
      <3>2. Range(db') = {db'[i] : i \in 1..(Len(db) + 1)} /\ Range(db) = {db[i] : i \in 1..Len(db)}
        BY <3>1, RangeEquality
      <3>3. (\A i \in 1..Len(db) : db'[i] = db[i]) /\ db'[Len(db) + 1] = u
        BY <2>2, <3>1, AppendProperties
      <3>4. Range(db') \subseteq Range(db) \cup {u}
        BY <3>1, <3>2, <3>3
      <3> QED
        BY <1>3, <2>2, <3>4
    <2> QED
      BY <1>3, <2>1, <2>2 DEF Apply
  <1>4. ASSUME NEW u \in Runs, StartRecover(u) PROVE o \in Range(db) \cup Range(dbDisk)
    <2>1. Range(<<>>) = {}
      BY DEF Range
    <2> QED
      BY <1>4, <2>1 DEF StartRecover
  <1>5. ASSUME NEW u \in Runs, FinishRecover(u) PROVE o \in Range(db) \cup Range(dbDisk)
    BY <1>5, RecoveryWritesNothing DEF FinishRecover
  <1>6. CASE PowerLoss
    <2>1. o \in Range(db) \cup Range(dbDisk)
      BY <1>6, ImageFacts DEF PowerLoss, TypeOK
    <2> QED
      BY <1>1, <2>1
  <1>7. CASE UNCHANGED <<db, dbDisk>>
    BY <1>1, <1>7
  <1> QED
    BY <1>1, <1>2, <1>3, <1>4, <1>5, <1>6, <1>7 DEF Next, vars, Finished, StartWrite, FlushLog,
       SyncLog, Kill
-----------------------------------------------------------------------------
\* The inductive invariant holds in every behaviour of the programs.
LEMMA IInvHolds == Spec => []IInv
  <1>1. Init => IInv
    <2> SUFFICES ASSUME Init PROVE IInv
      OBVIOUS
    <2>1. TypeOK
      <3>1. wal \in Seq(Lines) /\ walDisk \in Seq(Lines) /\ db \in Seq(Runs) /\ dbDisk \in Seq(Runs)
        BY EmptySeq DEF Init
      <3>2. IsPrefix(walDisk, wal)
        <4>1. walDisk = wal
          BY DEF Init
        <4>2. IsPrefix(wal, wal)
          BY <3>1, PrefixPointwise
        <4> QED
          BY <4>1, <4>2
      <3>3. pc \in [Runs -> Pcs] /\ command \in [Runs -> Commands]
        BY DEF Init, Pcs, Commands
      <3>4. powerLosses \in 0..MaxPowerLosses
        BY WalAssumption DEF Init
      <3> QED
        BY <3>1, <3>2, <3>3, <3>4 DEF TypeOK
    <2>2. Range(<<>>) = {}
      BY DEF Range
    <2>3. DbInv
      BY <2>2 DEF Init, DbInv
    <2> QED
      BY <2>1, <2>3 DEF Init, IInv, RecordsContiguous, CommandInv, SyncedStays, FlushedInv
  <1>2. IInv /\ [Next]_vars => IInv'
    BY TypeNext, ContiguousNext, CommandNext, FlushedNext, SyncedNext, DbNext DEF IInv
  <1> QED
    BY <1>1, <1>2, PTL DEF Spec

\* Every reachable state is well typed, and what is on disk of the log is a
\* prefix of what the kernel has of it.
THEOREM TypeCorrect == Spec => []TypeOK
  BY IInvHolds, PTL DEF IInv

\* However many runs log at once, are killed or lose power, a COMMIT line
\* ends a whole record of one run (lines 41-43).
THEOREM RecordsStayWhole == Spec => []RecordsContiguous
  BY IInvHolds, PTL DEF IInv

\* What was written with fsync stays in the log through any number of power
\* losses (line 45).
THEOREM SyncedIsDurable == Spec => []SyncedStays
  BY IInvHolds, PTL DEF IInv

\* The write-ahead rule (line 45 before line 48): a pair written with fsync
\* is found in db.txt, now or after any power loss, only if its record is on
\* disk.
THEOREM LogGoesFirst == Spec => []WriteAhead
  <1>1. IInv => WriteAhead
    <2> SUFFICES ASSUME IInv, NEW o \in Runs, command[o] = "write",
                        NEW image \in DbImages \cup {db, dbDisk}, o \in Range(image)
                 PROVE  Holds(walDisk, o)
      BY DEF WriteAhead
    <2>1. db \in Seq(Runs) /\ dbDisk \in Seq(Runs)
      BY DEF IInv, TypeOK
    <2>2. o \in Range(db) \cup Range(dbDisk)
      BY <2>1, ImageFacts
    <2> QED
      BY <2>2 DEF IInv, DbInv
  <1> QED
    BY <1>1, IInvHolds, PTL

\* Recovery (lines 109-155) restores nothing, whatever the log holds: no
\* step that ends one puts a pair into db.txt.
THEOREM RecoveryRestoresNothing == Spec => [][\A o \in Runs : FinishRecover(o) => db' = db]_vars
  <1>1. IInv => TypeOK
    BY DEF IInv
  <1>2. TypeOK /\ [Next]_vars => [\A o \in Runs : FinishRecover(o) => db' = db]_vars
    BY RecoveryWritesNothing
  <1> QED
    BY <1>1, <1>2, IInvHolds, PTL DEF Spec
=============================================================================
