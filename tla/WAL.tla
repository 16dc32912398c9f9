--------------------------------- MODULE WAL ---------------------------------
(***************************************************************************)
(* The write-ahead log of src/WAL-demo.c.  Every command is a process of   *)
(* its own; several may run at the same time, any of them may be killed at *)
(* any point, and the machine may lose power.                              *)
(*                                                                         *)
(* A run o of the program stands for the key and value on its command      *)
(* line.  A log line is BEGIN, SET or COMMIT of such a run (the id in the  *)
(* text is 1 in every process and recovery skips it), a line of db.txt is  *)
(* the run whose pair it holds.  fprintf fills the stdio buffer of the     *)
(* process and fflush or fclose hands all of it to the kernel in one       *)
(* write; a killed process loses its buffer and nothing else.  A power     *)
(* loss keeps of a file at least what was on disk and at most what the     *)
(* kernel had, cut between two lines.                                      *)
(***************************************************************************)
EXTENDS Integers, Sequences, SequencesExt

CONSTANTS
    Runs,           \* invocations of the program
    MaxPowerLosses  \* bound: how often the machine loses power

ASSUME WalAssumption == MaxPowerLosses \in Nat

VARIABLES
    pc,         \* per run: how far it got
    command,    \* per run: argv[1]
    wal,        \* wal.log as the kernel has it
    walDisk,    \* the part of it that is on disk for sure
    db,         \* db.txt as the kernel has it
    dbDisk,     \* what was on disk of db.txt when power last came back
    powerLosses

vars == <<pc, command, wal, walDisk, db, dbDisk, powerLosses>>

Commands == {"none", "write", "write-nosync", "crash-after-wal", "recover"}

\* unstarted: not invoked yet
\* buffered : the three lines are in the stdio buffer, lines 41-43, 62-64, 83-85
\* flushed  : they are in the kernel, inside fsync_file, line 28
\* logged   : the log is closed, about to apply, lines 48, 69
\* replaying: recover has truncated db.txt and reads the log, lines 132-151
\* done     : returned after the whole work
\* failed   : returned early because a file would not open, or killed
\* crashed  : exit(1) of crash_after_wal
Pcs == {"unstarted", "buffered", "flushed", "logged", "replaying", "done",
        "failed", "crashed"}
Running == {"buffered", "flushed", "logged", "replaying"}

Lines         == [kind : {"BEGIN", "SET", "COMMIT"}, run : Runs]
Line(kind, o) == [kind |-> kind, run |-> o]
Record(o)     == <<Line("BEGIN", o), Line("SET", o), Line("COMMIT", o)>>

Goto(o, label) == pc' = [pc EXCEPT ![o] = label]
-----------------------------------------------------------------------------
Init ==
    /\ pc = [o \in Runs |-> "unstarted"]
    /\ command = [o \in Runs |-> "none"]
    /\ wal = <<>> /\ walDisk = <<>>
    /\ db = <<>> /\ dbDisk = <<>>
    /\ powerLosses = 0

\* main picks the command; a writer opens the log and fills its buffer, or
\* returns if the log would not open.
StartWrite(o, cmd) ==
    /\ pc[o] = "unstarted"
    /\ command' = [command EXCEPT ![o] = cmd]
    /\ Goto(o, "buffered") \/ Goto(o, "failed")
    /\ UNCHANGED <<wal, walDisk, db, dbDisk, powerLosses>>

\* Mutants of FlushLog: the log is opened with "w"; the pair is applied
\* before the log is synced; every line is a write of its own.
FlushLogTruncates(o) ==
    /\ pc[o] = "buffered"
    /\ wal' = Record(o)
    /\ Goto(o, IF command[o] = "write-nosync" THEN "logged" ELSE "flushed")
    /\ UNCHANGED <<command, walDisk, db, dbDisk, powerLosses>>
FlushLogNoSync(o) ==
    /\ pc[o] = "buffered"
    /\ wal' = wal \o Record(o)
    /\ Goto(o, "logged")
    /\ UNCHANGED <<command, walDisk, db, dbDisk, powerLosses>>
FlushLogByLine(o) ==
    LET written == Len(SelectSeq(wal, LAMBDA l : l.run = o))
    IN  /\ pc[o] = "buffered"
        /\ wal' = Append(wal, Record(o)[written + 1])
        /\ IF written < 2 THEN UNCHANGED pc
           ELSE Goto(o, IF command[o] = "write-nosync" THEN "logged" ELSE "flushed")
        /\ UNCHANGED <<command, walDisk, db, dbDisk, powerLosses>>

\* fflush of fsync_file, or the fclose of the variant without fsync.
FlushLog(o) ==
    /\ pc[o] = "buffered"
    /\ wal' = wal \o Record(o)
    /\ Goto(o, IF command[o] = "write-nosync" THEN "logged" ELSE "flushed")
    /\ UNCHANGED <<command, walDisk, db, dbDisk, powerLosses>>

\* Mutant of SyncLog: fsync_file only flushes.
SyncLogNothing(o) ==
    /\ pc[o] = "flushed"
    /\ Goto(o, IF command[o] = "crash-after-wal" THEN "crashed" ELSE "logged")
    /\ UNCHANGED <<command, wal, walDisk, db, dbDisk, powerLosses>>

\* fsync puts the whole file on disk, lines of other runs included.
SyncLog(o) ==
    /\ pc[o] = "flushed"
    /\ walDisk' = wal
    /\ Goto(o, IF command[o] = "crash-after-wal" THEN "crashed" ELSE "logged")
    /\ UNCHANGED <<command, wal, db, dbDisk, powerLosses>>

\* apply_transaction_to_db, which appends one line or gives up.
Apply(o) ==
    /\ pc[o] = "logged"
    /\ \/ /\ db' = Append(db, o)
          /\ Goto(o, "done")
       \/ /\ Goto(o, "failed")
          /\ UNCHANGED db
    /\ UNCHANGED <<command, wal, walDisk, dbDisk, powerLosses>>

\* recover_from_wal up to the loop: db.txt is emptied as soon as both files
\* are open.
StartRecover(o) ==
    /\ pc[o] = "unstarted"
    /\ command' = [command EXCEPT ![o] = "recover"]
    /\ \/ /\ db' = <<>>
          /\ Goto(o, "replaying")
       \/ /\ Goto(o, "failed")
          /\ UNCHANGED db
    /\ UNCHANGED <<wal, walDisk, dbDisk, powerLosses>>

\* What the three calls of sscanf return for a line.  "TRANSACTION %*d ..."
\* assigns nothing, so the result is 0 for a line that matches and for a
\* line that stops matching anywhere; "SET %s %s" assigns two.
scan_begin(line)  == 0
scan_set(line)    == IF line.kind = "SET" THEN 2 ELSE 0
scan_commit(line) == 0

\* One turn of the loop of recover_from_wal.  current_key and current_value
\* are one run, and no run at all before the first SET is scanned.
ReplayLine(acc, line) ==
    IF scan_begin(line) = 0
      THEN [acc EXCEPT !.in_transaction = TRUE]
    ELSE IF scan_set(line) = 2
      THEN [acc EXCEPT !.current = <<line.run>>]
    ELSE IF scan_commit(line) = 0 /\ acc.in_transaction
      THEN [acc EXCEPT !.output = @ \o acc.current, !.in_transaction = FALSE]
    ELSE acc

Replayed(lines) ==
    LET loop[n \in 0..Len(lines)] ==
          IF n = 0 THEN [in_transaction |-> FALSE, current |-> <<>>, output |-> <<>>]
          ELSE ReplayLine(loop[n - 1], lines[n])
    IN  loop[Len(lines)].output

\* The fclose that ends recovery writes the replayed pairs from offset 0 on,
\* over what other runs may have appended meanwhile.
FinishRecover(o) ==
    /\ pc[o] = "replaying"
    /\ db' = LET output == Replayed(wal)
             IN  output \o SubSeq(db, Len(output) + 1, Len(db))
    /\ Goto(o, "done")
    /\ UNCHANGED <<command, wal, walDisk, dbDisk, powerLosses>>

\* The process is killed.
Kill(o) ==
    /\ pc[o] \in Running
    /\ Goto(o, "failed")
    /\ UNCHANGED <<command, wal, walDisk, db, dbDisk, powerLosses>>

\* What can be left of db.txt, which nobody ever syncs: some of what the
\* kernel had, or, if it was truncated since, what was there before.
DbImages ==
    {image \in {SubSeq(db, 1, n) : n \in 0..Len(db)} :
        IsPrefix(dbDisk, db) => IsPrefix(dbDisk, image)} \cup
    (IF IsPrefix(dbDisk, db) THEN {} ELSE {dbDisk})

PowerLoss ==
    /\ powerLosses < MaxPowerLosses
    /\ powerLosses' = powerLosses + 1
    /\ \E n \in Len(walDisk)..Len(wal) :
         wal' = SubSeq(wal, 1, n) /\ walDisk' = SubSeq(wal, 1, n)
    /\ \E image \in DbImages : db' = image /\ dbDisk' = image
    /\ pc' = [o \in Runs |-> IF pc[o] \in Running THEN "failed" ELSE pc[o]]
    /\ UNCHANGED command

\* Nothing more is run.
Finished ==
    /\ \A o \in Runs : pc[o] \notin Running \cup {"unstarted"}
    /\ UNCHANGED vars

Next ==
    \/ \E o \in Runs :
        \/ \E cmd \in {"write", "write-nosync", "crash-after-wal"} : StartWrite(o, cmd)
        \/ FlushLog(o)
        \/ SyncLog(o)
        \/ Apply(o)
        \/ StartRecover(o)
        \/ FinishRecover(o)
        \/ Kill(o)
    \/ PowerLoss
    \/ Finished

Spec == Init /\ [][Next]_vars
-----------------------------------------------------------------------------
TypeOK ==
    /\ pc \in [Runs -> Pcs]
    /\ command \in [Runs -> Commands]
    /\ wal \in Seq(Lines)
    /\ walDisk \in Seq(Lines)
    /\ IsPrefix(walDisk, wal)
    /\ db \in Seq(Runs)
    /\ dbDisk \in Seq(Runs)
    /\ powerLosses \in 0..MaxPowerLosses

Holds(lines, o) == \E n \in 1..(Len(lines) - 2) : SubSeq(lines, n, n + 2) = Record(o)

\* The write-ahead rule: a pair written with fsync is in db.txt, or can be
\* found there after a power loss, only if its whole record is on disk
\* (line 45 comes before line 48), whatever other runs and power losses do.
WriteAhead ==
    \A o \in Runs :
        (command[o] = "write" /\ \E image \in DbImages \cup {db, dbDisk} : o \in Range(image))
            => Holds(walDisk, o)

\* Line 45, "force write to disk": what write reported as done stays in the
\* log for ever after, through any number of power losses.
SyncedStays ==
    \A o \in Runs :
        (command[o] \in {"write", "crash-after-wal"} /\ pc[o] \in {"logged", "done", "crashed"})
            => Holds(walDisk, o)

\* Runs that log at the same time, are killed, or lose power leave no mixed
\* records: a COMMIT line closes the BEGIN and SET lines right before it, of
\* the same run, which the single current_key of recovery relies on.
RecordsContiguous ==
    \A n \in 1..Len(wal) :
        wal[n].kind = "COMMIT" =>
            n > 2 /\ SubSeq(wal, n - 2, n) = Record(wal[n].run)

\* The pairs of the committed transactions of the log, in its order.
Committed(lines) ==
    [n \in 1..Len(SelectSeq(lines, LAMBDA l : l.kind = "COMMIT")) |->
        SelectSeq(lines, LAMBDA l : l.kind = "COMMIT")[n].run]

\* Line 108, "Recover committed transactions from WAL": a recovery that runs
\* alone leaves exactly the committed pairs in db.txt.
RecoverRestores ==
    [][\A o \in Runs :
         (FinishRecover(o) /\ \A u \in Runs \ {o} : pc[u] \notin Running)
         => db' = Committed(wal)]_vars
=============================================================================
