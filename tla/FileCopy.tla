------------------------------- MODULE FileCopy -------------------------------
(***************************************************************************)
(* The file copy of src/file-copy.c.  read and write may move fewer bytes  *)
(* than asked for, may fail, and may be interrupted; read_all and          *)
(* write_all loop over them (an interrupted call is repeated and changes   *)
(* nothing).  The bytes of the source are numbered, so that dst shows      *)
(* which ones arrived and where.                                           *)
(***************************************************************************)
EXTENDS Integers, Sequences

CONSTANTS
    Sizes,      \* sizes the source file may have
    BUF         \* sizeof(buf)

VARIABLES
    size,       \* of the source
    at,         \* read, write, sizes, compare, verified, mismatch or failed
    offset,     \* of src_fd
    buf,        \* what read_all has read
    written,    \* how much of it write_all has written
    dst         \* the destination file

vars == <<size, at, offset, buf, written, dst>>

Source  == [b \in 1..size |-> b]
Least(a, b) == IF a < b THEN a ELSE b

Init ==
    /\ size \in Sizes
    /\ at = "read"
    /\ offset = 0
    /\ buf = <<>>
    /\ written = 0
    /\ dst = <<>>

\* read returns n bytes: read_all asks for the rest of the buffer, or is done.
ReadSome(n) ==
    /\ at = "read"
    /\ buf' = buf \o SubSeq(Source, offset + 1, offset + n)
    /\ offset' = offset + n
    /\ at' = IF Len(buf') = BUF THEN "write" ELSE "read"
    /\ UNCHANGED <<size, written, dst>>

\* read returns 0: read_all returns what it has, and main writes it or, if
\* it is nothing, leaves the loop.
ReadEnd ==
    /\ at = "read"
    /\ offset = size
    /\ at' = IF buf = <<>> THEN "sizes" ELSE "write"
    /\ UNCHANGED <<size, offset, buf, written, dst>>

\* write takes n bytes of what is left; when all are out main reads on.  The
\* mutant takes a short write for the whole.
WriteShort(n) ==
    /\ at = "write"
    /\ dst' = dst \o SubSeq(buf, written + 1, written + n)
    /\ at' = "read"
    /\ buf' = <<>>
    /\ written' = 0
    /\ UNCHANGED <<size, offset>>
WriteSome(n) ==
    /\ at = "write"
    /\ dst' = dst \o SubSeq(buf, written + 1, written + n)
    /\ IF written + n = Len(buf)
         THEN at' = "read" /\ buf' = <<>> /\ written' = 0
         ELSE written' = written + n /\ UNCHANGED <<at, buf>>
    /\ UNCHANGED <<size, offset>>

\* read or write fails: main closes both files and returns.
Fail ==
    /\ at \in {"read", "write"}
    /\ at' = "failed"
    /\ UNCHANGED <<size, offset, buf, written, dst>>

\* The two lseek to the end.
CompareSizes ==
    /\ at = "sizes"
    /\ at' = IF Len(dst) = size THEN "compare" ELSE "mismatch"
    /\ UNCHANGED <<size, offset, buf, written, dst>>

\* The loop that compares byte by byte.  dst_fd is open for writing only, so
\* its first read fails, the loop ends, and the success message follows.
CompareBytes ==
    /\ at = "compare"
    /\ at' = "verified"
    /\ UNCHANGED <<size, offset, buf, written, dst>>

Next ==
    \/ \E n \in 1..Least(BUF - Len(buf), size - offset) : ReadSome(n)
    \/ ReadEnd
    \/ \E n \in 1..(Len(buf) - written) : WriteSome(n)
    \/ Fail
    \/ CompareSizes
    \/ CompareBytes

Ended == at \in {"verified", "mismatch", "failed"}
-----------------------------------------------------------------------------
TypeOK ==
    /\ size \in Sizes
    /\ at \in {"read", "write", "sizes", "compare", "verified", "mismatch", "failed"}
    /\ offset \in 0..size
    /\ buf \in Seq(1..size) /\ Len(buf) <= BUF
    /\ written \in 0..BUF
    /\ dst \in Seq(1..size)

\* Short reads and short writes lose, repeat and reorder nothing (lines
\* 10-47, 76-85), so the success message at line 128 is true although the
\* comparison before it (lines 114-124) never reads a byte of the copy.
CopyExact ==
    /\ dst \o SubSeq(buf, written + 1, Len(buf)) = SubSeq(Source, 1, offset)
    /\ at # "mismatch"
    /\ at \in {"compare", "verified"} => dst = Source
=============================================================================
