----------------------------- MODULE FileTransfer -----------------------------
(***************************************************************************)
(* The file transfer of src/file-transfer: sender.c and receiver.c joined  *)
(* by two FIFOs.  The sender writes the file in chunks, then the marker,   *)
(* and waits for an answer; the receiver reads until what it has read      *)
(* begins with the marker.  A FIFO is a stream: a read returns what is     *)
(* there, up to MAX bytes, whatever writes it came from.  A chunk fits     *)
(* into PIPE_BUF, so a write is one step, and the pipe never fills up.     *)
(* The FIFOs exist; nobody is killed but by SIGPIPE.  What the sender      *)
(* sends it asks its user for, who may take any time, or for ever.         *)
(***************************************************************************)
EXTENDS Integers, SequencesExt

CONSTANTS
    MAX,            \* size of the two buffers
    FilesToSend     \* as sequences of characters

VARIABLES
    file,       \* the one that is sent
    opened,     \* FIFOs both ends have opened
    sender,     \* opening, named, sending, waiting, done, or dead
    receiver,   \* opening, reading, answering, done, or dead
    sent,       \* bytes of the file the sender has written
    fifo1,      \* bytes written and not yet read
    buffer,     \* of the receiver; a short read leaves its tail as it was
    received    \* what the receiver has written to its file

vars == <<file, opened, sender, receiver, sent, fifo1, buffer, received>>

Marker == <<"E", "O", "F", "0">>

\* The order in which each side opens its FIFOs; the mutant has the receiver
\* open the other one first.
OpensAnswerFirst == <<"fifo2", "fifo1">>
ReceiverOpens    == <<"fifo1", "fifo2">>
SenderOpens      == <<"fifo1", "fifo2">>

Init ==
    /\ file \in FilesToSend
    /\ opened = 0
    /\ sender = "opening" /\ receiver = "opening"
    /\ sent = 0
    /\ fifo1 = <<>>
    /\ buffer = [b \in 1..MAX |-> "?"]
    /\ received = <<>>

\* open of a FIFO returns when the other side opens it too.
OpenFifo ==
    /\ opened < 2
    /\ SenderOpens[opened + 1] = ReceiverOpens[opened + 1]
    /\ opened' = opened + 1
    /\ UNCHANGED <<file, sender, receiver, sent, fifo1, buffer, received>>

\* With both FIFOs open the sender is at its prompt, blocked in scanf.
Prompting == opened = 2 /\ sender = "opening"

\* The user types the name of the file.
TypeName ==
    /\ Prompting
    /\ sender' = "named"
    /\ UNCHANGED <<file, opened, receiver, sent, fifo1, buffer, received>>

\* The sender opens its file, or cannot, and exits.
SenderStarts ==
    /\ sender = "named"
    /\ sender' \in {"sending", "dead"}
    /\ UNCHANGED <<file, opened, receiver, sent, fifo1, buffer, received>>

\* The receiver creates its file, or cannot, and exits.
ReceiverStarts ==
    /\ opened = 2 /\ receiver = "opening"
    /\ receiver' \in {"reading", "dead"}
    /\ UNCHANGED <<file, opened, sender, sent, fifo1, buffer, received>>

\* What is left of the stream the sender is to write.
ToSend == SubSeq(file, sent + 1, Len(file))

\* The next chunk of the file or, after the last one, the marker.  Without a
\* reader the write is the end of the sender.
SendChunk ==
    /\ sender = "sending"
    /\ IF receiver \in {"done", "dead"}
         THEN sender' = "dead" /\ UNCHANGED <<fifo1, sent>>
       ELSE IF ToSend = <<>>
         THEN sender' = "waiting" /\ fifo1' = fifo1 \o Marker /\ UNCHANGED sent
       ELSE LET n == IF Len(ToSend) < MAX THEN Len(ToSend) ELSE MAX
            IN  fifo1' = fifo1 \o SubSeq(ToSend, 1, n) /\ sent' = sent + n /\ UNCHANGED sender
    /\ UNCHANGED <<file, opened, receiver, buffer, received>>

\* The mutant drops the bytes of a read that is shorter than the buffer.
KeepFull(got) == IF Len(got) = MAX THEN received \o got ELSE received
Keep(got)     == received \o got

\* A read, and the comparison of the first three bytes of the buffer.
Receive ==
    LET n   == IF Len(fifo1) < MAX THEN Len(fifo1) ELSE MAX
        got == SubSeq(fifo1, 1, n)
    IN  /\ receiver = "reading"
        /\ fifo1 # <<>>
        /\ fifo1' = SubSeq(fifo1, n + 1, Len(fifo1))
        /\ buffer' = got \o SubSeq(buffer, n + 1, MAX)
        /\ IF SubSeq(buffer', 1, 3) = SubSeq(Marker, 1, 3)
             THEN receiver' = "answering" /\ UNCHANGED received
             ELSE received' = Keep(got) /\ UNCHANGED receiver
        /\ UNCHANGED <<file, opened, sender, sent>>

\* The stream is empty and the sender is gone: read returns 0.
ReceiveEnd ==
    /\ receiver = "reading"
    /\ fifo1 = <<>> /\ sender = "dead"
    /\ receiver' = "answering"
    /\ UNCHANGED <<file, opened, sender, sent, fifo1, buffer, received>>

\* The receiver answers and closes its files; without a reader it dies first.
Answer ==
    /\ receiver = "answering"
    /\ receiver' = IF sender = "dead" THEN "dead" ELSE "done"
    /\ UNCHANGED <<file, opened, sender, sent, fifo1, buffer, received>>

\* read returns the answer, or nothing if the receiver is gone without one.
GetAnswer ==
    /\ sender = "waiting" /\ receiver \in {"done", "dead"}
    /\ sender' = "done"
    /\ UNCHANGED <<file, opened, receiver, sent, fifo1, buffer, received>>

\* What the two processes do by themselves.
Processes ==
    \/ OpenFifo \/ SenderStarts \/ ReceiverStarts
    \/ SendChunk \/ Receive \/ ReceiveEnd \/ Answer \/ GetAnswer

Next == TypeName \/ Processes

\* No name is typed yet: the sender is in scanf, and the receiver, if it
\* could create its file, in read.
Unnamed == Prompting /\ receiver # "opening"

Ended == sender \in {"done", "dead"} /\ receiver \in {"done", "dead"}

\* The marker came behind data in one read, or in two pieces: the receiver
\* took it for data, and the two wait for each other.
Glued == sender = "waiting" /\ receiver = "reading" /\ received = file \o Marker
-----------------------------------------------------------------------------
TypeOK ==
    /\ file \in FilesToSend
    /\ opened \in 0..2
    /\ sender \in {"opening", "named", "sending", "waiting", "done", "dead"}
    /\ receiver \in {"opening", "reading", "answering", "done", "dead"}
    /\ sent \in 0..Len(file)
    /\ Len(buffer) = MAX

\* The stream keeps every byte in order however reads and writes overlap
\* (sender.c lines 32-39, receiver.c lines 28-34), and a file in which no
\* marker can begin arrives whole whenever the receiver says it did.
TransferExact ==
    /\ receiver = "reading" /\ sender # "dead" =>
         received \o fifo1 \o ToSend \o (IF sender = "waiting" THEN <<>> ELSE Marker)
           = file \o Marker
    /\ receiver = "done" /\ "E" \notin Range(file) => received = file
    /\ IsPrefix(received, file \o Marker)
=============================================================================
