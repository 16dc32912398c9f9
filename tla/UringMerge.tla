------------------------------ MODULE UringMerge ------------------------------
(***************************************************************************)
(* The file merger of                                                      *)
(* src/reads-from-multiple-files-asynchronously-io_uring.c: one read per   *)
(* input file is queued, all are submitted at once, the kernel completes   *)
(* them in any order, and each is written to the output as it completes.   *)
(* The results of io_uring_submit and io_uring_wait_cqe are not looked at. *)
(***************************************************************************)
EXTENDS Integers, SequencesExt, FiniteSets

CONSTANTS
    FILES,          \* bound on the number of input files
    QUEUE_DEPTH     \* entries of the submission queue

VARIABLES
    num_files,          \* input files named on the command line
    merger,             \* queueing, waiting, done or aborted
    file_index,         \* next file to queue
    skipped,            \* files that would not open
    queue,              \* prepared and not yet submitted
    inFlight,           \* with the kernel
    completions,        \* completed and not yet seen: file and outcome
    completed_files,    \* iterations of the second loop
    openFds,            \* input files open, their buffers and requests allocated
    failed,             \* files not merged because a read or write failed
    output              \* files merged, in order

vars == <<num_files, merger, file_index, skipped, queue, inFlight, completions,
          completed_files, openFds, failed, output>>

Files == 1..num_files

Init ==
    /\ num_files \in 1..FILES
    /\ merger = "queueing"
    /\ file_index = 1
    /\ skipped = {} /\ queue = {} /\ inFlight = {} /\ openFds = {} /\ failed = {}
    /\ completions = <<>> /\ output = <<>>
    /\ completed_files = 0

\* open or fstat fails: the file is skipped, and closed again.
Skip ==
    /\ merger = "queueing" /\ file_index <= num_files
    /\ skipped' = skipped \cup {file_index}
    /\ file_index' = file_index + 1
    /\ UNCHANGED <<num_files, merger, queue, inFlight, completions, completed_files, openFds,
                   failed, output>>

QueueRead ==
    /\ merger = "queueing" /\ file_index <= num_files
    /\ Cardinality(queue) < QUEUE_DEPTH
    /\ queue' = queue \cup {file_index}
    /\ openFds' = openFds \cup {file_index}
    /\ file_index' = file_index + 1
    /\ UNCHANGED <<num_files, merger, skipped, inFlight, completions, completed_files, failed, output>>

\* No submission entry is left, since nothing is submitted yet: exit.
NoEntry ==
    /\ merger = "queueing" /\ file_index <= num_files
    /\ Cardinality(queue) = QUEUE_DEPTH
    /\ merger' = "aborted"
    /\ UNCHANGED <<num_files, file_index, skipped, queue, inFlight, completions, completed_files,
                   openFds, failed, output>>

\* aligned_alloc fails: exit, with requests prepared that nobody submits.
NoMemory ==
    /\ merger = "queueing" /\ file_index <= num_files
    /\ merger' = "aborted"
    /\ UNCHANGED <<num_files, file_index, skipped, queue, inFlight, completions, completed_files,
                   openFds, failed, output>>

\* io_uring_submit takes the requests in order, all of them or, when it
\* fails, the first few; main goes on to wait for every one.
Submit ==
    /\ merger = "queueing" /\ file_index > num_files
    /\ merger' = "waiting"
    /\ \E last \in 0..num_files :
         /\ inFlight' = {f \in queue : f <= last}
         /\ queue' = {f \in queue : f > last}
    /\ UNCHANGED <<num_files, file_index, skipped, completions, completed_files, openFds,
                   failed, output>>

\* The kernel finishes a read.
Complete(f) ==
    /\ f \in inFlight
    /\ inFlight' = inFlight \ {f}
    /\ \E ok \in BOOLEAN : completions' = Append(completions, [file |-> f, ok |-> ok])
    /\ UNCHANGED <<num_files, merger, file_index, skipped, queue, completed_files,
                   openFds, failed, output>>

\* An iteration of the second loop: the contents go to the output if the
\* read succeeded and the write does; the request is given back.  The mutant
\* looks at the completion and does not mark it as seen.
NotSeen == completions
Seen    == Tail(completions)

Handle ==
    LET entry == Head(completions)
    IN  /\ merger = "waiting" /\ completed_files < num_files
        /\ completions # <<>>
        /\ \/ entry.ok /\ output' = Append(output, entry.file) /\ UNCHANGED failed
           \/ failed' = failed \cup {entry.file} /\ UNCHANGED output
        /\ completions' = Seen
        /\ openFds' = openFds \ {entry.file}
        /\ completed_files' = completed_files + 1
        /\ UNCHANGED <<num_files, merger, file_index, skipped, queue, inFlight>>

\* io_uring_wait_cqe fails and leaves no entry to look at: the end of main.
WaitFails ==
    /\ merger = "waiting" /\ completed_files < num_files
    /\ merger' = "aborted"
    /\ UNCHANGED <<num_files, file_index, skipped, queue, inFlight, completions, completed_files,
                   openFds, failed, output>>

Finish ==
    /\ merger = "waiting" /\ completed_files = num_files
    /\ merger' = "done"
    /\ UNCHANGED <<num_files, file_index, skipped, queue, inFlight, completions, completed_files,
                   openFds, failed, output>>

Main == Skip \/ QueueRead \/ NoEntry \/ NoMemory \/ Submit \/ Handle \/ Finish

\* What goes on without failure of a wait, which nobody may count on.
Progress == Main \/ \E f \in Files : Complete(f)

Next == Progress \/ WaitFails

Ended == merger \in {"done", "aborted"}

\* The loop counts the arguments, skipped ones included: it waits for
\* completions of files that were never submitted.
Starved ==
    /\ merger = "waiting" /\ skipped \cup queue # {}
    /\ completed_files + Cardinality(skipped) + Cardinality(queue) = num_files
-----------------------------------------------------------------------------
TypeOK ==
    /\ num_files \in 1..FILES
    /\ merger \in {"queueing", "waiting", "done", "aborted"}
    /\ file_index \in 1..(num_files + 1)
    /\ skipped \subseteq Files /\ queue \subseteq Files /\ inFlight \subseteq Files
    /\ completions \in Seq([file : Files, ok : BOOLEAN])
    /\ completed_files \in 0..num_files

Completed == {completions[i].file : i \in DOMAIN completions}

\* A request has one owner at a time (lines 50-139): the queue, the kernel or
\* the completion queue; its buffer is freed only when none of them has it,
\* each file is merged once or not at all, and the program ends by itself
\* only when every file was submitted and given back.
RequestsOwned ==
    /\ openFds = queue \cup inFlight \cup Completed
    /\ Cardinality(openFds) = Cardinality(queue) + Cardinality(inFlight) + Len(completions)
    /\ IsInjective(output) /\ Range(output) \cap (failed \cup openFds \cup skipped) = {}
    /\ merger = "done" => openFds = {} /\ skipped = {} /\ Range(output) \cup failed = Files
=============================================================================
