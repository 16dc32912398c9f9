----------------------------- MODULE MCProcesses -----------------------------
(***************************************************************************)
(* The programs of the collection that come to an end, or answer, by       *)
(* themselves, side by side: the user starts one of them, prog, and the    *)
(* state of the others stays at its initial value.  Their processes,       *)
(* threads and the kernel are fair, so that what must happen can be        *)
(* checked too.                                                            *)
(***************************************************************************)
EXTENDS Integers, Sequences, FiniteSets

CONSTANTS
    Producers, Consumers, BUFFER_SIZE, ITEMS_TO_PRODUCE, NoThread,
    Sizes, BUF,
    WORKER_COUNT, MaxSize, Nobody,
    MAX, FilesToSend,
    FILES, QUEUE_DEPTH,
    Clients, None,
    NUM_CHILDREN, MaxSignals,
    num_records, Ages, filterage,
    WORKERS, ITERATIONS

VARIABLES
    prog,
    buffer, in, out, count, not_full, not_empty, mutex, pc, i, produced, consumed,
    size, copying, offset, buf, written, dst,
    text, stage, local_count, loaded, count_mutex, global_word_count,
    file, opened, sender, receiver, sent, fifo1, chunk, received,
    num_files, merger, file_index, skipped, queue, inFlight, completions, completed_files,
    openFds, failed, output,
    mode, up, client_sock, waits, peer, conn, message, echo, got, handler, socket, peak,
    status, children, forked, pending, handlers, signalled, interrupted,
    records, searching, printed, left, right, result,
    way, creator, turn, done, value, lock, counter, counters, total

Queue    == INSTANCE BoundedQueue
Copy     == INSTANCE FileCopy WITH at <- copying
Words    == INSTANCE WordCount
Transfer == INSTANCE FileTransfer WITH buffer <- chunk
Merge    == INSTANCE UringMerge
Mini     == INSTANCE MiniServer
Jobs     == INSTANCE JobController WITH sent <- signalled
Filter   == INSTANCE FilterSearch WITH at <- searching
Counters == INSTANCE SharedCounters WITH stage <- turn, i <- done, loaded <- value

\* What the modules above expect of their constants.
ASSUME ConstantsAssumption ==
    /\ Sizes \subseteq Nat /\ BUF \in Nat \ {0}
    /\ WORKER_COUNT \in Nat \ {0} /\ MaxSize \in Nat
    /\ Nobody \notin 0..(WORKER_COUNT - 1)
    /\ MAX \in Nat /\ MAX >= 3 /\ FilesToSend \subseteq Seq(STRING)
    /\ {FILES, QUEUE_DEPTH, NUM_CHILDREN} \subseteq Nat \ {0}
    /\ MaxSignals \in Nat
    /\ None \notin Clients /\ IsFiniteSet(Clients)
    /\ Filter!SizesOK
    /\ {WORKERS, ITERATIONS} \subseteq Nat /\ Nobody \notin 1..WORKERS
    /\ Producers \cap Consumers = {} /\ NoThread \notin Producers \cup Consumers
    /\ {BUFFER_SIZE, ITEMS_TO_PRODUCE} \subseteq Nat \ {0}

queueVars    == <<buffer, in, out, count, not_full, not_empty, mutex, pc, i, produced, consumed>>
copyVars     == <<size, copying, offset, buf, written, dst>>
wordVars     == <<text, stage, local_count, loaded, count_mutex, global_word_count>>
transferVars == <<file, opened, sender, receiver, sent, fifo1, chunk, received>>
mergeVars    == <<num_files, merger, file_index, skipped, queue, inFlight, completions, completed_files,
                  openFds, failed, output>>
miniVars     == <<mode, up, client_sock, waits, peer, conn, message, echo, got, handler, socket, peak>>
jobVars      == <<status, children, forked, pending, handlers, signalled, interrupted>>
filterVars   == <<records, searching, printed, left, right, result>>
countVars    == <<way, creator, turn, done, value, lock, counter, counters, total>>
vars == <<prog, queueVars, copyVars, wordVars, transferVars, mergeVars, miniVars, jobVars, filterVars,
          countVars>>

\* A program that is not started is in one initial state only.
Init ==
    /\ prog \in {"queue", "copy", "words", "transfer", "merge", "mini", "jobs", "filter",
                 "count"}
    /\ Queue!Init /\ Jobs!Init
    /\ Copy!Init /\ (prog = "copy" \/ size = 0)
    /\ Words!Init /\ (prog = "words" \/ text = <<>>)
    /\ Transfer!Init /\ (prog = "transfer" \/ file = <<>>)
    /\ Merge!Init /\ (prog = "merge" \/ num_files = 1)
    /\ Mini!Init /\ (prog = "mini" \/ mode = "other")
    /\ Filter!Init /\ (prog = "filter" \/ \A n \in Filter!Indices : records[n].age = filterage)
    /\ Counters!Init /\ (prog = "count" \/ way = "shm")

\* A state in which the program has ended, or owes nobody anything.
Settled ==
    CASE prog = "queue"    -> Queue!AllDone
      [] prog = "copy"     -> Copy!Ended
      [] prog = "words"    -> Words!Joined
      [] prog = "transfer" -> Transfer!Ended \/ Transfer!Glued \/ Transfer!Unnamed
      [] prog = "merge"    -> Merge!Ended \/ Merge!Starved
      [] prog = "mini"     -> Mini!Answered
      [] prog = "jobs"     -> Jobs!Obeyed
      [] prog = "filter"   -> searching = "done"
      [] prog = "count"    -> Counters!Ended

Next ==
    \/ /\ prog = "queue" /\ Queue!Next
       /\ UNCHANGED <<prog, copyVars, wordVars, transferVars, mergeVars, miniVars, jobVars,
                      filterVars, countVars>>
    \/ /\ prog = "copy" /\ Copy!Next
       /\ UNCHANGED <<prog, queueVars, wordVars, transferVars, mergeVars, miniVars, jobVars,
                      filterVars, countVars>>
    \/ /\ prog = "words" /\ Words!Next
       /\ UNCHANGED <<prog, queueVars, copyVars, transferVars, mergeVars, miniVars, jobVars,
                      filterVars, countVars>>
    \/ /\ prog = "transfer" /\ Transfer!Next
       /\ UNCHANGED <<prog, queueVars, copyVars, wordVars, mergeVars, miniVars, jobVars,
                      filterVars, countVars>>
    \/ /\ prog = "merge" /\ Merge!Next
       /\ UNCHANGED <<prog, queueVars, copyVars, wordVars, transferVars, miniVars, jobVars,
                      filterVars, countVars>>
    \/ /\ prog = "mini" /\ Mini!Next
       /\ UNCHANGED <<prog, queueVars, copyVars, wordVars, transferVars, mergeVars, jobVars,
                      filterVars, countVars>>
    \/ /\ prog = "jobs" /\ Jobs!Next
       /\ UNCHANGED <<prog, queueVars, copyVars, wordVars, transferVars, mergeVars, miniVars,
                      filterVars, countVars>>
    \/ /\ prog = "filter" /\ Filter!Next
       /\ UNCHANGED <<prog, queueVars, copyVars, wordVars, transferVars, mergeVars, miniVars,
                      jobVars, countVars>>
    \/ /\ prog = "count" /\ Counters!Next
       /\ UNCHANGED <<prog, queueVars, copyVars, wordVars, transferVars, mergeVars, miniVars,
                      jobVars, filterVars>>
    \/ Settled /\ UNCHANGED vars

\* Every process, thread and handler that can run does run, a contended
\* mutex is granted in the end, and the kernel completes what it was given;
\* that a wait fails is not among it.
\* Nothing is assumed about users: they may never connect, type or signal,
\* so the step in which the sender's user names the file is not under it.
Fairness ==
    /\ \A p \in Producers : /\ SF_queueVars(prog = "queue" /\ Queue!Lock(p))
                            /\ WF_queueVars(prog = "queue" /\ Queue!Producer(p))
    /\ \A c \in Consumers : /\ SF_queueVars(prog = "queue" /\ Queue!Lock(c))
                            /\ WF_queueVars(prog = "queue" /\ Queue!Consumer(c))
    /\ WF_copyVars(prog = "copy" /\ Copy!Next)
    /\ WF_wordVars(prog = "words" /\ Words!Next)
    /\ WF_transferVars(prog = "transfer" /\ Transfer!Processes)
    /\ WF_mergeVars(prog = "merge" /\ Merge!Progress)
    /\ WF_miniVars(prog = "mini" /\ Mini!Server)
    /\ \A c \in Clients : /\ WF_miniVars(prog = "mini" /\ Mini!Handler(c))
                          /\ WF_miniVars(prog = "mini" /\ Mini!Receive(c))
    /\ WF_jobVars(prog = "jobs" /\ Jobs!Main)
    /\ \A p \in 0..NUM_CHILDREN : WF_jobVars(prog = "jobs" /\ Jobs!Process(p))
    /\ WF_filterVars(prog = "filter" /\ Filter!Next)
    /\ WF_countVars(prog = "count" /\ Counters!Next)

Spec == Init /\ [][Next]_vars /\ Fairness

\* Files to send: plain ones around the size of the buffer, and some in
\* which the marker, or a piece of it, occurs.
SmallFiles ==
    {[n \in 1..l |-> "d"] : l \in 0..9} \cup
    {<<"E", "O", "F">>, <<"E", "O", "F", "d">>, <<"d", "d", "d", "d", "E", "O", "F">>,
     <<"d", "O", "F", "d", "E">>}
-----------------------------------------------------------------------------
\* The state of the program that runs has its type.
TypeOK ==
    CASE prog = "queue"    -> Queue!TypeOK
      [] prog = "copy"     -> Copy!TypeOK
      [] prog = "words"    -> Words!TypeOK
      [] prog = "transfer" -> Transfer!TypeOK
      [] prog = "merge"    -> Merge!TypeOK
      [] prog = "mini"     -> Mini!TypeOK
      [] prog = "jobs"     -> Jobs!TypeOK
      [] prog = "filter"   -> Filter!TypeOK
      [] prog = "count"    -> Counters!TypeOK

\* Short reads and writes lose, repeat and reorder no byte of a file copied
\* or sent through a FIFO.
StreamsExact == Copy!CopyExact /\ Transfer!TransferExact

\* Workers that count together lose no update; those that count words
\* differ from the true number only by the words that the chunks cut.
TotalsExact == Words!TotalIsWordsAndCuts /\ Counters!CountersExact

\* A read request belongs to one owner at a time and is freed by the last.
RequestsOwned == Merge!RequestsOwned

\* Handlers do not pile up, and everybody gets his own echo.
HandlersKeepUp == Mini!HandlersKeepUp

\* SIGTERM reaches all children, and the controller outlives them.
TermReachesAll == Jobs!TermReachesAll

\* The binary search finds the first record the linear search prints.
FirstFound == Filter!FirstFound

\* Whatever was started ends, and whoever waits is answered: producer and
\* consumer return, the copy, the counts, the transfer, the merge and the
\* search come to an end, clients of the server get an answer, and SIGTERM
\* ends the controller and its children; the exceptions are those Settled
\* names, where the code waits for its user, for a stopped process, or for
\* something that cannot come.
ProgramsEnd == []<>Settled
=============================================================================
