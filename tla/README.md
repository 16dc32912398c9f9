# TLA+ models of the Genspark training programs

The repository is a collection of C programs on one theme, the building blocks
of systems software: storage (a multi-version store, a write-ahead log, a block
cache, page replacement), synchronisation (a futex queue, a condition-variable
buffer, a locked hash map), servers on sockets (key-value, chat, echo), data
structures and process control. Each program is small and stands alone; what is
hard in them is what happens between two calls, two threads or two processes.
The modules here model that, the runs check it on small instances with TLC, and
the proof modules prove most of it for instances of any size with TLAPS.

Contents: 1 inventory, 2 modules and their correspondence to the code, 3 runs,
bounds and fairness, 4 proofs, 5 where code and text disagree, 6 what is only
model-checked and what is not modelled, 7 how the project was built.

## 1. Inventory

| Component (src/) | State | Operations | What is hard | What makes it correct |
|---|---|---|---|---|
| MVCC store, `mvcc-in-memory-key-value.c` | version lists, write locks, wait-for matrix, clock, transaction table | begin_tx, tx_read, tx_write, tx_commit, tx_abort, detect_deadlock | a call is several critical sections; the clock is read outside the lock; deadlock | one visible version per key and snapshot; write locks exclude and do not leak; every deadlock has a victim; snapshots do not move |
| Futex queue, `bounded-producer-consumer-queue.c` | ring, two futex words, mutex | producer, consumer | the word is tested after the mutex is given back; wake-ups | exact FIFO; no lost wake-up; termination |
| Write-ahead log, `WAL-demo.c` | wal.log, db.txt, stdio buffers | write, write-nosync, crash-after-wal, recover | kills and power loss between any two steps; several processes | nothing in the database that is not in the log on disk; synced records stay; recovery restores |
| Block cache, `filesystem.c` | buffer pool, LRU list, hash buckets | files (cache_get, acquire_buffer, cacheput with eviction), cleanup | two lists through the same `next` pointer; eviction order | no buffer lost or shared; no dangling bucket; the right block is returned |
| Page replacement, `page_cache_simulator.c` | frames and times; frames, bits and a hand; four ARC lists | simulateLRU, simulateClock, simulateARC | long request sequences; the ghost lists | LRU keeps the latest pages; clock gives a second chance and stops; ARC has each page once |
| Red-black tree, `R-Blacktree-file-2.c`, `RD-Black-tree-1.c` | nodes with colour, parent, children | insert, rotations, fixinsertion | the tree between two rotations; inner grandchildren | search tree always; red-black rules after an insertion |
| Key-value servers, `key-value/`, `mini-key-value/` | table, one connection | SET, GET; connect, send, leave | clients that go away or say nothing; the backlog | the table is a bounded map; no command forgotten; everybody served |
| Chat server, `multi-client-chat-server/` | client table, connections | accept, broadcast, close; join, type, leave | users leave between select and send; full table; SIGPIPE | everybody sees the same conversation; no line lost |
| Echo server, `multi-client-echo/` | client table, connections | accept, echo, close; lockstep client | users leave while an echo is under way | clients cannot end the server; one line under way |
| Locked hash map, `pthread-hash-map.c` | chains, a mutex per bucket | hashmap_insert, hashmap_lookup by the workers | walk and link by several threads | a key has one node and is found |
| Condition-variable buffer, `threads-buffer-w-p&c.c` | array used as a stack, mutex, two conditions | producer, consumer | signals, spurious wake-ups | nothing lost, sleep only while there is a reason |
| Memory log, `memorylog.c` | list of blocks, ids, heap | malloc, calloc, free, export | addresses that come back; int sizes of unsigned products | the list is the heap; the sizes are right |
| Threaded key-value server, `Modularize Key-Value/` | table without a lock | SET, GET from one thread per client | every load and store interleaves | with one setter at a time the table is sound and a get sees what was there |
| Mini server, `miniserver/` | connections, children or threads | accept, fork or thread, echo, waitpid | handlers overlap with the next accept; creation fails | each client gets its own echo; zombies do not pile up |
| Job controller, `signal-based-job-controller.c` | children array, handlers, pending signals | fork, handle_signal, waitpid | nested handlers, inherited with an unfinished array | SIGTERM reaches all children, and ends everything |
| FIFO file transfer, `file-transfer/` | two FIFOs, file, buffer | open, ask for the name, send, receive, answer | a stream without boundaries | no byte lost; both sides end once the file is named |
| io_uring merge, `reads-from-multiple-files-asynchronously-io_uring.c` | submission and completion queues, requests | queue, submit, complete, write | completions in any order, files skipped or not submitted | a request has one owner; each file once |
| Word count, `task-word-count-pthread.c`; shared counters, `atomic-vs-mutex.c`, `shm-counter.c` | totals, mutex, shared memory | count, add, join | lost updates, words cut by chunks | totals exact up to the words cut |
| File copy, `file-copy.c` | two files, a buffer | read_all, write_all, compare | short reads and writes, errors | the copy is the source |
| Record filtering, `filtering.c` | records, search interval | linearsearch, qsort, binarysearch | boundaries of the interval | both searches agree |
| Student records, `student.c` | table of records | students, add, find, reports | what refused attempts leave behind | students unique and found, sums right |
| Message-queue chat, query engine, expression evaluator | see `PROJECT.json` | | | not modelled, section 6 |
| SQL lexer and parser, schedulers, shell and thread exercises, file utilities, kernel module and eBPF | | | | not modelled, section 6 |

Interaction is within a program: threads share memory under a mutex, clients
and servers exchange bytes over sockets, runs of `WAL-demo` share two files.
Programs do not call each other, so `MCPrograms` puts ten of them side by side,
those that users and clients drive, and `MCProcesses` nine that come to an end
or answer by themselves, with fairness. Composition proper is found inside programs: `PageCacheSimulator`
composes the three policies, `KVServer` the server, its table and its clients,
`MVCC` the store and the wait-for matrix.

The hazards are listed line by line in `PROJECT.json`, with the properties that
would show each of them.

## 2. Modules

| Module | Models | Uses |
|---|---|---|
| `MVCC` | the multi-version store | `WaitFor` |
| `WaitFor` | the wait-for matrix and what the detector answers | |
| `WaitForGraph` | the depth-first search of the detector | `WaitFor` |
| `BoundedQueue` | the futex queue | implements `BoundedFifo` |
| `WAL` | the log, the database file, processes, kernel and disk | |
| `BufferCache` | pool, cache and `files` of the block cache | |
| `LRUPolicy`, `ClockPolicy`, `ARCPolicy` | the three policies | composed in `PageCacheSimulator` |
| `RedBlackTree` | insertion into the tree | |
| `KVServer` | server and clients of the key-value store | implements `BoundedMap` |
| `ChatServer`, `EchoServer` | the two select servers with their clients | |
| `LockedHashMap`, `CondBuffer`, `MemoryLog` | the programs of these names | |
| `ThreadedKV` | the key-value server with a thread per client | |
| `MiniServer` | the server with a child or a thread per connection | |
| `JobController` | the controller, its children and their signals | |
| `FileTransfer`, `UringMerge`, `FileCopy` | the programs of these names | |
| `WordCount`, `SharedCounters` | workers that count together | |
| `FilterSearch`, `StudentRecords` | the searches and the table of students | |
| `BoundedQueueProofs`, `WALProofs`, `BufferCacheProofs`, `RedBlackTreeProofs` | theorems about the module of that name | that module |
| `MVCCProofs` | theorems about the store and the search of its detector | `MCMVCC` |
| `ServersProofs` | theorems about the servers of the first suite: key-value, threaded, echo and chat | `MCPrograms` |
| `ProgramsProofs` | theorems about its other programs, and the types of all of them | `ServersProofs` and `RedBlackTreeProofs` |
| `ProcessesProofs` | theorems about the programs of the second suite | `MCProcesses` and `BoundedQueueProofs` |
| `MCMVCC`, `MCBoundedQueue`, `MCWAL`, `MCBufferCache` | instances for TLC | |
| `MCPrograms`, `MCProcesses` | the two suites | the modules of the programs they start |

A definition keeps the name of the function or variable it stands for where
there is one; `PROJECT.json` gives the lines of each. Next to some
definitions stands a second one whose comment calls it a mutant: a small
mistake one could make in that line of code, on which the property that guards
the line fails.

**MVCC.** `versions[k]` is the list of `VersionNode`s of a key, oldest first;
`locked_by`, `wait_for`, `global_ts` and, per transaction, `state`, `start_ts`
and `writes` are the fields of those names. A transaction has a thread; each
critical section under `global_lock` is an action. `tx_write` is
`AcquireLock` then `BufferWrite`, or `BlockedOnLock`, which ends the call or
leaves it at the clean-up of a detected deadlock, `DeadlockAbort`; the assignment to
`t->state` before the lock of the clean-up is part of that action, since only its own
thread ever reads the state of a transaction. `tx_commit`
is `DrawCommitTs`, the `atomic_fetch_add` made before the lock is taken, then
`InstallCommit`. `Refused` is every call on a transaction that is not active.
`Concurrent = FALSE` allows a call only when no other is under way, which is
how `main` uses the store. `BeginTx` may begin a slot again in any state, as the
code allows: its buffer and edges go, the locks it holds stay.

**WaitFor, WaitForGraph.** `DetectDeadlock` says that some set of transactions
waits within itself; `detect_deadlock` in `WaitForGraph` is the code's search
with its `visited` and `recStack` arrays. `DfsFindsExactlyTheCycles` compares
them on every matrix the store reaches, whichever transaction has which slot. A
call of `dfs_cycle` is a recursive function of where the call is in its loop
and of the two arrays there (`Iteration`), and gives the answer with the arrays
it leaves (`SearchState`); the loop of `detect_deadlock` is another one.

**BoundedQueue.** `pc` says where a thread is: at the lock, at the while
condition, at `futex_wait` with the mutex given back, asleep, at the wake-up.
`FutexWait` compares the word and sleeps, or returns at once. `Wake` wakes one
of the sleepers of its word, the choice being the kernel's. `produced` and
`consumed` are history.

**WAL.** A run of the program is a process with a command. `StartWrite` fills
its stdio buffer, `FlushLog` is `fflush` or `fclose` (one write to the kernel),
`SyncLog` is `fsync`, `Apply` appends to `db.txt`, `StartRecover` truncates it
and `FinishRecover` replays the log line by line (`ReplayLine`) as the code
does, `sscanf`'s return value included. `Kill` ends a process at any point;
`PowerLoss` keeps of each file something between what was on disk and what the
kernel had, cut between lines. Names and values are the run that writes them.

**BufferCache.** A cache node owns one buffer for life, so the buffer names
it. `lru` is the doubly linked list; `nodes[h]` the head pointer of a bucket.
`cacheput` links the new node into its bucket through `next` and `addtofront`
then overwrites `next`, so a lookup walks the LRU list from the bucket's node:
`Walk(k)` is the set of the positions it passes, `Found(k)` those of them whose
node has the key, and the lookup stops at the least. `Files` is a call of `files`: `Hit`, `Load` (with
eviction when full) or `Exhausted`, the early return for an empty pool, which is
never reached as long as the pool is larger than the cache, as in the code. The disk is the function from key to
block; contents are the key they belong to.

**Page replacement.** The code replays one fixed array; the models replay
every array of that length over four pages. The hand of the clock moves one
frame per action. `ARCPolicy` keeps `replaceARC`'s test for page 0 in `B2`
and the page -1 that `removeLRU` returns for an empty list.

**RedBlackTree.** Mirror cases are one definition with a side as parameter.
`Insert` attaches a node; an iteration of `fixinsertion` is a step. `crooked`
records that a node was rotated as an inner grandchild, after which this code
does not keep the colour rules: `RedBlackRules` is about trees where that has
not happened, `SearchTree` about all.

**KVServer, ChatServer, EchoServer.** A connection is what was written on one
side and not read on the other; bytes arrive in order. The server's blocking
points separate its actions; a round of the select servers is the select
(`ready`, `turns`: the slots found readable), at most one accept, then one
read per readable slot. In the echo server the accept may also fail, and the
connection waits for the next round (`AcceptFails`). A write to a connection whose other end is closed
succeeds once and kills the writer the second time (SIGPIPE is not ignored).
A full client table leaves the new connection open and unread, as in the code.

**LockedHashMap.** A call is lock, walk, write, unlock, each a step. The hash
sends the workers' keys to consecutive buckets, as `hash` does for names that
differ in the last character.

**CondBuffer.** `Wait` gives the mutex back; a signal or `SpuriousWakeup`
moves a thread to where it must take the mutex again; then the loop tests again.

**MemoryLog.** `heap` gives the bytes of each block, sizes are computed modulo
`UINT` and stored as a signed int, as the types in the code do.

**ThreadedKV.** Every mention of `store_count` in `kv_set` is a load or a store
(the library is built without optimisation), and a string is copied and printed
in two halves, so that a reader can meet one in between. `overlapped` remembers
that two `kv_set` ran at once, after which the table may be anything; a step that
leaves the table sets `overrun`, and nothing is said about what follows.

**MiniServer.** `DispatchFork` and `DispatchThread` start a handler or fail to;
`Reap` is the `waitpid` without blocking behind a fork. A thread reads its
argument in a step of its own (`StartThread`), after which the next accept no
longer matters to it. A client may be killed while its user types or while it
waits for the echo.

**JobController.** Process 0 is the controller. `handlers[p]` is the stack of
handlers a process is in, each with the iteration it has reached; a signal is
held back only while its own handler runs. `Targets` is what a pid means to
`kill` and `waitpid`: 0, which an entry not yet set is, means the whole group.
A delivery during `waitpid` ends that call. `Exit` of the controller orphans
the group, and a stopped orphaned group is hung up by the kernel.

**FileTransfer.** `TypeName` is the user's step: until then the sender is at its
prompt and the receiver in `read` (`Unnamed`). `Processes` is what the two programs do
by themselves. `fifo1` is the bytes under way; a read returns what is there,
up to the buffer, and leaves the rest of the buffer as it was, which is what
the comparison with the marker then sees.

**UringMerge.** The first loop is `Skip`, `QueueRead` or one of the two exits; the
kernel's `Complete` is free in order and outcome; the second loop counts
iterations up to the number of arguments. The code looks at the results of neither
`io_uring_submit` nor `io_uring_wait_cqe`: a submission may take only the first
requests (`Submit`), and a wait that fails ends `main` (`WaitFails`), which then uses an
entry that is not there. **FileCopy**: a read or write moves any
number of bytes it may, or fails. **WordCount**, **SharedCounters**: an increment
is a load and a store unless it is atomic.

**FilterSearch.** An iteration of `binarysearch` is a step; `SortByAge` is any
permutation that `qsort` may leave. **StudentRecords.** `students` returns the slot
as the call leaves it, with the fields of earlier attempts where it returns
early; the two callers decide with `IsRefused` and `NotAdded` whether the slot
counts.

Abstract specifications: `BoundedFifo` (put if there is room, take the oldest)
and `BoundedMap` (a map with room for so many keys, and the answer it gives).

## 3. Runs

| Run | Instance | Checks |
|---|---|---|
| `mvcc_concurrent` | 2 transactions, 2 keys, timestamps below 5 | `SnapshotTotal`, `LocksCoverWrites`, `SnapshotMovesOnlyBackwards`, `DeadlockBroken`, types |
| `mvcc_deadlock` | 3 transactions, 3 keys, timestamps below 4, symmetric | `EdgesPointAtOwners`, `CyclesHaveVictim`, `DfsFindsExactlyTheCycles` |
| `mvcc_snapshot` | as the first | `SnapshotStable` fails |
| `queue_four` | 2 producers, 2 consumers, 5 slots, 5 items each | `FifoExact`, `FifoSpec`, types |
| `queue_wakeup` | two threads on a side | `WakesAWaiter` fails |
| `wal_crash` | 3 runs, 2 power losses | `WriteAhead`, `SyncedStays`, `RecordsContiguous`, types |
| `wal_recover` | as above | `RecoverRestores` fails |
| `cache` | 5 keys, cache of 4, pool of 6 | `BuffersConserved`, `BucketsAlive`, `DataMatchesKey`, types |
| `cache_lookup` | main's 6 files, cache of 5, pool of 10 | `PresentIsFound` fails |
| `programs` | ten programs, below | `PagesKept`, `SecondChance`, `TreeRules`, `MapSpec`, `NobodyForgotten`, `ChatExact`, `EchoOrderly`, `KeysFoundOnce`, `BufferExact`, `LogMatchesHeap`, `SafeWithOneWriter`, `TableSound`, types |
| `processes` | nine programs, below, fair | `StreamsExact`, `TotalsExact`, `RequestsOwned`, `HandlersKeepUp`, `TermReachesAll`, `FirstFound`, `ProgramsEnd`, types |
| `kv_blocked` | the key-value server alone | `EveryoneServed` fails |

What they show. In the store, whatever calls overlap, each live snapshot sees
one version of each key, locks do their job and none is left behind, a commit
moves another snapshot only in the one case finding 1 describes, and every
circle of waiting transactions is broken. The queue loses, doubles and reorders
nothing. The log keeps the
write-ahead rule and what it reported as synced. The cache neither leaks nor
shares buffers and returns the right block, though it may load it twice. The
programs do what their properties say, limits included: the chat server
may be ended by a user who leaves at the wrong moment (the properties say what
holds until then), a client that finds a table full waits for nothing, ARC
evicts from an empty list. The threaded server is sound as long as nobody sets
while another one sets; two that do can take one slot, or leave the table.
Whatever students are refused, those in the table are unique and their sums
their own, though a bad third mark gets in, and any bad mark by the menu.

In `processes`, `ProgramsEnd` says that from every state the program that was
started ends or owes nobody an answer: one producer and one consumer always
finish, so no wake-up is lost between them; copy, counts, merge and search end;
clients of the mini server are answered; SIGTERM ends the controller and its
children, whatever signals came before and wherever `main` was, unless somebody
has stopped them. `Settled` names the states in which the code waits for what
cannot come: a marker that arrived glued to data (`Glued`), a completion of a
file that was skipped or not submitted (`Starved`), a connection whose thread was
not created (`Stranded`); and the one in which two processes wait for a user who
may never come: the sender at its prompt, the receiver in `read` (`Unnamed`). The
run fails without any of the four.

Several properties of the two suites join those of the modules, where the
parts are stated: `PagesKept` is `KeepsMostRecent`, `EveryPageOnce` and
`FramesAccounted`; `TreeRules` is `SearchTree` and `RedBlackRules`; `ChatExact` is
`SameConversation` and `NothingLost`; `EchoOrderly` is `SurvivesClients` and
`OneLineUnderWay`; `BufferExact` is `StackExact` and `SleepJustified`;
`LogMatchesHeap` is `TracksHeap` and `SizesLogged`; `StreamsExact` is `CopyExact` and
`TransferExact`; `TotalsExact` is `TotalIsWordsAndCuts` and `CountersExact`.
`LocksCoverWrites` is `BufferedMeansLocked` and `NoLeakedLock`.

**Bounds, and why they are enough.** Two transactions and two keys give every
pair of overlapping calls, crossed locks and a reader between the two halves of
a commit; four timestamps allow an old snapshot, a commit drawn before a begin,
and one after. Three transactions and keys give cycles of length three and
cycles that do not contain the caller. Five items through two or five slots
wrap the ring; two threads per side have one sleeping and one running. Three
runs of the log give two writers and a recovery, or a writer, a crash and a
recovery, with a power loss before and after. Five keys for four places evict,
and six buffers for four places leave some free, as the code's 5 and 10 do. For
the programs: 2 frames, 4 pages and 9 requests (the clock goes round, ARC moves
pages through all lists); 8 numbers out of 3 values (recolouring up to the
root and every rotation); 3 clients against 2 slots, a table with one entry
and a backlog of 2; 2 chat lines in all and 2 lines per echo client; 3 workers,
3 keys, 2 buckets (a shared and a private bucket); 3 cells, 6 items; 3
addresses, 3 allocations, `UINT` 16 with sizes that wrap as int and as
unsigned; 2 threads, 2 keys and 2 entries, 3 commands, or 2 once two sets have
overlapped (a get beside a set of a new and of an old key; two sets race); 2
rolls, 3 names (one of them the "x" that marks a refused name), 2 to 3 students
and marks refused in each subject. For the processes: one producer and one
consumer over 2 slots; files of 0 to 5 bytes through a buffer of 2; texts of up
to 5 characters for 3 workers (empty chunks and cut words); 3 counting workers
of 2 iterations; files of 0 to 9 bytes and a few with marker letters through a
buffer of 4; 1 to 3 files over a queue of 2; 3 clients of the mini server; 2
children, as in the code, and 2 signals (with 3 the run was done once, and holds
as well); 4 records of 3 ages. `MaxTs`, `MaxPowerLosses`, `MaxNodes`, `MaxLines`, `MaxEchoes`,
`MaxIds`, `MaxFiles`, `MaxCommands`, `MaxRaced`, `MaxStudents`, `MaxSize`, `FILES`
and `MaxSignals` are bounds of the models; the other constants are
#defines or arguments of the programs.

**Symmetry** is over transactions and keys, threads, log runs or clients, in runs
without liveness. The programs treat them alike: table slots are numbered, users
are not. `mvcc_concurrent` and `processes` check liveness and use none.

**Deadlock** is checked wherever the program must go on: states where a program
is over have a step of their own (`Finished`, `Settled`, `Joined`, `Exited`). `queue_four`
does not check it: with several threads per side the program can hang for
good, which finding 2 is about.

**Fairness.** MVCC: weak fairness on the steps of a call under way, since a
thread inside a call is not stopped and `global_lock` is held for one action at
a time; none on starting calls. Queue: each thread is scheduled (weak), and a
contended mutex is granted in the end (strong, on `Lock`), which futex-based
mutexes do in practice and `ProgramsEnd` needs. Processes: every program, thread,
child and signal handler that can run does (weak, for each by itself where there
are several that never end), and the kernel completes a read it was given; none
on users, who need not connect, type or signal. So the file transfer is fair in
`Processes` only, without `TypeName`: a sender whose user names no file stays at its
prompt, and the receiver with it. The merge is fair in `Progress`, without `WaitFails`: no
failure rescues a `main` that waits for a request nobody submitted. Key-value server: weak on the
server and on a client's reading an answer that has arrived; none on users, who
may type nothing for ever. Safety properties use none.

## 4. Proofs

All theorems are for every value of the constants under the named assumptions,
which TLC evaluates in the runs: `ConstantsAssumption` of `MVCC`, of `MCPrograms`
and of `MCProcesses`, `MaxTransactionsAssumption` of `WaitForGraph`, `QueueAssumption`
of `BoundedQueue`, `WalAssumption` of `WAL`, `CacheAssumption` of `BufferCache`. `SizesOK` of
`CondBuffer` and of `RedBlackTree` is what `ConstantsAssumption` of `MCPrograms` says of their
constants; the theorems of `RedBlackTreeProofs` have it as a hypothesis.
They say that sentinels are not values, that sizes are numbers and most of
them not 0, that a hash sends keys to buckets, and that `MaxTs` does not exceed
`ULONG_MAX`. Where a theorem says `Spec`, bounds such as `MaxLines` or `MaxSignals`
are arbitrary, so they bound nothing.

The two suites start one program and leave the others alone. Their proofs
begin with one lemma, `OneProgramMoves`: a step of the suite is a step of each
program or leaves its variables unchanged. After it each program is proved about
by itself. `TreeRulesHold` and `QueueTypes` take what `RedBlackTreeProofs` and
`BoundedQueueProofs` show over through an instance.

**MVCCProofs.** `TypeCorrect`, `SnapshotsAreTotal` (`SnapshotTotal`),
`WritersExclude` (`LocksCoverWrites`), `EdgesAreLive` (`EdgesPointAtOwners`),
`DeadlocksHaveVictims` (`CyclesHaveVictim`), `OldSnapshotsStable`
(`SnapshotMovesOnlyBackwards`), `SerialSnapshotsStable` (`SnapshotStable` when
calls do not overlap, that is, for `main`). The invariant is `IInv ==
TypeOK /\ LockInv /\ ClockInv /\ ChainInv /\ CommitInv`. `SnapshotTotal` is not
inductive: a commit retires the newest version at its own timestamp, and only
if that is later than the version's begin is the list again a chain of
adjoining intervals (`ChainInv`). It is later because the lock was held since
before the timestamp was drawn, so nobody else could install in between: that is
`CommitInv`, which rests on `LockInv` (locks exclude) and `ClockInv` (drawn
timestamps are below the clock). What `Installed` does to a list is a lemma
of its own, as is that a chain gives each timestamp exactly one version.
`DeadlocksHaveVictims` and `EdgesAreLive` are inductive given the types: an edge is
added only in `BlockedOnLock`, towards the owner of a lock, and there either no
cycle arises or its thread becomes a victim; whoever gives up locks clears its
row and column in the same step. `OldSnapshotsStable` and `SerialSnapshotsStable` are
action properties that follow from `IInv`, the latter with the fact that a
thread between the halves of a commit is then the only one in a call.

`SearchIsExact` (`DfsFindsExactlyTheCycles`) is about the search itself, for any graph over any
number of slots. A recursive function of TLA+ satisfies its equation only if some
function does: `RecursionEnds` shows that one does wherever calls go to arguments of
less weight, and the weight here is the number of nodes not visited, then the rest of
the loop (`StepVisits`, `SearchRecurs`). That is also why the search ends. What a call
promises (`Before`, `After`): entered when every other node on the stack waits for some
node on the stack, and the nodes visited and left are explored, it returns true only
if the graph has a circle; if it returns false, its node is off the stack and the
nodes visited and left are again explored: they wait for each other only, and no
circle is among them.
`OneMoreExplored` is the step: a node whose successors are all explored is. The
detector says "some set of transactions waits within itself"; a set of explored
nodes cannot, so false means no circle (`DetectorIsRight`). `Renumbered` carries this over to
transactions for any assignment of slots.

**BoundedQueueProofs.** `TypeCorrect`, `FifoIsExact` (`FifoExact`) and the refinement
`QueueImplementsFifo` (`FifoSpec`). `IInv ==
TypeOK /\ MutexInv /\ LoopInv /\ RingInv`. `FifoExact` speaks of the ring through
`%`; `RingInv` speaks of it through how many items ever went in and came out
(`in` and `out` are these numbers modulo the size, and the n-th item is in slot
n - 1 modulo the size until it is taken), which each step preserves with three
lemmas about `%`. `MutexInv` makes put and take exclusive. `ContentsFromInv` turns
this into what the abstract queue holds; then `PutRefines`, `TakeRefines` and
`OthersStutter` map each step to a put, a take or a stutter. `NobodyLeftAsleep` is the
other side of finding 2: with one producer and one consumer, while one of them
sleeps the other is awake and has not returned. `WordInv` says why: a word that is 1
while its thread is at or in `futex_wait` is 1 because the ring is still full (or
empty), or the other thread is on its way to reset it; `CountInv` ties the loop
variables to the items, so that nobody returns while the other one waits. That both
then finish (`ProgramsEnd`) adds fairness and is left to TLC.

**WALProofs.** `TypeCorrect`, `RecordsStayWhole` (`RecordsContiguous`),
`SyncedIsDurable` (`SyncedStays`), `LogGoesFirst` (`WriteAhead`) and
`RecoveryRestoresNothing`, which says of finding 3 that no log whatever restores a
value. `IInv` adds to the first two properties what a process has done so far
(`CommandInv`: who may be where), that the record of a process between `fflush` and
`fsync` is with the kernel (`FlushedInv`), and that a pair of a writer with `fsync` is
in either copy of `db.txt` only when its record is on disk (`DbInv`). The last two
are what `WriteAhead` and `SyncedStays` lack: a power loss keeps of the database
something between two copies, of the log at least the copy on disk, so both
copies of the one must be covered by the one copy of the other. `LogGrows` and
`LogAfterPowerLoss` say what an append and a power loss leave of whole records.

**BufferCacheProofs.** `TypeCorrect`, `BuffersAreConserved` (`BuffersConserved`),
`BucketsStayAlive` (`BucketsAlive`), `ReadsTheRightBlock` (`DataMatchesKey`). The four are
inductive together: the load takes the first free buffer, and that it is not in
the LRU list is the first, that the evicted node's bucket does not keep pointing
at it the second, that a hit returns the block of its key the third. `Pushed`,
`Unlinked`, `WithoutHead`, `WithoutLast` and `WithoutAt` say what the list operations
do to the set of the nodes and that they double none.

**RedBlackTreeProofs.** `StaysSearchTree` (`SearchTree`), `StaysRedBlack` (`RedBlackRules`) and
`StaysTyped`, from `TreeInvariance`. The properties speak of subtrees and black heights that are
defined by recursion; the proofs speak of witnesses instead: a function `B` with
the nodes of each subtree (`Grown`) and a function `h` with the black nodes on every
way down (`Level`). Each step says what becomes of them: `Lowered` after a rotation,
`Longer` after an insertion, and `h` only changes at the nodes repainted. `TreeInv` says that
such a `B` exists for the links and the order (`Shape`), that the root is black
whenever a red node with a red parent needs a grandparent (`Rooted`), and, as long as no
inner node was rotated, that only the node `fixinsertion` is at may be red below red and
that such an `h` exists (`Coloured`). That the loop of `insertion` comes to a leaf on the right
side of everything above it is `LeafFound`. In the end a least counterexample shows
that the recursive definitions are these witnesses: `Below` is `B` (`BelowGrown`), and `BlackHeights[n]`
has the one element `h[n]` (`HeightsLevel`).

**ProgramsProofs.**

- `BufferIsExact` (`BufferExact`). `StackInv`: the types, `StackExact` and `SleepJustified` are
  preserved together with the facts that an unfinished thread has items left
  (`StackLoops`) and that cells in use hold items already made (`StackCells`).
- `TreeRulesHold` (`TreeRules`), from `RedBlackTreeProofs`.
- `KeysAreFoundOnce` (`KeysFoundOnce`). Between lock and unlock a bucket is the
  worker's (`Exclusive`), so what its walk found is true when it writes
  (`WalkStillTrue`); keys inserted stay (`InsertedStay`), so lookups find them.
- `ClockSparesUsedPages` (`SecondChance`). `TurnInv`: the frames the hand has gone
  past in its turn had their bit set at the miss and have it no longer, the
  others still have the bit of the miss. The distance behind the hand is
  measured around the ring.
- `PagesAreKept` (`PagesKept`). For LRU: a frame's time is the last use of its page,
  uses are distinct, and a page in no frame was used before every page in one
  (`TimesOfPages`, `UsesApart`, `OneFrame`, `GoneIsOlder`); without distinct times the
  victim need not be older than the pages that stay. For ARC, `ArcState`: the copies
  of a page in the four lists are one in all if it was requested and none
  otherwise, the pages in frames exceed the entries -1 in B2 by the number of
  requested pages, at most `MAX_FRAMES`, and ghosts exist only once so many were
  requested. The last is why a page never seen is let in without an eviction
  exactly as long as a frame is free. How often a page is in a list is a
  cardinality, and `TimesRemoved` says what a removal does to it.
- `LogIsTheHeap` (`LogMatchesHeap`). `LogInv`: an entry per allocated block, newest
  first, sizes right modulo the width; `LoggedRight` is about the arithmetic of
  unsigned products stored in an int.
- `TableStaysSound` (`TableSound`). The slot behind the known records may hold the rest
  of a refused attempt; `TableInv` says that even there complete marks have their
  sum, which the next attempt may keep.
- `TypeCorrect` (`TypeOK` of `MCPrograms`), program by program; most types are part of the
  invariants above. New are those the other proofs do not need: the target `p` of ARC
  stays within the frames though it moves after the test (`ArcTyped`), the clock stops within a round (`ClockTyped`), and the threaded table keeps its type
  after two sets have raced, when nothing else is known of it (`RacyInv` in
  `ServersProofs`).

**ServersProofs.**

- `EchoIsOrderly` (`EchoOrderly`). `Lockstep` (a user has one line on the way at most,
  and none when the server has written to it in vain), `OnePlace` (a
  connection is in one slot or once in the queue), `TurnsReadable` (what
  select found is still there when its turn comes) and `Connected`.
- `NobodyIsForgotten` (`NobodyForgotten`): a connection not closed is in the queue or in
  the server's hand, with its command (`OpenIsKnown`).
- `TableImplementsMap` (`MapSpec`), the refinement of `BoundedMap`: with one entry per
  key the search gives the map of the table (`StoreIsMap`), an update in place and
  an append are an assignment to it (`SetKeeps`, `ServeMaps`), and the number of entries is
  the number of keys mapped (`MapSize`).
- `OneWriterIsSafe` (`SafeWithOneWriter`). `ThreadInv` says where the one setter is: what
  it has scanned is not its key, what it found is, and the entry it fills lies
  behind the table until the count is stored (`Positioned`); only the first half of
  a value being updated is newer than the last `kv_set` (`TableGood`); and every half
  a getter prints is one its key had since the get began (`Answered`). Steps of
  the others keep what a thread knows because they write no entry that is
  counted (`OthersStay`).
- `ChatIsExact` (`ChatExact`). `ChatInv`: a user has one slot and what select has found
  readable still is (`ChatSlots`), a connection waits once and before it is accepted
  (`ChatQueue`), and nothing is seen or printed of a user not yet accepted (`ChatUsers`). A
  conversation is the set of the places it has in what the server printed, and a
  line's position in it is its rank there, so no filtered sequence is needed:
  `FollowsLonger` says what a user who has the beginning of a conversation, or all of it,
  has when more is printed. A broken pipe is the hard case: some users get the
  lines, others do not, and no more is promised than the beginning.
- The types of the four servers (`KVTyped`, `EchoTyped`, `ThreadsTyped`, `ChatTyped`). That a chat user
  types no more than `MaxLines` lines follows from the count of all lines typed (`Written`).

**ProcessesProofs.**

- `StreamsAreExact` (`StreamsExact`). `CopyInv`: the bytes in the copy and in the buffer are
  those before `offset`, in order. `TransferInv`: what was received, followed by
  what is in the FIFO, is the beginning of the file with its marker; the marker
  comes last (`MarkerComesLast`), so a file without an E is complete when the receiver stops.
- `HandlersDoKeepUp` (`HandlersKeepUp`). `MiniData` keeps the sockets of clients apart,
  `MiniCount` counts children and zombies against the peak of busy handlers, with
  one more between a fork and the `waitpid` behind it.
- `TermDoesReachAll` (`TermReachesAll`). `JobArray` says which entries of the array are
  set at which point of the forks; `JobTells` what a handler that has reached an
  iteration has told and waited for, for every frame of the stack of handlers.
- `SearchIsFirst` (`FirstFound`), for any number of records, any filter and any order
  that a sort by age may produce. `FirstFound` speaks of the end of the search
  only. `FilterInv` says that during the search everything left of `left` is below
  the filter, everything right of `right` matches, and `result` is the first index
  right of `right`, or -1 if there is none; that the table is sorted; and that the
  ids printed by the linear search are those of the matching records, which a
  permutation of the records does not change. That `mid` lies between `left` and
  `right` is a lemma about `\div`.
- `TotalsAreExact` (`TotalsExact`). `CountInv`: a worker between load and store has the
  mutex, or a cell of its own, so what it loaded is still there; the counter is
  the number of pairs of worker and iteration done (`IterationsMore`), and the loop
  of `main` over the cells adds up to workers times iterations (`AllAdded`). `WordInv`: the
  total is the number of word ends in the chunks of the workers that are done,
  `Counted`; each store adds a set of ends apart from the others (`EndsApart`). What
  the workers see as ends in all is what `EndsAndCuts` says: the chunks are side by
  side and cover the text (`Chunks`, `ChunkOf`, with arithmetic of `\div`), so an end in
  a chunk is the end of a word, or a cut; and a text has as many ends of words as
  starts (`EndsAreStarts`, by the least prefix without it).
- `RequestsAreOwned` (`RequestsOwned`). `MergeInv`: queue, kernel and completion queue are
  disjoint and together the open files, every file passed is merged, failed,
  open or skipped, and the counters are the cardinalities.
- `TypeCorrect` (`TypeOK` of `MCProcesses`): `AllInv` collects the invariants above, the one of
  the futex queue, and that the word count never exceeds the length of the text.

**Techniques.** Induction theorems with an operator parameter cannot be used;
where a proof needs induction it takes the least counterexample (`LeastNat`, from
the well-foundedness of `<`). Sums are shown equal by the equality of the
functions summed (`SameSum`). Of a recursive function, either the existence is proved
(`RecursionEnds`, `WayDown`) or a witness for its values is carried along. Stacks of handlers, completion queues and lists of
pages are reasoned about through the sets of their entries and positions.

## 5. Where code and text disagree

Each is shown by a run that violates the property named.

1. `SnapshotStable` (mvcc_snapshot): `tx_commit` draws its timestamp before it
   takes the lock. A transaction that begins in between has a later snapshot
   and no sight of versions that arrive afterwards with an earlier timestamp;
   then it reads something else. `main` says a read "should be unchanged by T1
   commit"; with its single thread that is true, and proved.
2. `WakesAWaiter` (queue_wakeup): one word stands for all sleepers of a side. A
   wake-up resets it although others still sleep, and later puts wake nobody.
   The comment says "Wake up one consumer if waiting".
3. `RecoverRestores` (wal_recover): `sscanf` with only a suppressed conversion
   returns 0 on every line, so every line looks like BEGIN and nothing is
   restored into the truncated `db.txt`.
4. `PresentIsFound` (cache_lookup): the bucket chain and the LRU list share
   `next`; a block moved to the front is not found behind a newer one of its
   bucket, and is loaded again.
5. `EveryoneServed` (kv_blocked): the README of `mini-key-value` promises
   clients handled concurrently; the server reads from one connection until
   its user types.

Also met, and stated in the properties as what the code does: inner
grandchildren are rotated without the colour change the rules need
(`RedBlackRules`), ARC asks for page 0 (`FramesAccounted`), the servers do not
ignore SIGPIPE and do not close a connection they have no slot for
(`SameConversation`, `OneLineUnderWay`), the log shows large sizes modulo 2^32
(`SizesLogged`), and every export of an empty log leaves a file open (`ExportNothing`).
Further: two `kv_set` at once
may take the same slot, count one twice, or write past the table
(`SafeWithOneWriter` says what holds without that); `file-copy.c` says "verified"
without having read a byte of the copy, which is open for writing only, and is
right all the same (`CopyExact`); the receiver writes the end marker into the
file when it comes in one read with data, and both sides then wait (`Glued`); the
io_uring merger waits for files it skipped or could not submit (`Starved`); a failed `pthread_create`
leaves a client of the mini server waiting (`Stranded`); Ctrl-C reaches the
children too, the first of which has an array of zeros and stops the whole
group, controller included, so that SIGUSR1 resumes nobody until the shell
continues the job; the fifth test of `student.c` repeats the fourth, so a bad
third mark stays (`TableSound`). In the message-queue chat `mtype` is an int where
the system calls take a long, so the first four bytes of the text become part
of the type and no line with text is ever received.

## 6. Only model-checked, and not modelled

Only model-checked: the liveness properties `DeadlockBroken` and `ProgramsEnd`, as liveness
under fairness is beyond the prover. Every other property a passing run checks
is stated by a theorem.

Abstracted everywhere: text, printing, parsing of commands beyond valid or not,
allocation failure of small nodes. `display`, `dump_store` and the traversals of
the tree only print. Partial reads and writes on sockets are left out: lines are
far shorter than the buffers; on files and FIFOs they are modelled.

Not modelled, and why: the generated lexer and parser (a third of the lines of
the repository) and their grammar; the message-queue chat, in which no message
with text is ever matched (section 5); the query engine, one pass over a
constant table, and the expression evaluator, whose one function is its own
definition; the write benchmark with io_uring, which keeps one request in
flight; the scheduler and the simulated queues (loops that print), the shell and
thread exercises (a fork and a wait), the other file utilities (straight-line
I/O over one file), the kernel module and the eBPF program (callbacks without
state).

## 7. How the project was built

Done, in this order: MVCC with its detector and proofs; the futex queue with
proofs; the log; the cache; the policies, the tree and the key-value server; the
chat and echo servers, the hash map, the condition-variable buffer with proofs,
the memory log; the threaded server, the student table, and the suite of
processes with its liveness, the record filter with proofs; then the proofs of
the log, the cache, the two refinements and the programs of both suites; last
the red-black tree, the chat server, the types of the first suite and the
search of the deadlock detector.
