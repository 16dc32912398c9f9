------------------------------ MODULE MCPrograms ------------------------------
(***************************************************************************)
(* The programs of the collection that run by themselves, side by side:    *)
(* the user starts one of them, prog, and the state of the others stays at *)
(* its initial value.  The checker explores the union of their states.     *)
(***************************************************************************)
EXTENDS Integers, TLC

CONSTANTS
    MAX_FRAMES, MAX_PAGES, Pages, NoPage,
    Numbers, MaxNodes, NULL,
    Clients, Keys, Values, MAX_ENTRIES, BACKLOG, None,
    MAX_USERS, MaxLines, MAX_CLIENTS, MaxEchoes,
    KEYS, TABLE_SIZE,
    BUFFER_SIZE, ITEMS,
    Addresses, Counts, UINT, MaxIds, MaxFiles,
    Sessions, TABLE_ENTRIES, MaxCommands, MaxRaced,
    Rolls, Names, Marks, BadRoll, BadMark, MaxStudents,
    c1, c2, c3

VARIABLES
    prog,
    choice, buffer, hits, misses, time, counter, lastUse,
    refBit, pointer, page, atMiss, skipped,
    T1, T2, B1, B2, p, hitsARC, missesARC, requested,
    tree, count, newnode, rotationcount, crooked,
    store, serving, backlog, client, inbox, reply, closed, up, last,
    running, client_fd, waiting, ready, member, typed, unread, heard, shown,
    transcript, joined, broken,
    alive, clients, queued, turns, prompt, lines, sentOut, echoed, refused, lost,
    buckets, locks, at, doing, next, node, result,
    stack, depth, mutex, pc, made, taken,
    id, head, heap, openFiles,
    entries, store_count, user, used, thread, cmd, scanned, slot, loaded, answer,
    online, overrun, overlapped, latest, since,
    class, numberOfstudents, filled, menu

Simulator == INSTANCE PageCacheSimulator
RBTree    == INSTANCE RedBlackTree WITH Values <- Numbers
KV        == INSTANCE KVServer
Chat      == INSTANCE ChatServer WITH Users <- Clients
EchoSrv   == INSTANCE EchoServer WITH Users <- Clients
HashMap   == INSTANCE LockedHashMap WITH Workers <- Clients, Nobody <- None
Stack     == INSTANCE CondBuffer WITH buffer <- stack, count <- depth
Memory    == INSTANCE MemoryLog
Threaded  == INSTANCE ThreadedKV WITH Clients <- Sessions, MAX_ENTRIES <- TABLE_ENTRIES,
                 store <- entries, at <- thread, i <- scanned, up <- online
Students  == INSTANCE StudentRecords WITH p <- class, i <- filled, running <- menu

\* What the modules above expect of their constants.
ASSUME ConstantsAssumption ==
    /\ MAX_FRAMES \in Nat \ {0}
    /\ MAX_PAGES \in Nat
    /\ NoPage \notin Pages
    /\ RBTree!SizesOK
    /\ MAX_ENTRIES \in Nat
    /\ BACKLOG \in Nat \ {0}
    /\ None \notin Clients \cup Values \cup KV!Commands /\ None \notin Nat
    /\ {MAX_USERS, MAX_CLIENTS, KEYS, TABLE_SIZE} \subseteq Nat \ {0}
    /\ {MaxLines, MaxEchoes, MaxIds, MaxFiles} \subseteq Nat
    /\ Stack!SizesOK
    /\ Counts \subseteq Int
    /\ UINT \in Nat /\ UINT > 8 /\ UINT % 2 = 0
    /\ TABLE_ENTRIES \in Nat \ {0} /\ MaxRaced \in 0..MaxCommands
    /\ None \notin Sessions \cup Keys
    /\ BadRoll \notin Rolls /\ MaxStudents \in Nat \ {0}
    /\ \A subject \in Marks : DOMAIN subject = 1..3

pageVars == <<choice, buffer, hits, misses, time, counter, lastUse, refBit, pointer,
              page, atMiss, skipped, T1, T2, B1, B2, p, hitsARC, missesARC, requested>>
treeVars == <<tree, count, newnode, rotationcount, crooked>>
kvVars   == <<store, serving, backlog, client, inbox, reply, closed, up, last>>
chatVars == <<running, client_fd, waiting, ready, member, typed, unread, heard, shown,
              transcript, joined, broken>>
echoVars == <<alive, clients, queued, turns, prompt, lines, sentOut, echoed, refused, lost>>
hashVars == <<buckets, locks, at, doing, next, node, result>>
condVars == <<stack, depth, mutex, pc, made, taken>>
logVars  == <<id, head, heap, openFiles>>
threadVars  == <<entries, store_count, user, used, thread, cmd, scanned, slot, loaded, answer,
                 online, overrun, overlapped, latest, since>>
studentVars == <<class, numberOfstudents, filled, menu>>
vars     == <<prog, pageVars, treeVars, kvVars, chatVars, echoVars, hashVars, condVars, logVars,
              threadVars, studentVars>>

Init ==
    /\ prog \in {"pages", "tree", "kv", "chat", "echo", "hash", "stack", "memory",
                 "threads", "students"}
    /\ Simulator!Init
    /\ prog = "pages" \/ choice = 4
    /\ RBTree!Init
    /\ KV!Init
    /\ Chat!Init
    /\ EchoSrv!Init
    /\ HashMap!Init
    /\ Stack!Init
    /\ Memory!Init
    /\ Threaded!Init
    /\ Students!Init
    /\ prog = "students" \/ numberOfstudents = 1

\* The program has returned, or there is nobody left to use it.
Finished ==
    \/ prog = "pages" /\ Simulator!Finished
    \/ prog = "tree" /\ count = MaxNodes /\ newnode = NULL
    \/ prog = "kv" /\ \A c \in Clients : client[c] = "gone"
    \/ prog = "chat" /\ \A c \in Clients : member[c] = "gone"
    \/ prog = "echo" /\ \A c \in Clients : prompt[c] = "gone"
    \/ prog = "hash" /\ \A w \in Clients : at[w] = "done"
    \/ prog = "stack" /\ \A t \in Stack!Threads : pc[t] = "done"
    \/ prog = "memory" /\ id > MaxIds /\ head = <<>>
    \/ prog = "threads" /\ (overrun \/ ~online)
    \/ prog = "threads" /\ \A c \in Sessions : user[c] = "gone" /\ thread[c] = "closed"
    \/ prog = "students" /\ menu = "left"

Next ==
    \/ /\ prog = "pages" /\ Simulator!Next
       /\ UNCHANGED <<prog, treeVars, kvVars, chatVars, echoVars, hashVars, condVars, logVars,
                      threadVars, studentVars>>
    \/ /\ prog = "tree" /\ RBTree!Next
       /\ UNCHANGED <<prog, pageVars, kvVars, chatVars, echoVars, hashVars, condVars, logVars,
                      threadVars, studentVars>>
    \/ /\ prog = "kv" /\ KV!Next
       /\ UNCHANGED <<prog, pageVars, treeVars, chatVars, echoVars, hashVars, condVars, logVars,
                      threadVars, studentVars>>
    \/ /\ prog = "chat" /\ Chat!Next
       /\ UNCHANGED <<prog, pageVars, treeVars, kvVars, echoVars, hashVars, condVars, logVars,
                      threadVars, studentVars>>
    \/ /\ prog = "echo" /\ EchoSrv!Next
       /\ UNCHANGED <<prog, pageVars, treeVars, kvVars, chatVars, hashVars, condVars, logVars,
                      threadVars, studentVars>>
    \/ /\ prog = "hash" /\ HashMap!Next
       /\ UNCHANGED <<prog, pageVars, treeVars, kvVars, chatVars, echoVars, condVars, logVars,
                      threadVars, studentVars>>
    \/ /\ prog = "stack" /\ Stack!Next
       /\ UNCHANGED <<prog, pageVars, treeVars, kvVars, chatVars, echoVars, hashVars, logVars,
                      threadVars, studentVars>>
    \/ /\ prog = "memory" /\ Memory!Next
       /\ UNCHANGED <<prog, pageVars, treeVars, kvVars, chatVars, echoVars, hashVars, condVars,
                      threadVars, studentVars>>
    \/ /\ prog = "threads" /\ Threaded!Next
       /\ UNCHANGED <<prog, pageVars, treeVars, kvVars, chatVars, echoVars, hashVars, condVars,
                      logVars, studentVars>>
    \/ /\ prog = "students" /\ Students!Next
       /\ UNCHANGED <<prog, pageVars, treeVars, kvVars, chatVars, echoVars, hashVars, condVars,
                      logVars, threadVars>>
    \/ Finished /\ UNCHANGED vars

Spec == Init /\ [][Next]_vars

\* What a user may enter as a size.
SmallCounts == {-1, 1, 5}

\* Passing, failing, and each mark refused in turn.
SomeMarks == {<<40, 40, 40>>, <<60, 60, 60>>, <<0, 60, 60>>, <<60, 0, 60>>, <<60, 60, 0>>}

\* Clients are interchangeable.
Symmetry == Permutations({c1, c2, c3})
-----------------------------------------------------------------------------
\* The state of the program that runs has its type.
TypeOK ==
    CASE prog = "pages"    -> Simulator!TypeOK
      [] prog = "tree"     -> RBTree!TypeOK
      [] prog = "kv"       -> KV!TypeOK
      [] prog = "chat"     -> Chat!TypeOK
      [] prog = "echo"     -> EchoSrv!TypeOK
      [] prog = "hash"     -> HashMap!TypeOK
      [] prog = "stack"    -> Stack!TypeOK
      [] prog = "memory"   -> Memory!TypeOK
      [] prog = "threads"  -> Threaded!TypeOK
      [] prog = "students" -> Students!TypeOK

\* simulateLRU keeps the pages used last; simulateARC has every page it has
\* seen in exactly one of its lists, and holds MAX_FRAMES pages, and one more
\* for every eviction from an empty list.
PagesKept == prog = "pages" =>
    /\ choice = 1 => Simulator!LRU!KeepsMostRecent
    /\ Simulator!ARC!EveryPageOnce
    /\ Simulator!ARC!FramesAccounted

\* simulateClock spares a page used since the hand went past, if it can.
SecondChance == Simulator!Clock!SecondChance

\* Rotations keep one sorted tree of all inserted nodes, and the red-black
\* rules hold until a node is rotated from the inner side.
TreeRules == prog = "tree" => RBTree!SearchTree /\ RBTree!RedBlackRules

\* The table of the key-value server is a bounded map.
MapSpec == KV!MapSpec

\* The key-value server loses no command and leaves no client without an
\* answer or an end of file.
NobodyForgotten == prog = "kv" => KV!NobodyForgotten

\* The chat server shows everybody the same conversation, and prints what
\* each user types, once and in order.
ChatExact == prog = "chat" => Chat!SameConversation /\ Chat!NothingLost

\* No client can end the echo server, and a client that waits has one line
\* under way.
EchoOrderly == prog = "echo" => EchoSrv!SurvivesClients /\ EchoSrv!OneLineUnderWay

\* The locked hash map holds a key once, and its workers find what they
\* inserted.
KeysFoundOnce == prog = "hash" => HashMap!KeysFoundOnce

\* The buffer with condition variables is a stack that loses nothing, and
\* its threads sleep only while they have to.
BufferExact == prog = "stack" => Stack!StackExact /\ Stack!SleepJustified

\* The memory log lists exactly the allocated blocks, with the right sizes.
LogMatchesHeap == prog = "memory" => Memory!TracksHeap /\ Memory!SizesLogged

\* The threads of the key-value server do no harm without a lock while one
\* of them at a time sets a key.
SafeWithOneWriter == prog = "threads" => Threaded!SafeWithOneWriter

\* The table of students stays sound whatever is refused and entered again.
TableSound == prog = "students" => Students!TableSound
=============================================================================
