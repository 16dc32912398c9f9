---------------------------- MODULE BoundedQueue ----------------------------
(***************************************************************************)
(* The producer-consumer queue of src/bounded-producer-consumer-queue.c:   *)
(* a ring buffer under a mutex, with two futex words, not_full and         *)
(* not_empty, that a thread sets to 1 before it sleeps on them.            *)
(*                                                                         *)
(* The words are only stored under the mutex, but futex_wait compares them *)
(* after the mutex is given back: that is the interleaving that matters,   *)
(* and every step between two of its points is an action.                  *)
(***************************************************************************)
EXTENDS Integers, Sequences

CONSTANTS
    Producers, Consumers,   \* the threads
    BUFFER_SIZE,
    ITEMS_TO_PRODUCE,       \* iterations of every producer and every consumer
    NoThread                \* the mutex is free

ASSUME QueueAssumption ==
    /\ Producers \cap Consumers = {}
    /\ NoThread \notin Producers \cup Consumers
    /\ BUFFER_SIZE \in Nat \ {0}
    /\ ITEMS_TO_PRODUCE \in Nat \ {0}

Threads == Producers \cup Consumers
Items   == 1..ITEMS_TO_PRODUCE

VARIABLES
    buffer, in, out, count, \* the ring
    not_full, not_empty,    \* the futex words
    mutex,                  \* its holder, or NoThread
    pc,                     \* per thread
    i,                      \* per thread: its loop variable
    produced, consumed      \* every item put and taken so far, in order

vars == <<buffer, in, out, count, not_full, not_empty, mutex, pc, i,
          produced, consumed>>

\* lock  : at pthread_mutex_lock, lines 46, 55, 84, 93
\* check : holds the mutex, at the while condition, lines 49, 87
\* wait  : gave the mutex back, at futex_wait, lines 54, 92
\* asleep: in futex_wait
\* wake  : holds the mutex, at the test of the other side's word, lines 65, 103
\* done  : returned
Pcs == {"lock", "check", "wait", "asleep", "wake", "done"}

Init ==
    /\ buffer = [s \in 0..BUFFER_SIZE-1 |-> 0]
    /\ in = 0 /\ out = 0 /\ count = 0
    /\ not_full = 0 /\ not_empty = 0
    /\ mutex = NoThread
    /\ pc = [t \in Threads |-> "lock"]
    /\ i = [t \in Threads |-> 0]
    /\ produced = <<>> /\ consumed = <<>>

Lock(t) ==
    /\ pc[t] = "lock"
    /\ mutex = NoThread
    /\ mutex' = t
    /\ pc' = [pc EXCEPT ![t] = "check"]
    /\ UNCHANGED <<buffer, in, out, count, not_full, not_empty, i, produced, consumed>>

\* The body of the while loop up to the unlock: the word is set, then the
\* mutex is free.
ProducerMustWait(p) ==
    /\ pc[p] = "check"
    /\ count = BUFFER_SIZE
    /\ not_full' = 1
    /\ mutex' = NoThread
    /\ pc' = [pc EXCEPT ![p] = "wait"]
    /\ UNCHANGED <<buffer, in, out, count, not_empty, i, produced, consumed>>

ConsumerMustWait(c) ==
    /\ pc[c] = "check"
    /\ count = 0
    /\ not_empty' = 1
    /\ mutex' = NoThread
    /\ pc' = [pc EXCEPT ![c] = "wait"]
    /\ UNCHANGED <<buffer, in, out, count, not_full, i, produced, consumed>>

\* Mutant of FutexWait: sleeps without comparing the word.
FutexWaitBlind(t, word) ==
    /\ pc[t] = "wait"
    /\ pc' = [pc EXCEPT ![t] = "asleep"]
    /\ UNCHANGED <<buffer, in, out, count, not_full, not_empty, mutex, i,
                   produced, consumed>>

\* FUTEX_WAIT: the kernel compares the word with 1 and queues the caller in
\* one step; a word that is 0 again sends the caller straight back.
FutexWait(t, word) ==
    /\ pc[t] = "wait"
    /\ pc' = [pc EXCEPT ![t] = IF word = 1 THEN "asleep" ELSE "lock"]
    /\ UNCHANGED <<buffer, in, out, count, not_full, not_empty, mutex, i,
                   produced, consumed>>

\* The next slot of the ring, and its mutant that runs off the end.
AdvanceNoWrap(slot) == slot + 1
Advance(slot)       == (slot + 1) % BUFFER_SIZE

\* Mutant of Put: stores the item though the buffer is full.
PutAnyway(p) ==
    /\ pc[p] = "check"
    /\ buffer' = [buffer EXCEPT ![in] = i[p] + 1]
    /\ in' = Advance(in)
    /\ count' = count + 1
    /\ pc' = [pc EXCEPT ![p] = "wake"]
    /\ produced' = Append(produced, i[p] + 1)
    /\ UNCHANGED <<out, not_full, not_empty, mutex, i, consumed>>

Put(p) ==
    /\ pc[p] = "check"
    /\ count # BUFFER_SIZE
    /\ buffer' = [buffer EXCEPT ![in] = i[p] + 1]
    /\ in' = Advance(in)
    /\ count' = count + 1
    /\ pc' = [pc EXCEPT ![p] = "wake"]
    /\ produced' = Append(produced, i[p] + 1)
    /\ UNCHANGED <<out, not_full, not_empty, mutex, i, consumed>>

\* Mutant of Take: advances out before it reads the slot.
TakeNextSlot(c) ==
    /\ pc[c] = "check"
    /\ count # 0
    /\ out' = Advance(out)
    /\ count' = count - 1
    /\ pc' = [pc EXCEPT ![c] = "wake"]
    /\ consumed' = Append(consumed, buffer[Advance(out)])
    /\ UNCHANGED <<buffer, in, not_full, not_empty, mutex, i, produced>>

Take(c) ==
    /\ pc[c] = "check"
    /\ count # 0
    /\ out' = Advance(out)
    /\ count' = count - 1
    /\ pc' = [pc EXCEPT ![c] = "wake"]
    /\ consumed' = Append(consumed, buffer[out])
    /\ UNCHANGED <<buffer, in, not_full, not_empty, mutex, i, produced>>

\* Where the loop takes a thread that ends an iteration.
AfterIteration(t) == IF i[t] + 1 < ITEMS_TO_PRODUCE THEN "lock" ELSE "done"

\* Mutant of Wake: resets the word and wakes nobody.
WakeNobody(t, sleepers, word) ==
    /\ pc[t] = "wake"
    /\ mutex' = NoThread
    /\ i' = [i EXCEPT ![t] = @ + 1]
    /\ pc' = [pc EXCEPT ![t] = AfterIteration(t)]
    /\ UNCHANGED <<buffer, in, out, count, produced, consumed>>

\* Lines 65-71 and 103-109: the other side's word, if it is 1, is reset and
\* FUTEX_WAKE wakes one of the threads asleep on it, if there is one; then
\* the mutex is given back and the iteration ends.
Wake(t, sleepers, word) ==
    /\ pc[t] = "wake"
    /\ mutex' = NoThread
    /\ i' = [i EXCEPT ![t] = @ + 1]
    /\ \/ /\ word = 1 /\ sleepers # {}
          /\ \E s \in sleepers :
               pc' = [pc EXCEPT ![t] = AfterIteration(t), ![s] = "lock"]
       \/ /\ word = 0 \/ sleepers = {}
          /\ pc' = [pc EXCEPT ![t] = AfterIteration(t)]
    /\ UNCHANGED <<buffer, in, out, count, produced, consumed>>

SleepingConsumers == {c \in Consumers : pc[c] = "asleep"}
SleepingProducers == {p \in Producers : pc[p] = "asleep"}

WakeConsumer(p) ==
    /\ Wake(p, SleepingConsumers, not_empty)
    /\ not_empty' = 0
    /\ UNCHANGED not_full

WakeProducer(c) ==
    /\ Wake(c, SleepingProducers, not_full)
    /\ not_full' = 0
    /\ UNCHANGED not_empty

Producer(p) ==
    \/ Lock(p)
    \/ ProducerMustWait(p)
    \/ FutexWait(p, not_full)
    \/ Put(p)
    \/ WakeConsumer(p)

Consumer(c) ==
    \/ Lock(c)
    \/ ConsumerMustWait(c)
    \/ FutexWait(c, not_empty)
    \/ Take(c)
    \/ WakeProducer(c)

\* main joins every thread and returns.
AllDone == \A t \in Threads : pc[t] = "done"

Joined == AllDone /\ UNCHANGED vars

Next ==
    \/ \E p \in Producers : Producer(p)
    \/ \E c \in Consumers : Consumer(c)
    \/ Joined

\* Every thread that can run is scheduled, and a contended mutex is granted
\* to each of its waiters in the end.
Fairness ==
    /\ \A p \in Producers : SF_vars(Lock(p)) /\ WF_vars(Producer(p))
    /\ \A c \in Consumers : SF_vars(Lock(c)) /\ WF_vars(Consumer(c))

Spec == Init /\ [][Next]_vars /\ Fairness
-----------------------------------------------------------------------------
TypeOK ==
    /\ buffer \in [0..BUFFER_SIZE-1 -> 0..ITEMS_TO_PRODUCE]
    /\ in \in 0..BUFFER_SIZE-1
    /\ out \in 0..BUFFER_SIZE-1
    /\ count \in 0..BUFFER_SIZE
    /\ not_full \in {0, 1}
    /\ not_empty \in {0, 1}
    /\ mutex \in Threads \cup {NoThread}
    /\ pc \in [Threads -> Pcs]
    /\ i \in [Threads -> 0..ITEMS_TO_PRODUCE]
    /\ produced \in Seq(Items)
    /\ consumed \in Seq(Items)

\* The slots between out and in, in the order they will be taken.
Contents == [n \in 1..count |-> buffer[(out + n - 1) % BUFFER_SIZE]]

\* Nothing is lost, duplicated, reordered or read from a stale slot: what
\* came out, followed by what the ring holds, is what went in (lines 59-61
\* and 97-99), through any number of wrap-arounds.
FifoExact == produced = consumed \o Contents

\* The buffer implements the abstract bounded queue.
Fifo == INSTANCE BoundedFifo WITH
            Capacity <- BUFFER_SIZE, queue <- Contents, taken <- consumed

FifoSpec == Fifo!Spec

\* The comments at lines 64 and 102, "Wake up one consumer if waiting" and
\* "Wake up one producer if waiting": a thread that ends an iteration leaves
\* one sleeper of the other side less, if there was one.
WakesAWaiter ==
    [][/\ \A p \in Producers :
            (WakeConsumer(p) /\ SleepingConsumers # {}) => SleepingConsumers' # SleepingConsumers
       /\ \A c \in Consumers :
            (WakeProducer(c) /\ SleepingProducers # {}) => SleepingProducers' # SleepingProducers]_vars
=============================================================================
