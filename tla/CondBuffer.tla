------------------------------ MODULE CondBuffer ------------------------------
(***************************************************************************)
(* The producer and the consumer of src/threads-buffer-w-p&c.c: a buffer   *)
(* used as a stack, guarded by one mutex, with a condition variable for    *)
(* each of the two threads to wait on.  pthread_cond_wait gives the mutex  *)
(* back while it waits, may return for no reason, and takes the mutex      *)
(* again before the loop around it looks at count once more.               *)
(***************************************************************************)
EXTENDS Integers, Sequences

CONSTANTS
    BUFFER_SIZE,
    ITEMS           \* what the producer makes and the consumer takes

\* What the program's #define and loop bounds provide.
SizesOK == BUFFER_SIZE \in Nat \ {0} /\ ITEMS \in Nat

VARIABLES
    buffer,         \* the array
    count,          \* cells in use
    mutex,          \* thread that holds the mutex, or "free"
    pc,             \* per thread: lock, held, wait, woken, done
    made,           \* items produced
    taken           \* history: items consumed, in order

vars == <<buffer, count, mutex, pc, made, taken>>

Threads == {"producer", "consumer"}
Cells   == 0..(BUFFER_SIZE - 1)

Init ==
    /\ buffer = [j \in Cells |-> 0]
    /\ count = 0
    /\ mutex = "free"
    /\ pc = [t \in Threads |-> IF ITEMS = 0 THEN "done" ELSE "lock"]
    /\ made = 0
    /\ taken = <<>>
-----------------------------------------------------------------------------
\* pthread_mutex_lock, or the end of pthread_cond_wait.
Lock(t) ==
    /\ pc[t] \in {"lock", "woken"}
    /\ mutex = "free"
    /\ mutex' = t
    /\ pc' = [pc EXCEPT ![t] = "held"]
    /\ UNCHANGED <<buffer, count, made, taken>>

\* pthread_cond_wait: sleep and release the mutex in one step.
Wait(t, blocked) ==
    /\ pc[t] = "held"
    /\ blocked
    /\ pc' = [pc EXCEPT ![t] = "wait"]
    /\ mutex' = "free"
    /\ UNCHANGED <<buffer, count, made, taken>>

WaitNotFull  == Wait("producer", count = BUFFER_SIZE)
WaitNotEmpty == Wait("consumer", count = 0)

\* pthread_cond_wait may return without a signal.
SpuriousWakeup(t) ==
    /\ pc[t] = "wait"
    /\ pc' = [pc EXCEPT ![t] = "woken"]
    /\ UNCHANGED <<buffer, count, mutex, made, taken>>

\* pthread_cond_signal and pthread_mutex_unlock by t, which goes on with its
\* loop.  The mutant of the signal wakes nobody.
Unsignalled(t) == pc[t]
Signalled(t)   == IF pc[t] = "wait" THEN "woken" ELSE pc[t]

SignalAndUnlock(t, more) ==
    /\ mutex' = "free"
    /\ pc' = [u \in Threads |-> IF u = t THEN IF more THEN "lock" ELSE "done"
                                ELSE Signalled(u)]

\* Where the consumer takes its item.  The mutant is the one of a queue.
First == 0
Top   == count - 1

Produce ==
    /\ pc["producer"] = "held"
    /\ count # BUFFER_SIZE
    /\ buffer' = [buffer EXCEPT ![count] = made + 1]
    /\ count' = count + 1
    /\ made' = made + 1
    /\ SignalAndUnlock("producer", made + 1 < ITEMS)
    /\ UNCHANGED taken

Consume ==
    /\ pc["consumer"] = "held"
    /\ count # 0
    /\ taken' = Append(taken, buffer[Top])
    /\ count' = count - 1
    /\ SignalAndUnlock("consumer", Len(taken) + 1 < ITEMS)
    /\ UNCHANGED <<buffer, made>>

Next ==
    \/ \E t \in Threads : Lock(t) \/ SpuriousWakeup(t)
    \/ WaitNotFull \/ WaitNotEmpty
    \/ Produce \/ Consume

Spec == Init /\ [][Next]_vars
-----------------------------------------------------------------------------
TypeOK ==
    /\ buffer \in [Cells -> 0..ITEMS]
    /\ count \in 0..BUFFER_SIZE
    /\ mutex \in Threads \cup {"free"}
    /\ pc \in [Threads -> {"lock", "held", "wait", "woken", "done"}]
    /\ made \in 0..ITEMS
    /\ taken \in Seq(1..ITEMS)
    /\ Len(taken) <= ITEMS

\* The stack keeps its promise (lines 26-28 and 52-53): the cells in use are
\* in the order of production, and every item made is either in one cell or
\* was taken once.
StackExact ==
    /\ \A j, k \in 0..(count - 1) : j < k => buffer[j] < buffer[k]
    /\ \A n \in 1..made :
          \/ \E j \in 0..(count - 1) : buffer[j] = n
          \/ \E l \in 1..Len(taken) : taken[l] = n
    /\ \A j \in 0..(count - 1), l \in 1..Len(taken) : taken[l] # buffer[j]
    /\ made = count + Len(taken)

\* No wake-up is lost (lines 21-31 and 47-57): a thread sleeps only while
\* what it waits for has not happened, and never both at once.
SleepJustified ==
    /\ pc["producer"] = "wait" => count = BUFFER_SIZE
    /\ pc["consumer"] = "wait" => count = 0
    /\ \A t \in Threads : (pc[t] = "held") = (mutex = t)
=============================================================================
