----------------------------- MODULE SharedCounters -----------------------------
(***************************************************************************)
(* Workers that count together: threads with an atomic counter or with a   *)
(* counter under a mutex (src/atomic-vs-mutex.c), and child processes that *)
(* each have a cell of a shared memory segment (src/shm-counter.c).        *)
(* Threads are created without failure; a fork may fail.                   *)
(***************************************************************************)
EXTENDS Integers, FiniteSets

CONSTANTS
    WORKERS,        \* NUM_THREADS in atomic-vs-mutex.c
    ITERATIONS,     \* NUM_ITERATIONS there
    Nobody

VARIABLES
    way,            \* atomic, mutex or shm
    creator,        \* main: creating, done or failed
    stage,          \* per worker: none, next, load, store or done
    i,              \* per worker: iterations done
    loaded,         \* per worker: the value it is about to increment
    lock,           \* worker that holds the mutex, or Nobody
    counter,        \* atomic_counter or mutex_counter
    counters,       \* the cells of the segment
    total           \* what main prints

vars == <<way, creator, stage, i, loaded, lock, counter, counters, total>>

Workers == 1..WORKERS

Init ==
    /\ way \in {"atomic", "mutex", "shm"}
    /\ creator = "creating"
    /\ stage = [w \in Workers |-> "none"]
    /\ i = [w \in Workers |-> 0]
    /\ loaded = [w \in Workers |-> 0]
    /\ lock = Nobody
    /\ counter = 0
    /\ counters = [w \in Workers |-> 0]
    /\ total = 0

\* pthread_create or fork, in the order of the workers.
Create(w) ==
    /\ creator = "creating"
    /\ stage[w] = "none" /\ \A v \in 1..(w - 1) : stage[v] # "none"
    /\ stage' = [stage EXCEPT ![w] = "next"]
    /\ UNCHANGED <<way, creator, i, loaded, lock, counter, counters, total>>

\* fork fails: main exits and leaves the children it has to themselves.
ForkFails ==
    /\ way = "shm" /\ creator = "creating"
    /\ \E w \in Workers : stage[w] = "none"
    /\ creator' = "failed"
    /\ UNCHANGED <<way, stage, i, loaded, lock, counter, counters, total>>

\* An iteration of atomic_worker.
AtomicAdd(w) ==
    /\ way = "atomic" /\ stage[w] = "next" /\ i[w] < ITERATIONS
    /\ counter' = counter + 1
    /\ i' = [i EXCEPT ![w] = @ + 1]
    /\ UNCHANGED <<way, creator, stage, loaded, lock, counters, total>>

\* An iteration of mutex_worker begins with the mutex, one of a child with
\* the load.
Begin(w) ==
    /\ way # "atomic" /\ stage[w] = "next" /\ i[w] < ITERATIONS
    /\ lock = Nobody
    /\ lock' = IF way = "mutex" THEN w ELSE lock
    /\ stage' = [stage EXCEPT ![w] = "load"]
    /\ UNCHANGED <<way, creator, i, loaded, counter, counters, total>>

Load(w) ==
    /\ stage[w] = "load"
    /\ loaded' = [loaded EXCEPT ![w] = IF way = "mutex" THEN counter ELSE counters[w]]
    /\ stage' = [stage EXCEPT ![w] = "store"]
    /\ UNCHANGED <<way, creator, i, lock, counter, counters, total>>

Store(w) ==
    /\ stage[w] = "store"
    /\ IF way = "mutex"
         THEN counter' = loaded[w] + 1 /\ UNCHANGED counters
         ELSE counters' = [counters EXCEPT ![w] = loaded[w] + 1] /\ UNCHANGED counter
    /\ lock' = Nobody
    /\ i' = [i EXCEPT ![w] = @ + 1]
    /\ stage' = [stage EXCEPT ![w] = "next"]
    /\ UNCHANGED <<way, creator, loaded, total>>

Finish(w) ==
    /\ stage[w] = "next" /\ i[w] = ITERATIONS
    /\ stage' = [stage EXCEPT ![w] = "done"]
    /\ UNCHANGED <<way, creator, i, loaded, lock, counter, counters, total>>

\* What main has added up after the first k cells.
Added[k \in 0..WORKERS] == IF k = 0 THEN 0 ELSE Added[k - 1] + counters[k]

\* All threads are joined, or all children waited for.
Join ==
    /\ creator = "creating"
    /\ \A w \in Workers : stage[w] = "done"
    /\ creator' = "done"
    /\ total' = IF way = "shm" THEN Added[WORKERS] ELSE counter
    /\ UNCHANGED <<way, stage, i, loaded, lock, counter, counters>>

Next ==
    \/ ForkFails \/ Join
    \/ \E w \in Workers :
          Create(w) \/ AtomicAdd(w) \/ Begin(w) \/ Load(w) \/ Store(w) \/ Finish(w)

Ended == creator = "done" \/ (creator = "failed" /\ \A w \in Workers : stage[w] \in {"none", "done"})
-----------------------------------------------------------------------------
TypeOK ==
    /\ way \in {"atomic", "mutex", "shm"}
    /\ creator \in {"creating", "done", "failed"}
    /\ stage \in [Workers -> {"none", "next", "load", "store", "done"}]
    /\ i \in [Workers -> 0..ITERATIONS]
    /\ lock \in Workers \cup {Nobody}

\* The iterations the workers have done, each as <<worker, number>>.
Iterations == {x \in Workers \X (1..ITERATIONS) : x[2] <= i[x[1]]}

\* No increment is lost, whatever the workers do in between: the counters
\* are at every moment the iterations done so far (atomic-vs-mutex.c lines
\* 15-34, shm-counter.c lines 44-53), and main prints all of them, which
\* takes that it does not read before the last worker is through.
CountersExact ==
    /\ way # "shm" => counter = Cardinality(Iterations)
    /\ way = "shm" => counters = i
    /\ creator = "done" => total = WORKERS * ITERATIONS
=============================================================================
