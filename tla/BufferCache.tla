----------------------------- MODULE BufferCache -----------------------------
(***************************************************************************)
(* The block cache of src/filesystem.c: a pool of buffers with a free      *)
(* list, and an LRU list of cache nodes with a table of hash buckets.      *)
(*                                                                         *)
(* A node owns one buffer from malloc to free, so the buffer is the node's *)
(* name.  The prev and next pointers form the LRU list, most recent first; *)
(* cacheput sets next to the bucket's old head and then lets addtofront    *)
(* overwrite it, so the "bucket chain" of a lookup is the LRU list from    *)
(* the bucket's node on.                                                   *)
(***************************************************************************)
EXTENDS Integers, Sequences, SequencesExt, FiniteSets

CONSTANTS
    Keys,       \* block keys
    CACHE_SIZE, \* capacity of the cache, and number of buckets
    POOL_SIZE,  \* buffers of the pool
    hash,       \* key -> bucket
    NULL

ASSUME CacheAssumption ==
    /\ CACHE_SIZE \in Nat \ {0}
    /\ POOL_SIZE \in Nat \ {0}
    /\ hash \in [Keys -> 0..CACHE_SIZE-1]
    /\ NULL \notin Keys /\ NULL \notin 0..POOL_SIZE-1

VARIABLES
    freelist,   \* free buffers, first one first
    data,       \* per buffer: the block it holds, NULL if zeroed
    lru,        \* cached nodes, head (most recent) first
    key,        \* per buffer: the key of the node that owns it
    nodes,      \* per bucket: a node, or NULL
    returned,   \* what the last call of files read from: a buffer, or NULL
    running     \* main has not begun its cleanup

vars == <<freelist, data, lru, key, nodes, returned, running>>

Buffers == 0..POOL_SIZE-1
Buckets == 0..CACHE_SIZE-1

Init ==
    /\ freelist = [n \in 1..POOL_SIZE |-> n - 1]
    /\ data = [b \in Buffers |-> NULL]
    /\ lru = <<>>
    /\ key = [b \in Buffers |-> NULL]
    /\ nodes = [h \in Buckets |-> NULL]
    /\ returned = NULL
    /\ running = TRUE

\* The positions in the LRU list of the nodes a lookup of k compares: from
\* the bucket's node along next, which is the LRU list.  There are none when
\* the bucket is NULL.
Walk(k) == {p \in 1..Len(lru) : \E q \in 1..p : lru[q] = nodes[hash[k]]}

\* Those that hold k.
Found(k) == {p \in Walk(k) : key[lru[p]] = k}

\* Mutant of MoveToFront: does not unlink the node first.
MoveToFrontTwice(p) == <<lru[p]>> \o lru

MoveToFront(p) == <<lru[p]>> \o RemoveAt(lru, p)

\* cache_get finds the key: the first node that holds it moves to the front,
\* and files reads its buffer.
Hit(k) ==
    \E p \in Found(k) :
        /\ \A q \in Found(k) : p <= q
        /\ lru' = MoveToFront(p)
        /\ returned' = lru[p]
        /\ UNCHANGED <<freelist, data, key, nodes, running>>

\* A miss, and acquire_buffer finds the pool empty.  The cache is not asked
\* to evict first.
Exhausted(k) ==
    /\ Found(k) = {}
    /\ freelist = <<>>
    /\ returned' = NULL
    /\ UNCHANGED <<freelist, data, lru, key, nodes, running>>

\* The cache is full; its mutant is off by one.
FullTooLate == Len(lru) > CACHE_SIZE
Full        == Len(lru) >= CACHE_SIZE

\* release_buffer of the victim after acquire_buffer took the first free
\* buffer.
Released(victim) == <<victim>> \o Tail(freelist)

\* release_buffer zeroes the contents; the mutant does not.
NotWiped(victim) == data
Wiped(victim)    == [data EXCEPT ![victim] = NULL]

\* The bucket of the victim's key, if it points at the victim, gets the
\* victim's next, which is NULL at the tail; the mutant leaves the pointer.
BucketsAsBefore(victim) == nodes
BucketsWithout(victim)  ==
    [nodes EXCEPT ![hash[key[victim]]] = IF @ = victim THEN NULL ELSE @]

\* A miss with a free buffer: it is filled, the least recently used node is
\* evicted if the cache is full, and a new node is put at the head of the
\* bucket and of the LRU list.  cacheput repeats the lookup first, with the
\* same answer.
Load(k) ==
    LET buf    == Head(freelist)
        victim == Last(lru)
    IN  /\ Found(k) = {}
        /\ freelist # <<>>
        /\ freelist' = IF Full THEN Released(victim) ELSE Tail(freelist)
        /\ data' = [(IF Full THEN Wiped(victim) ELSE data) EXCEPT ![buf] = k]
        /\ key' = [(IF Full THEN [key EXCEPT ![victim] = NULL] ELSE key) EXCEPT ![buf] = k]
        /\ nodes' = [(IF Full THEN BucketsWithout(victim) ELSE nodes) EXCEPT ![hash[k]] = buf]
        /\ lru' = <<buf>> \o (IF Full THEN Front(lru) ELSE lru)
        /\ returned' = buf
        /\ UNCHANGED running

\* files(pool, cache, k, data)
Files(k) == running /\ (Hit(k) \/ Exhausted(k) \/ Load(k))

\* The end of main: from the head on, every node gives its buffer back and
\* is freed, and so is the cache.
Cleanup ==
    /\ running
    /\ running' = FALSE
    /\ freelist' = Reverse(lru) \o freelist
    /\ data' = [b \in Buffers |-> IF b \in ToSet(lru) THEN NULL ELSE data[b]]
    /\ key' = [b \in Buffers |-> NULL]
    /\ nodes' = [h \in Buckets |-> NULL]
    /\ lru' = <<>>
    /\ returned' = NULL

Exited == ~running /\ UNCHANGED vars

Next == Cleanup \/ Exited \/ \E k \in Keys : Files(k)

Spec == Init /\ [][Next]_vars
-----------------------------------------------------------------------------
TypeOK ==
    /\ freelist \in Seq(Buffers)
    /\ data \in [Buffers -> Keys \cup {NULL}]
    /\ lru \in Seq(Buffers)
    /\ Len(lru) <= CACHE_SIZE
    /\ key \in [Buffers -> Keys \cup {NULL}]
    /\ nodes \in [Buckets -> Buffers \cup {NULL}]
    /\ returned \in Buffers \cup {NULL}
    /\ running \in BOOLEAN

\* No buffer is leaked, freed twice or shared: each one is in the free list
\* once or in the LRU list once, through any sequence of hits, loads and
\* evictions, and through the cleanup (lines 93-128, 255-271, 338-345).
BuffersConserved ==
    /\ IsInjective(freelist \o lru)
    /\ ToSet(freelist \o lru) = Buffers

\* No bucket keeps a pointer to a node that eviction freed (lines 261-267),
\* and none points into another bucket.
BucketsAlive ==
    \A h \in Buckets :
        nodes[h] # NULL => nodes[h] \in ToSet(lru) /\ hash[key[nodes[h]]] = h

\* What files reads is the block it was asked for: a cached buffer holds the
\* block of its node, and a free one was wiped.
DataMatchesKey ==
    /\ \A b \in ToSet(lru) : data[b] = key[b] /\ data[b] \in Keys
    /\ \A b \in ToSet(freelist) : data[b] = NULL

\* Line 215, "get buffer from cache if key is present".
PresentIsFound ==
    \A b \in ToSet(lru) : Found(key[b]) # {}
=============================================================================
