---------------------------- MODULE LockedHashMap ----------------------------
(***************************************************************************)
(* The hash map of src/pthread-hash-map.c with one mutex per bucket, and   *)
(* the worker threads that insert the same keys, each key with its value,  *)
(* and then look all of them up.  A call locks the bucket of its key,      *)
(* walks the chain, writes, and unlocks.                                   *)
(***************************************************************************)
EXTENDS Integers, SequencesExt

CONSTANTS
    Workers,
    KEYS,           \* keys 0..KEYS-1 of the loops in worker
    TABLE_SIZE,     \* buckets
    Nobody

VARIABLES
    buckets,        \* per bucket: the chain of nodes, newest first
    locks,          \* per bucket: the worker that holds its mutex, or Nobody
    at,             \* per worker: enter, walk, write, leave or done
    doing,          \* per worker: insert or lookup
    next,           \* per worker: key of the current call
    node,           \* per worker: place of the key in the chain, 0 if none
    result          \* per worker: per key, what the lookup returned

vars == <<buckets, locks, at, doing, next, node, result>>

\* The keys of worker, "key_0", "key_1" and so on, differ in the last
\* character alone, which hash adds at the end: they fall into consecutive
\* buckets.  Which bucket is the first makes no difference.
hash(k) == k % TABLE_SIZE

KeySet   == 0..(KEYS - 1)
Buckets  == 0..(TABLE_SIZE - 1)
Value(k) == k * 100
Node     == [key : KeySet, value : {Value(k) : k \in KeySet}]

Init ==
    /\ buckets = [b \in Buckets |-> <<>>]
    /\ locks = [b \in Buckets |-> Nobody]
    /\ at = [w \in Workers |-> "enter"]
    /\ doing = [w \in Workers |-> "insert"]
    /\ next = [w \in Workers |-> 0]
    /\ node = [w \in Workers |-> 0]
    /\ result = [w \in Workers |-> [k \in KeySet |-> -1]]
-----------------------------------------------------------------------------
\* pthread_mutex_lock does not return before the bucket is free.  The mutant
\* locks nothing.
NoExclusion(b) == TRUE
Free(b)        == locks[b] = Nobody

Enter(w) ==
    LET b == hash(next[w])
    IN  /\ at[w] = "enter"
        /\ Free(b)
        /\ locks' = [locks EXCEPT ![b] = w]
        /\ at' = [at EXCEPT ![w] = "walk"]
        /\ UNCHANGED <<buckets, doing, next, node, result>>

\* The loop along the chain.
Walk(w) ==
    /\ at[w] = "walk"
    /\ node' = [node EXCEPT ![w] = SelectInSeq(buckets[hash(next[w])],
                                               LAMBDA n : n.key = next[w])]
    /\ at' = [at EXCEPT ![w] = "write"]
    /\ UNCHANGED <<buckets, locks, doing, next, result>>

\* hashmap_insert updates the node it found or links a new one in front.
Write(w) ==
    LET k == next[w]
        b == hash(k)
    IN  /\ at[w] = "write" /\ doing[w] = "insert"
        /\ buckets' = [buckets EXCEPT ![b] =
              IF node[w] # 0 THEN [@ EXCEPT ![node[w]].value = Value(k)]
              ELSE <<[key |-> k, value |-> Value(k)]>> \o @]
        /\ at' = [at EXCEPT ![w] = "leave"]
        /\ UNCHANGED <<locks, doing, next, node, result>>

\* hashmap_lookup returns the value of the node, or -1.
NodeValue(w) == IF node[w] = 0 THEN -1 ELSE buckets[hash(next[w])][node[w]].value

Read(w) ==
    /\ at[w] = "write" /\ doing[w] = "lookup"
    /\ result' = [result EXCEPT ![w][next[w]] = NodeValue(w)]
    /\ at' = [at EXCEPT ![w] = "leave"]
    /\ UNCHANGED <<buckets, locks, doing, next, node>>

\* pthread_mutex_unlock, and the loops of worker go on.
Leave(w) ==
    /\ at[w] = "leave"
    /\ locks' = [locks EXCEPT ![hash(next[w])] = Nobody]
    /\ IF next[w] < KEYS - 1
         THEN /\ next' = [next EXCEPT ![w] = @ + 1]
              /\ at' = [at EXCEPT ![w] = "enter"]
              /\ UNCHANGED doing
         ELSE IF doing[w] = "insert"
         THEN /\ doing' = [doing EXCEPT ![w] = "lookup"]
              /\ next' = [next EXCEPT ![w] = 0]
              /\ at' = [at EXCEPT ![w] = "enter"]
         ELSE /\ at' = [at EXCEPT ![w] = "done"]
              /\ UNCHANGED <<doing, next>>
    /\ UNCHANGED <<buckets, node, result>>

Next == \E w \in Workers : Enter(w) \/ Walk(w) \/ Write(w) \/ Read(w) \/ Leave(w)

Spec == Init /\ [][Next]_vars
-----------------------------------------------------------------------------
TypeOK ==
    /\ buckets \in [Buckets -> Seq(Node)]
    /\ locks \in [Buckets -> Workers \cup {Nobody}]
    /\ at \in [Workers -> {"enter", "walk", "write", "leave", "done"}]
    /\ doing \in [Workers -> {"insert", "lookup"}]
    /\ next \in [Workers -> KeySet]
    /\ node \in [Workers -> Nat]
    /\ \A w \in Workers : result[w] \in [KeySet -> {-1} \cup {Value(k) : k \in KeySet}]

\* Whoever inserts first, a key has one node, in its own bucket (lines
\* 44-65): the walk and the link are one step for everybody else.
KeysUnique ==
    \A b \in Buckets :
        \A i, j \in DOMAIN buckets[b] :
            /\ hash(buckets[b][i].key) = b
            /\ buckets[b][i].key = buckets[b][j].key => i = j

\* A worker finds every key it inserted, with its value, although the others
\* link nodes in front of it between its calls (lines 104-114).
FindsItsKeys ==
    \A w \in Workers :
        at[w] = "done" => result[w] = [k \in KeySet |-> Value(k)]

\* The two together: concurrent insert and lookup calls neither duplicate nor
\* lose a key.
KeysFoundOnce == KeysUnique /\ FindsItsKeys
=============================================================================
