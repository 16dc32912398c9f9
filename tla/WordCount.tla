------------------------------- MODULE WordCount -------------------------------
(***************************************************************************)
(* The parallel word count of src/task-word-count-pthread.c.  The file is  *)
(* cut into one chunk per worker, wherever that falls; every worker counts *)
(* the words of its chunk and adds the result to a total under a mutex.    *)
(* Of a character only matters whether it is a space.                      *)
(***************************************************************************)
EXTENDS Integers, FiniteSets, Sequences

CONSTANTS
    WORKER_COUNT,
    MaxSize,        \* bound on the size of the file
    Nobody

VARIABLES
    text,               \* per character: does it belong to a word?
    stage,              \* per worker: count, lock, load, store or done
    local_count,        \* per worker
    loaded,             \* per worker: the total it is about to add to
    count_mutex,        \* worker that holds it, or Nobody
    global_word_count

vars == <<text, stage, local_count, loaded, count_mutex, global_word_count>>

Workers    == 0..(WORKER_COUNT - 1)
filesize   == Len(text)
chunk_size == filesize \div WORKER_COUNT
Start(w)   == w * chunk_size
End(w)     == IF w = WORKER_COUNT - 1 THEN filesize ELSE (w + 1) * chunk_size

Init ==
    /\ text \in UNION {[1..n -> BOOLEAN] : n \in 0..MaxSize}
    /\ stage = [w \in Workers |-> "count"]
    /\ local_count = [w \in Workers |-> 0]
    /\ loaded = [w \in Workers |-> 0]
    /\ count_mutex = Nobody
    /\ global_word_count = 0

\* The last characters of the words of positions s+1..e: a space follows, or
\* the chunk ends.  The mutant forgets the word at the end.
WordsBeforeSpace(s, e) == Cardinality({i \in (s + 1)..e : text[i] /\ i < e /\ ~text[i + 1]})
WordsIn(s, e)          == Cardinality({i \in (s + 1)..e : text[i] /\ (i < e => ~text[i + 1])})

Count(w) ==
    /\ stage[w] = "count"
    /\ local_count' = [local_count EXCEPT ![w] = WordsIn(Start(w), End(w))]
    /\ stage' = [stage EXCEPT ![w] = "lock"]
    /\ UNCHANGED <<text, loaded, count_mutex, global_word_count>>

Lock(w) ==
    /\ stage[w] = "lock"
    /\ count_mutex = Nobody
    /\ count_mutex' = w
    /\ stage' = [stage EXCEPT ![w] = "load"]
    /\ UNCHANGED <<text, local_count, loaded, global_word_count>>

\* global_word_count += local_count is a load and a store.
Load(w) ==
    /\ stage[w] = "load"
    /\ loaded' = [loaded EXCEPT ![w] = global_word_count]
    /\ stage' = [stage EXCEPT ![w] = "store"]
    /\ UNCHANGED <<text, local_count, count_mutex, global_word_count>>

Store(w) ==
    /\ stage[w] = "store"
    /\ global_word_count' = loaded[w] + local_count[w]
    /\ count_mutex' = Nobody
    /\ stage' = [stage EXCEPT ![w] = "done"]
    /\ UNCHANGED <<text, local_count, loaded>>

Worker(w) == Count(w) \/ Lock(w) \/ Load(w) \/ Store(w)

Next == \E w \in Workers : Worker(w)

Joined == \A w \in Workers : stage[w] = "done"
-----------------------------------------------------------------------------
TypeOK ==
    /\ stage \in [Workers -> {"count", "lock", "load", "store", "done"}]
    /\ local_count \in [Workers -> 0..MaxSize]
    /\ loaded \in [Workers -> 0..MaxSize]
    /\ count_mutex \in Workers \cup {Nobody}
    /\ global_word_count \in 0..MaxSize

\* The words of the whole file: their first characters.
Words == Cardinality({i \in 1..filesize : text[i] /\ (i > 1 => ~text[i - 1])})

\* The places where a chunk ends within a word.
Cuts == {p \in {Start(w) : w \in Workers} \ {0} : text[p] /\ text[p + 1]}

\* No update of the total is lost (lines 46-48), and what main prints is the
\* number of words plus one for every word that a chunk boundary cuts in two
\* (lines 95-101), also when the file is shorter than the number of workers.
TotalIsWordsAndCuts == Joined => global_word_count = Words + Cardinality(Cuts)
=============================================================================
