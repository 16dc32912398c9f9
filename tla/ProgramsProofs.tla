---------------------------- MODULE ProgramsProofs ----------------------------
(***************************************************************************)
(* Proofs about the programs of the module MCPrograms, for every value of  *)
(* the constants.  A program that is not the one started stands still, so  *)
(* each is proved about on its own, from its own steps.                    *)
(***************************************************************************)
EXTENDS ServersProofs
-----------------------------------------------------------------------------
(***************************************************************************)
(* The producer and the consumer of src/threads-buffer-w-p&c.c.            *)
(***************************************************************************)
\* A thread that has the mutex or waits for it still has work to do; the
\* loops of the two threads count what StackExact counts.
StackLoops ==
    /\ pc["producer"] # "done" => made < ITEMS
    /\ pc["consumer"] # "done" => Len(taken) < ITEMS

\* The cells in use and the consumer hold items already made.
StackCells ==
    /\ \A j \in 0..(depth - 1) : stack[j] \in 1..made
    /\ \A l \in 1..Len(taken) : taken[l] \in 1..made

StackInv == Stack!TypeOK /\ Stack!StackExact /\ Stack!SleepJustified /\ StackLoops /\ StackCells

\* The initial state satisfies the invariant.
LEMMA StackInit == ASSUME Stack!SizesOK PROVE Stack!Init => StackInv
  BY DEF Stack!SizesOK, Stack!Init, StackInv, Stack!TypeOK, Stack!StackExact, Stack!SleepJustified, StackLoops, StackCells, Stack!Threads, Stack!Cells

\* Taking or giving back the mutex, waiting and waking touch no item.
LEMMA StackLock ==
    ASSUME Stack!SizesOK, StackInv, NEW t \in Stack!Threads, Stack!Lock(t) \/ Stack!SpuriousWakeup(t)
    PROVE  StackInv'
  <1>1. Stack!TypeOK'
    BY DEF Stack!SizesOK, StackInv, Stack!TypeOK, Stack!Lock, Stack!SpuriousWakeup, Stack!Threads
  <1>2. Stack!StackExact' /\ StackCells'
    BY DEF StackInv, Stack!StackExact, StackCells, Stack!Lock, Stack!SpuriousWakeup
  <1>3. Stack!SleepJustified'
    BY DEF StackInv, Stack!TypeOK, Stack!SleepJustified, Stack!Lock, Stack!SpuriousWakeup, Stack!Threads
  <1>4. StackLoops'
    BY DEF StackInv, Stack!TypeOK, StackLoops, Stack!Lock, Stack!SpuriousWakeup, Stack!Threads
  <1> QED BY <1>1, <1>2, <1>3, <1>4 DEF StackInv

\* Both pthread_cond_wait loops touch no item either.
LEMMA StackWait ==
    ASSUME Stack!SizesOK, StackInv, Stack!WaitNotFull \/ Stack!WaitNotEmpty
    PROVE  StackInv'
  <1>1. Stack!TypeOK'
    BY DEF Stack!SizesOK, StackInv, Stack!TypeOK, Stack!WaitNotFull, Stack!WaitNotEmpty, Stack!Wait, Stack!Threads
  <1>2. Stack!StackExact' /\ StackCells'
    BY DEF StackInv, Stack!StackExact, StackCells, Stack!WaitNotFull, Stack!WaitNotEmpty, Stack!Wait
  <1>3. Stack!SleepJustified'
    BY DEF StackInv, Stack!TypeOK, Stack!SleepJustified, Stack!WaitNotFull, Stack!WaitNotEmpty, Stack!Wait, Stack!Threads
  <1>4. StackLoops'
    BY DEF StackInv, Stack!TypeOK, StackLoops, Stack!WaitNotFull, Stack!WaitNotEmpty, Stack!Wait, Stack!Threads
  <1> QED BY <1>1, <1>2, <1>3, <1>4 DEF StackInv

\* What Produce and Consume leave behind of the threads: after the signal
\* nobody waits, the mutex is free, and only t can have come to its end.
StackSignalling(t, more) ==
    /\ mutex' = "free"
    /\ pc' \in [Stack!Threads -> {"lock", "held", "wait", "woken", "done"}]
    /\ \A u \in Stack!Threads : pc'[u] # "wait" /\ pc'[u] # "held"
    /\ \A u \in Stack!Threads : pc'[u] # "done" => pc[u] # "done" /\ (u = t => more)

\* The producer signals not_empty and unlocks.
LEMMA StackProduceSignals ==
    ASSUME StackInv, Stack!Produce
    PROVE  StackSignalling("producer", made + 1 < ITEMS)
  <1>1. pc \in [Stack!Threads -> {"lock", "held", "wait", "woken", "done"}]
    BY DEF StackInv, Stack!TypeOK
  <1>2. pc["consumer"] # "held" /\ pc["producer"] = "held"
    BY DEF StackInv, Stack!SleepJustified, Stack!Produce, Stack!Threads
  <1>3. CASE made + 1 < ITEMS
    BY <1>1, <1>2, <1>3 DEF Stack!Produce, Stack!SignalAndUnlock, Stack!Signalled, StackSignalling, Stack!Threads
  <1>4. CASE ~(made + 1 < ITEMS)
    BY <1>1, <1>2, <1>4 DEF Stack!Produce, Stack!SignalAndUnlock, Stack!Signalled, StackSignalling, Stack!Threads
  <1> QED BY <1>3, <1>4

\* The consumer signals not_full and unlocks.
LEMMA StackConsumeSignals ==
    ASSUME StackInv, Stack!Consume
    PROVE  StackSignalling("consumer", Len(taken) + 1 < ITEMS)
  <1>1. pc \in [Stack!Threads -> {"lock", "held", "wait", "woken", "done"}]
    BY DEF StackInv, Stack!TypeOK
  <1>2. pc["producer"] # "held" /\ pc["consumer"] = "held"
    BY DEF StackInv, Stack!SleepJustified, Stack!Consume, Stack!Threads
  <1>3. CASE Len(taken) + 1 < ITEMS
    BY <1>1, <1>2, <1>3 DEF Stack!Consume, Stack!SignalAndUnlock, Stack!Signalled, StackSignalling, Stack!Threads
  <1>4. CASE ~(Len(taken) + 1 < ITEMS)
    BY <1>1, <1>2, <1>4 DEF Stack!Consume, Stack!SignalAndUnlock, Stack!Signalled, StackSignalling, Stack!Threads
  <1> QED BY <1>3, <1>4

\* Putting an item on top.
LEMMA StackProduce == ASSUME Stack!SizesOK, StackInv, Stack!Produce PROVE StackInv'
  <1> USE DEF Stack!SizesOK
  <1>0. /\ made \in Nat /\ made < ITEMS /\ depth \in 0..(BUFFER_SIZE - 1)
        /\ depth' = depth + 1 /\ made' = made + 1 /\ taken' = taken
        /\ stack' = [stack EXCEPT ![depth] = made + 1]
        /\ taken \in Seq(1..ITEMS) /\ stack \in [Stack!Cells -> 0..ITEMS]
    BY DEF StackInv, Stack!TypeOK, StackLoops, Stack!Produce, Stack!Threads
  <1>1. StackSignalling("producer", made + 1 < ITEMS)
    BY StackProduceSignals
  <1>2. Stack!TypeOK'
    <2>1. stack' \in [Stack!Cells -> 0..ITEMS] /\ depth' \in 0..BUFFER_SIZE /\ made' \in 0..ITEMS
      BY <1>0 DEF Stack!Cells
    <2> QED BY <2>1, <1>0, <1>1 DEF StackInv, Stack!TypeOK, StackSignalling
  <1>3. /\ \A j \in 0..(depth - 1) : stack'[j] = stack[j]
        /\ stack'[depth] = made + 1
        /\ \A j \in 0..(depth' - 1) : j \in 0..(depth - 1) \/ j = depth
        /\ \A j \in 0..(depth - 1) : j \in 0..(depth' - 1)
        /\ depth \in 0..(depth' - 1)
    BY <1>0 DEF Stack!Cells
  <1>4. StackCells'
    BY <1>0, <1>3 DEF StackInv, StackCells
  <1>5. \A j, k \in 0..(depth' - 1) : j < k => stack'[j] < stack'[k]
    <2> SUFFICES ASSUME NEW j \in 0..(depth' - 1), NEW k \in 0..(depth' - 1), j < k
                 PROVE  stack'[j] < stack'[k]
      OBVIOUS
    <2>1. j \in 0..(depth - 1) /\ stack'[j] = stack[j]
      BY <1>0, <1>3
    <2>2. CASE k \in 0..(depth - 1)
      BY <1>3, <2>1, <2>2 DEF StackInv, Stack!StackExact
    <2>3. CASE k = depth
      BY <1>0, <1>3, <2>1, <2>3 DEF StackInv, StackCells
    <2> QED
      BY <1>3, <2>2, <2>3
  <1>6. \A n \in 1..made' : \/ \E j \in 0..(depth' - 1) : stack'[j] = n
                            \/ \E l \in 1..Len(taken') : taken'[l] = n
    <2> SUFFICES ASSUME NEW n \in 1..made'
                 PROVE  \/ \E j \in 0..(depth' - 1) : stack'[j] = n
                        \/ \E l \in 1..Len(taken') : taken'[l] = n
      OBVIOUS
    <2>1. CASE n = made + 1
      BY <1>3, <2>1
    <2>2. CASE n \in 1..made
      BY <1>0, <1>3, <2>2 DEF StackInv, Stack!StackExact
    <2> QED BY <1>0, <2>1, <2>2
  <1>7. \A j \in 0..(depth' - 1), l \in 1..Len(taken') : taken'[l] # stack'[j]
    BY <1>0, <1>3 DEF StackInv, StackCells, Stack!StackExact
  <1>8. made' = depth' + Len(taken')
    BY <1>0 DEF StackInv, Stack!StackExact
  <1>9. Stack!SleepJustified' /\ StackLoops'
    BY <1>0, <1>1 DEF StackInv, StackLoops, Stack!SleepJustified, StackSignalling, Stack!Threads
  <1> QED BY <1>2, <1>4, <1>5, <1>6, <1>7, <1>8, <1>9 DEF StackInv, Stack!StackExact

\* Taking the item on top.
LEMMA StackConsume == ASSUME Stack!SizesOK, StackInv, Stack!Consume PROVE StackInv'
  <1> USE DEF Stack!SizesOK
  <1> DEFINE item == stack[depth - 1]
  <1>0. /\ made \in 0..ITEMS /\ Len(taken) < ITEMS /\ depth \in 1..BUFFER_SIZE
        /\ depth' = depth - 1 /\ made' = made /\ stack' = stack
        /\ taken' = Append(taken, item)
        /\ taken \in Seq(1..ITEMS) /\ stack \in [Stack!Cells -> 0..ITEMS]
        /\ item \in 1..made
    BY DEF StackInv, Stack!TypeOK, StackLoops, StackCells, Stack!Consume, Stack!Top, Stack!Threads
  <1>a. /\ taken' \in Seq(1..ITEMS) /\ Len(taken') = Len(taken) + 1
        /\ \A l \in 1..Len(taken) : taken'[l] = taken[l]
        /\ taken'[Len(taken) + 1] = item
    BY <1>0
  <1>1. StackSignalling("consumer", Len(taken) + 1 < ITEMS)
    BY StackConsumeSignals
  <1>2. Stack!TypeOK'
    BY <1>0, <1>a, <1>1 DEF StackInv, Stack!TypeOK, StackSignalling
  <1>3. /\ \A j \in 0..(depth - 1) : j \in 0..(depth' - 1) \/ j = depth - 1
        /\ \A j \in 0..(depth' - 1) : j \in 0..(depth - 1) /\ j < depth - 1
        /\ depth - 1 \in 0..(depth - 1)
        /\ \A l \in 1..Len(taken') : l \in 1..Len(taken) \/ l = Len(taken) + 1
        /\ \A l \in 1..Len(taken) : l \in 1..Len(taken')
        /\ Len(taken) + 1 \in 1..Len(taken')
    BY <1>0, <1>a
  <1>4. StackCells'
    BY <1>0, <1>a, <1>3 DEF StackInv, StackCells
  <1>5. \A j, k \in 0..(depth' - 1) : j < k => stack'[j] < stack'[k]
    BY <1>0, <1>3 DEF StackInv, Stack!StackExact
  <1>6. \A n \in 1..made' : \/ \E j \in 0..(depth' - 1) : stack'[j] = n
                            \/ \E l \in 1..Len(taken') : taken'[l] = n
    <2> SUFFICES ASSUME NEW n \in 1..made
                 PROVE  \/ \E j \in 0..(depth' - 1) : stack[j] = n
                        \/ \E l \in 1..Len(taken') : taken'[l] = n
      BY <1>0
    <2>1. CASE \E l \in 1..Len(taken) : taken[l] = n
      BY <1>a, <1>3, <2>1
    <2>2. CASE \E j \in 0..(depth - 1) : stack[j] = n
      BY <1>a, <1>3, <2>2
    <2> QED BY <2>1, <2>2 DEF StackInv, Stack!StackExact
  <1>7. \A j \in 0..(depth' - 1), l \in 1..Len(taken') : taken'[l] # stack'[j]
    <2> SUFFICES ASSUME NEW j \in 0..(depth' - 1), NEW l \in 1..Len(taken')
                 PROVE  taken'[l] # stack[j]
      BY <1>0
    <2>1. CASE l \in 1..Len(taken)
      BY <1>a, <1>3, <2>1 DEF StackInv, Stack!StackExact
    <2>2. CASE l = Len(taken) + 1
      <3>1. stack[j] < item /\ stack[j] \in Nat /\ item \in Nat
        BY <1>0, <1>3 DEF StackInv, Stack!StackExact, StackCells
      <3> QED BY <3>1, <2>2, <1>a
    <2> QED BY <2>1, <2>2, <1>3
  <1>8. made' = depth' + Len(taken')
    BY <1>0, <1>a DEF StackInv, Stack!StackExact
  <1>9. Stack!SleepJustified' /\ StackLoops'
    BY <1>0, <1>a, <1>1 DEF StackInv, StackLoops, Stack!SleepJustified, StackSignalling, Stack!Threads
  <1> QED BY <1>2, <1>4, <1>5, <1>6, <1>7, <1>8, <1>9 DEF StackInv, Stack!StackExact

LEMMA StackInvariance == Spec => []StackInv
  <1>1. Init => StackInv
    BY ConstantsAssumption, StackInit DEF Init
  <1>2. StackInv /\ [Next]_vars => StackInv'
    <2> SUFFICES ASSUME StackInv, [Stack!Next]_condVars PROVE StackInv'
      BY OneProgramMoves
    <2> USE ConstantsAssumption
    <2>1. ASSUME NEW t \in Stack!Threads, Stack!Lock(t) \/ Stack!SpuriousWakeup(t) PROVE StackInv'
      BY <2>1, StackLock
    <2>2. CASE Stack!WaitNotFull \/ Stack!WaitNotEmpty
      BY <2>2, StackWait
    <2>3. CASE Stack!Produce
      BY <2>3, StackProduce
    <2>4. CASE Stack!Consume
      BY <2>4, StackConsume
    <2>5. CASE UNCHANGED condVars
      BY <2>5 DEF condVars, StackInv, Stack!TypeOK, Stack!StackExact, Stack!SleepJustified,
         StackLoops, StackCells
    <2> QED
      BY <2>1, <2>2, <2>3, <2>4, <2>5 DEF Stack!Next
  <1> QED
    BY <1>1, <1>2, PTL DEF Spec

\* The buffer with condition variables is a stack that loses no item and no
\* wake-up (producerfunc and consumerfunc), for every size of the buffer and
\* number of items.
THEOREM BufferIsExact == Spec => []BufferExact
  <1>1. StackInv => BufferExact
    BY DEF StackInv, BufferExact
  <1> QED
    BY <1>1, StackInvariance, PTL
-----------------------------------------------------------------------------
(***************************************************************************)
(* The locked hash map of src/pthread-hash-map.c.                          *)
(***************************************************************************)
Chain(k) == buckets[HashMap!hash(k)]
Place(k) == {i \in DOMAIN Chain(k) : Chain(k)[i].key = k}

\* The variables have their types; TypeOK says nothing of the domain of result.
HashTypes ==
    /\ HashMap!TypeOK
    /\ result \in [Clients -> [HashMap!KeySet -> {-1} \cup {HashMap!Value(k) : k \in HashMap!KeySet}]]

\* Between the lock and the unlock the bucket is the worker's own.
Exclusive ==
    \A w \in Clients :
        at[w] \in {"walk", "write", "leave"} => locks[HashMap!hash(next[w])] = w

\* What the walk found is still true when the worker writes: the place of the
\* key, or that the key is nowhere in the chain.
WalkStillTrue ==
    \A w \in Clients :
        at[w] = "write" =>
            IF node[w] = 0 THEN Place(next[w]) = {} ELSE node[w] \in Place(next[w])

\* Every node has the value of its key.
ValuesRight ==
    \A b \in HashMap!Buckets : \A i \in DOMAIN buckets[b] :
        buckets[b][i].value = HashMap!Value(buckets[b][i].key)

\* The keys the worker has inserted are in the map.
Inserted(w, k) == doing[w] = "lookup" \/ k < next[w] \/ (k = next[w] /\ at[w] = "leave")
InsertedStay ==
    \A w \in Clients, k \in HashMap!KeySet : Inserted(w, k) => Place(k) # {}

\* The keys the worker has looked up were found.
LookedUp(w, k) ==
    doing[w] = "lookup" /\ (k < next[w] \/ (k = next[w] /\ at[w] \in {"leave", "done"}))
LookupsRight ==
    /\ \A w \in Clients, k \in HashMap!KeySet : LookedUp(w, k) => result[w][k] = HashMap!Value(k)
    /\ \A w \in Clients : at[w] = "done" => doing[w] = "lookup" /\ next[w] = KEYS - 1

HashInv ==
    HashTypes /\ Exclusive /\ HashMap!KeysUnique /\ WalkStillTrue /\ ValuesRight
      /\ InsertedStay /\ LookupsRight

\* What the #defines of the program provide.
HashSizes == KEYS \in Nat \ {0} /\ TABLE_SIZE \in Nat \ {0} /\ None \notin Clients

LEMMA HashFacts ==
  ASSUME HashSizes
  PROVE  /\ \A k \in HashMap!KeySet : HashMap!hash(k) \in HashMap!Buckets
         /\ \A k \in HashMap!KeySet : k \in Nat /\ HashMap!Value(k) \in Nat
  BY DEF HashSizes, HashMap!KeySet, HashMap!hash, HashMap!Buckets, HashMap!Value

LEMMA HashStarts ==
  ASSUME HashSizes, HashMap!Init
  PROVE  HashInv
  <1>1. 0 \in HashMap!KeySet
    BY DEF HashSizes, HashMap!KeySet
  <1>2. HashTypes
    BY <1>1 DEF HashTypes, HashMap!TypeOK, HashMap!Init
  <1>3. \A b \in HashMap!Buckets : buckets[b] = <<>>
    BY DEF HashMap!Init
  <1>4. HashMap!KeysUnique /\ ValuesRight
    BY <1>3 DEF HashMap!KeysUnique, ValuesRight
  <1>5. Exclusive /\ WalkStillTrue /\ LookupsRight
    BY <1>1 DEF Exclusive, WalkStillTrue, LookupsRight, LookedUp, HashMap!Init, HashMap!KeySet
  <1>6. InsertedStay
    BY <1>1 DEF InsertedStay, Inserted, HashMap!Init, HashMap!KeySet
  <1> QED
    BY <1>2, <1>4, <1>5, <1>6 DEF HashInv

LEMMA HashEnters ==
  ASSUME HashSizes, HashInv, NEW w \in Clients, HashMap!Enter(w)
  PROVE  HashInv'
  <1>1. next[w] \in HashMap!KeySet /\ HashMap!hash(next[w]) \in HashMap!Buckets
    BY HashFacts DEF HashInv, HashTypes, HashMap!TypeOK
  <1>2. HashTypes'
    BY <1>1 DEF HashInv, HashTypes, HashMap!TypeOK, HashMap!Enter
  <1>3. Exclusive'
    BY <1>1 DEF HashInv, HashTypes, HashMap!TypeOK, HashMap!Enter, HashMap!Free, Exclusive,
       HashSizes
  <1>4. HashMap!KeysUnique' /\ ValuesRight'
    BY DEF HashInv, HashMap!Enter, HashMap!KeysUnique, ValuesRight
  <1>5. WalkStillTrue'
    BY DEF HashInv, HashTypes, HashMap!TypeOK, HashMap!Enter, WalkStillTrue, Place, Chain
  <1>6. InsertedStay'
    BY DEF HashInv, HashTypes, HashMap!TypeOK, HashMap!Enter, InsertedStay, Inserted, Place, Chain
  <1>7. LookupsRight'
    BY DEF HashInv, HashTypes, HashMap!TypeOK, HashMap!Enter, LookupsRight, LookedUp
  <1> QED
    BY <1>2, <1>3, <1>4, <1>5, <1>6, <1>7 DEF HashInv

LEMMA HashWalks ==
  ASSUME HashSizes, HashInv, NEW w \in Clients, HashMap!Walk(w)
  PROVE  HashInv'
  <1>1. next[w] \in HashMap!KeySet /\ HashMap!hash(next[w]) \in HashMap!Buckets
    BY HashFacts DEF HashInv, HashTypes, HashMap!TypeOK
  <1>2. Chain(next[w]) \in Seq(HashMap!Node) /\ Place(next[w]) \subseteq Nat \ {0}
    BY <1>1 DEF HashInv, HashTypes, HashMap!TypeOK, Chain, Place
  <1>3. node'[w] = IF Place(next[w]) # {}
                     THEN CHOOSE x \in Place(next[w]) : \A y \in Place(next[w]) : x =< y ELSE 0
    <2>1. Place(next[w]) = {i \in 1..Len(Chain(next[w])) : Chain(next[w])[i].key = next[w]}
      BY <1>2 DEF Place
    <2>2. node'[w] = HashMap!SelectInSeq(Chain(next[w]), LAMBDA n : n.key = next[w])
      BY DEF HashInv, HashTypes, HashMap!TypeOK, HashMap!Walk, Chain
    <2> QED
      BY <2>1, <2>2, Zenon DEF HashMap!SelectInSeq, HashMap!Min
  <1>4. IF node'[w] = 0 THEN Place(next[w]) = {} ELSE node'[w] \in Place(next[w])
    BY <1>2, <1>3, ChosenLeast
  <1>5. HashTypes'
    BY <1>2, <1>4 DEF HashInv, HashTypes, HashMap!TypeOK, HashMap!Walk
  <1>6. Exclusive'
    BY DEF HashInv, HashTypes, HashMap!TypeOK, HashMap!Walk, Exclusive
  <1>7. HashMap!KeysUnique' /\ ValuesRight'
    BY DEF HashInv, HashMap!Walk, HashMap!KeysUnique, ValuesRight
  <1>8. WalkStillTrue'
    BY <1>4 DEF HashInv, HashTypes, HashMap!TypeOK, HashMap!Walk, WalkStillTrue, Place, Chain
  <1>9. InsertedStay'
    BY DEF HashInv, HashTypes, HashMap!TypeOK, HashMap!Walk, InsertedStay, Inserted, Place, Chain
  <1>10. LookupsRight'
    BY DEF HashInv, HashTypes, HashMap!TypeOK, HashMap!Walk, LookupsRight, LookedUp
  <1> QED
    BY <1>5, <1>6, <1>7, <1>8, <1>9, <1>10 DEF HashInv

\* A chain after hashmap_insert: every node is where it was or one further,
\* and the key is there.
LEMMA HashWrites ==
  ASSUME HashSizes, HashInv, NEW w \in Clients, HashMap!Write(w)
  PROVE  HashInv'
  <1> DEFINE k == next[w]
             b == HashMap!hash(k)
             v == HashMap!Value(k)
             new == [key |-> k, value |-> v]
  <1>1. k \in HashMap!KeySet /\ b \in HashMap!Buckets /\ v \in Nat
    BY HashFacts DEF HashInv, HashTypes, HashMap!TypeOK
  <1>2. /\ buckets \in [HashMap!Buckets -> Seq(HashMap!Node)]
        /\ at \in [Clients -> {"enter", "walk", "write", "leave", "done"}]
        /\ at[w] = "write" /\ doing[w] = "insert"
        /\ at' = [at EXCEPT ![w] = "leave"]
        /\ locks' = locks /\ doing' = doing /\ next' = next /\ node' = node /\ result' = result
        /\ doing \in [Clients -> {"insert", "lookup"}] /\ next \in [Clients -> HashMap!KeySet]
    BY DEF HashInv, HashTypes, HashMap!TypeOK, HashMap!Write
  <1>3. new \in HashMap!Node
    BY <1>1 DEF HashMap!Node
  <1>4. \A c \in HashMap!Buckets \ {b} : buckets'[c] = buckets[c]
    BY <1>2 DEF HashMap!Write
  <1>5. DOMAIN buckets' = HashMap!Buckets
    BY <1>2 DEF HashMap!Write
  <1>6. CASE node[w] # 0
    <2>1. node[w] \in DOMAIN buckets[b] /\ buckets[b][node[w]].key = k
      BY <1>2, <1>6 DEF HashInv, WalkStillTrue, Place, Chain
    <2>2. buckets'[b] = [buckets[b] EXCEPT ![node[w]].value = v]
      BY <1>1, <1>2, <1>6 DEF HashMap!Write
    <2>3. buckets[b] \in Seq(HashMap!Node) /\ buckets[b][node[w]] \in HashMap!Node
      BY <1>1, <1>2, <2>1
    <2>4. buckets[b][node[w]].value = v
      BY <1>1, <2>1 DEF HashInv, ValuesRight
    <2>5. [buckets[b][node[w]] EXCEPT !.value = v] = buckets[b][node[w]]
      BY <2>3, <2>4 DEF HashMap!Node
    <2>6. buckets'[b] = buckets[b]
      BY <2>2, <2>3, <2>5
    <2>7. buckets' = buckets
      BY <1>1, <1>2, <1>4, <2>6 DEF HashMap!Write
    <2>8. Place(k) # {}
      BY <2>1 DEF Place, Chain
    <2>9. HashTypes' /\ Exclusive' /\ WalkStillTrue'
      BY <1>2, <2>7 DEF HashInv, HashTypes, HashMap!TypeOK, Exclusive, WalkStillTrue, Place, Chain
    <2>10. HashMap!KeysUnique' /\ ValuesRight'
      BY <2>7 DEF HashInv, HashMap!KeysUnique, ValuesRight
    <2>11. InsertedStay'
      BY <1>2, <2>7, <2>8 DEF HashInv, InsertedStay, Inserted, Place, Chain
    <2>12. LookupsRight'
      BY <1>2, <2>7 DEF HashInv, LookupsRight, LookedUp
    <2> QED
      BY <2>9, <2>10, <2>11, <2>12 DEF HashInv
  <1>7. CASE node[w] = 0
    <2>1. \A i \in DOMAIN buckets[b] : buckets[b][i].key # k
      BY <1>2, <1>7 DEF HashInv, WalkStillTrue, Place, Chain
    <2>2. buckets'[b] = <<new>> \o buckets[b]
      BY <1>1, <1>2, <1>7 DEF HashMap!Write
    <2> DEFINE old == buckets[b]
               now == buckets'[b]
               one == <<new>>
    <2>3. old \in Seq(HashMap!Node) /\ Len(old) \in Nat /\ DOMAIN old = 1..Len(old)
      BY <1>1, <1>2
    <2>4. one \in Seq(HashMap!Node) /\ Len(one) = 1 /\ one[1] = new
      BY <1>3
    <2> HIDE DEF one, new
    <2>5. /\ now \in Seq(HashMap!Node) /\ Len(now) = 1 + Len(old)
          /\ \A i \in 1..(Len(one) + Len(old)) :
                now[i] = IF i <= Len(one) THEN one[i] ELSE old[i - Len(one)]
      BY <2>2, <2>3, <2>4, ConcatProperties DEF one
    <2>6. DOMAIN now = 1..(1 + Len(old)) /\ now[1] = new
      BY <2>3, <2>4, <2>5
    <2>7. \A i \in 2..(1 + Len(old)) : now[i] = old[i - 1] /\ i - 1 \in DOMAIN old
      BY <2>3, <2>4, <2>5
    <2>8. new.key = k /\ new.value = v
      BY DEF new
    <2> HIDE DEF old, now
    <2>9. HashTypes'
      <3>1. buckets' \in [HashMap!Buckets -> Seq(HashMap!Node)]
        <4>1. \A c \in HashMap!Buckets : buckets'[c] \in Seq(HashMap!Node)
          BY <1>2, <1>4, <2>5 DEF now
        <4> QED
          BY <1>2, <1>5, <4>1 DEF HashMap!Write
      <3> QED
        BY <1>2, <3>1 DEF HashInv, HashTypes, HashMap!TypeOK
    <2>10. Exclusive' /\ LookupsRight'
      BY <1>2 DEF HashInv, Exclusive, LookupsRight, LookedUp
    <2>11. ASSUME NEW i \in DOMAIN now, NEW j \in DOMAIN now
           PROVE  /\ HashMap!hash(now[i].key) = b
                  /\ now[i].value = HashMap!Value(now[i].key)
                  /\ now[i].key = now[j].key => i = j
      <3>1. \A a, c \in DOMAIN old : /\ HashMap!hash(old[a].key) = b
                                     /\ old[a].value = HashMap!Value(old[a].key)
                                     /\ old[a].key = old[c].key => a = c
        BY <1>1 DEF HashInv, HashMap!KeysUnique, ValuesRight, old
      <3>2. \A a \in DOMAIN old : old[a].key # k
        BY <2>1 DEF old
      <3>3. \A a \in DOMAIN now : a = 1 \/ a \in 2..(1 + Len(old))
        BY <2>3, <2>6
      <3>4. CASE i = 1 /\ j = 1
        BY <3>4, <2>6, <2>8
      <3>5. CASE i = 1 /\ j # 1
        BY <3>2, <3>3, <3>5, <2>6, <2>7, <2>8
      <3>6. CASE i # 1 /\ j = 1
        BY <3>1, <3>2, <3>3, <3>6, <2>6, <2>7, <2>8
      <3>7. CASE i # 1 /\ j # 1
        <4>1. now[i] = old[i - 1] /\ i - 1 \in DOMAIN old /\ now[j] = old[j - 1] /\ j - 1 \in DOMAIN old
          BY <3>3, <3>7, <2>7
        <4>2. i - 1 = j - 1 => i = j
          BY <2>3, <2>6
        <4> QED
          BY <3>1, <4>1, <4>2
      <3> QED
        BY <3>4, <3>5, <3>6, <3>7
    <2>12. HashMap!KeysUnique' /\ ValuesRight'
      <3>1. ASSUME NEW c \in HashMap!Buckets, NEW i \in DOMAIN buckets'[c], NEW j \in DOMAIN buckets'[c]
            PROVE  /\ HashMap!hash(buckets'[c][i].key) = c
                   /\ buckets'[c][i].value = HashMap!Value(buckets'[c][i].key)
                   /\ buckets'[c][i].key = buckets'[c][j].key => i = j
        <4>1. CASE c = b
          BY <4>1, <3>1, <2>11 DEF now
        <4>2. CASE c # b
          BY <4>2, <3>1, <1>4 DEF HashInv, HashMap!KeysUnique, ValuesRight
        <4> QED
          BY <4>1, <4>2
      <3> QED
        BY <3>1 DEF HashMap!KeysUnique, ValuesRight
    <2>13. ASSUME NEW l \in HashMap!KeySet
           PROVE  /\ HashMap!hash(l) # b => Place(l)' = Place(l)
                  /\ l = k => Place(l)' # {}
                  /\ Place(l) # {} => Place(l)' # {}
      <3>1. HashMap!hash(l) \in HashMap!Buckets
        BY HashFacts
      <3>2. HashMap!hash(l) # b => Place(l)' = Place(l)
        BY <3>1, <1>4 DEF Place, Chain
      <3>3. l = k => 1 \in Place(l)'
        BY <2>3, <2>6, <2>8 DEF Place, Chain, now
      <3>4. ASSUME HashMap!hash(l) = b, NEW i \in Place(l) PROVE i + 1 \in Place(l)'
        <4>1. i \in DOMAIN old /\ old[i].key = l
          BY <3>4 DEF Place, Chain, old
        <4>2. i + 1 \in 2..(1 + Len(old)) /\ (i + 1) - 1 = i
          BY <2>3, <4>1
        <4>3. now[i + 1] = old[i] /\ i + 1 \in DOMAIN now
          BY <2>3, <2>6, <2>7, <4>2
        <4> QED
          BY <3>4, <4>1, <4>3 DEF Place, Chain, now
      <3> QED
        BY <3>2, <3>3, <3>4
    <2>14. InsertedStay'
      BY <1>2, <2>13 DEF HashInv, InsertedStay, Inserted
    <2>15. WalkStillTrue'
      <3>1. SUFFICES ASSUME NEW u \in Clients, at'[u] = "write"
                     PROVE  (IF node[u] = 0 THEN Place(next[u]) = {} ELSE node[u] \in Place(next[u]))'
        BY DEF WalkStillTrue
      <3>2. u # w /\ at[u] = "write"
        BY <1>2, <3>1
      <3>3. HashMap!hash(next[u]) # b
        BY <1>2, <3>2 DEF HashInv, Exclusive
      <3>4. next[u] \in HashMap!KeySet
        BY <1>2
      <3>5. Place(next[u])' = Place(next[u])
        <4>1. PICK l : l = next[u]
          OBVIOUS
        <4> QED
          BY <1>2, <2>13, <3>3, <3>4, <4>1 DEF Place, Chain
      <3> QED
        BY <1>2, <3>2, <3>5 DEF HashInv, WalkStillTrue, Place, Chain
    <2> QED
      BY <2>9, <2>10, <2>12, <2>14, <2>15 DEF HashInv
  <1> QED
    BY <1>6, <1>7

LEMMA HashReads ==
  ASSUME HashSizes, HashInv, NEW w \in Clients, HashMap!Read(w)
  PROVE  HashInv'
  <1> DEFINE k == next[w]
  <1>1. k \in HashMap!KeySet /\ HashMap!hash(k) \in HashMap!Buckets
    BY HashFacts DEF HashInv, HashTypes, HashMap!TypeOK
  <1>2. at[w] = "write" /\ doing[w] = "lookup"
    BY DEF HashMap!Read
  <1>3. node[w] \in Place(k)
    BY <1>1, <1>2 DEF HashInv, WalkStillTrue, InsertedStay, Inserted
  <1>4. node[w] \in DOMAIN buckets[HashMap!hash(k)] /\ buckets[HashMap!hash(k)][node[w]].key = k
    BY <1>3 DEF Place, Chain
  <1>5. node[w] # 0
    BY <1>1, <1>4 DEF HashInv, HashTypes, HashMap!TypeOK
  <1>6. HashMap!NodeValue(w) = HashMap!Value(k)
    BY <1>1, <1>4, <1>5 DEF HashInv, ValuesRight, HashMap!NodeValue
  <1>7. result' = [result EXCEPT ![w][k] = HashMap!Value(k)]
    BY <1>6 DEF HashMap!Read
  <1>8. HashTypes'
    BY <1>1, <1>7 DEF HashInv, HashTypes, HashMap!TypeOK, HashMap!Read
  <1>9. Exclusive'
    BY DEF HashInv, HashTypes, HashMap!TypeOK, HashMap!Read, Exclusive
  <1>10. HashMap!KeysUnique' /\ ValuesRight'
    BY DEF HashInv, HashMap!Read, HashMap!KeysUnique, ValuesRight
  <1>11. WalkStillTrue' /\ InsertedStay'
    BY <1>2 DEF HashInv, HashTypes, HashMap!TypeOK, HashMap!Read, WalkStillTrue, InsertedStay,
       Inserted, Place, Chain
  <1>12. LookupsRight'
    <2>1. \A u \in Clients, l \in HashMap!KeySet :
             result'[u][l] = IF u = w /\ l = k THEN HashMap!Value(k) ELSE result[u][l]
      BY <1>1, <1>7 DEF HashInv, HashTypes
    <2> QED
      BY <1>1, <1>2, <2>1 DEF HashInv, HashTypes, HashMap!TypeOK, HashMap!Read, LookupsRight, LookedUp
  <1> QED
    BY <1>8, <1>9, <1>10, <1>11, <1>12 DEF HashInv

LEMMA HashLeaves ==
  ASSUME HashSizes, HashInv, NEW w \in Clients, HashMap!Leave(w)
  PROVE  HashInv'
  <1>1. next[w] \in HashMap!KeySet /\ HashMap!hash(next[w]) \in HashMap!Buckets
    BY HashFacts DEF HashInv, HashTypes, HashMap!TypeOK
  <1>2. HashTypes'
    <2>1. next' \in [Clients -> HashMap!KeySet]
      BY <1>1 DEF HashSizes, HashInv, HashTypes, HashMap!TypeOK, HashMap!Leave, HashMap!KeySet
    <2>2. locks' \in [HashMap!Buckets -> Clients \cup {None}]
      BY <1>1 DEF HashInv, HashTypes, HashMap!TypeOK, HashMap!Leave
    <2> QED
      BY <2>1, <2>2 DEF HashInv, HashTypes, HashMap!TypeOK, HashMap!Leave
  <1>3. Exclusive'
    <2>1. ASSUME NEW u \in Clients, at'[u] \in {"walk", "write", "leave"}
          PROVE  locks'[HashMap!hash(next'[u])] = u
      <3>1. u # w /\ at'[u] = at[u] /\ next'[u] = next[u] /\ at[w] = "leave"
        BY <2>1 DEF HashInv, HashTypes, HashMap!TypeOK, HashMap!Leave
      <3>2. locks[HashMap!hash(next[u])] = u /\ locks[HashMap!hash(next[w])] = w
        BY <2>1, <3>1 DEF HashInv, Exclusive
      <3> QED
        BY <3>1, <3>2 DEF HashInv, HashTypes, HashMap!TypeOK, HashMap!Leave
    <2> QED
      BY <2>1 DEF Exclusive
  <1>4. HashMap!KeysUnique' /\ ValuesRight'
    BY DEF HashInv, HashMap!Leave, HashMap!KeysUnique, ValuesRight
  <1>5. WalkStillTrue'
    <2>1. buckets' = buckets /\ node' = node
      BY DEF HashMap!Leave
    <2>2. \A u \in Clients : at'[u] = "write" => at[u] = "write" /\ next'[u] = next[u]
      BY DEF HashInv, HashTypes, HashMap!TypeOK, HashMap!Leave
    <2> QED
      BY <2>1, <2>2 DEF HashInv, WalkStillTrue, Place, Chain
  <1>6. \A u \in Clients, l \in HashMap!KeySet :
           (Inserted(u, l)' => Inserted(u, l)) /\ (LookedUp(u, l)' => LookedUp(u, l))
    <2> SUFFICES ASSUME NEW u \in Clients, NEW l \in HashMap!KeySet
                 PROVE  (Inserted(u, l)' => Inserted(u, l)) /\ (LookedUp(u, l)' => LookedUp(u, l))
      OBVIOUS
    <2>1. CASE u # w
      BY <2>1 DEF HashInv, HashTypes, HashMap!TypeOK, HashMap!Leave, Inserted, LookedUp
    <2>2. CASE u = w
      <3>1. at[w] = "leave" /\ l \in 0..(KEYS - 1) /\ next[w] \in 0..(KEYS - 1) /\ KEYS \in Nat
        BY <1>1 DEF HashMap!Leave, HashMap!KeySet, HashSizes
      <3>2. CASE next[w] < KEYS - 1
        <4>1. next'[w] = next[w] + 1 /\ at'[w] = "enter" /\ doing'[w] = doing[w]
          BY <3>2 DEF HashInv, HashTypes, HashMap!TypeOK, HashMap!Leave
        <4> QED
          BY <2>2, <3>1, <4>1 DEF Inserted, LookedUp
      <3>3. CASE ~(next[w] < KEYS - 1) /\ doing[w] = "insert"
        <4>1. next'[w] = 0 /\ at'[w] = "enter" /\ doing'[w] = "lookup"
          BY <3>3 DEF HashInv, HashTypes, HashMap!TypeOK, HashMap!Leave
        <4>2. next[w] = KEYS - 1
          BY <3>1, <3>3
        <4> QED
          BY <2>2, <3>1, <3>3, <4>1, <4>2 DEF Inserted, LookedUp
      <3>4. CASE ~(next[w] < KEYS - 1) /\ doing[w] # "insert"
        <4>1. next'[w] = next[w] /\ at'[w] = "done" /\ doing'[w] = doing[w]
          BY <3>4 DEF HashInv, HashTypes, HashMap!TypeOK, HashMap!Leave
        <4>2. next[w] = KEYS - 1
          BY <3>1, <3>4
        <4> QED
          BY <2>2, <3>1, <3>4, <4>1, <4>2 DEF Inserted, LookedUp
      <3> QED
        BY <3>2, <3>3, <3>4
    <2> QED
      BY <2>1, <2>2
  <1>7. InsertedStay'
    BY <1>6 DEF HashInv, HashMap!Leave, InsertedStay, Place, Chain
  <1>8. LookupsRight'
    <2>1. \A u \in Clients : at'[u] = "done" => doing'[u] = "lookup" /\ next'[u] = KEYS - 1
      <3> SUFFICES ASSUME NEW u \in Clients, at'[u] = "done"
                   PROVE  doing'[u] = "lookup" /\ next'[u] = KEYS - 1
        OBVIOUS
      <3>1. CASE u # w
        BY <3>1 DEF HashInv, HashTypes, HashMap!TypeOK, HashMap!Leave, LookupsRight
      <3>2. CASE u = w
        <4>1. next[w] \in 0..(KEYS - 1) /\ KEYS \in Nat
          BY <1>1 DEF HashMap!KeySet, HashSizes
        <4>2. ~(next[w] < KEYS - 1) /\ next' = next /\ doing' = doing /\ doing[w] = "lookup"
          BY <3>2 DEF HashInv, HashTypes, HashMap!TypeOK, HashMap!Leave
        <4> QED
          BY <3>2, <4>1, <4>2
      <3> QED
        BY <3>1, <3>2
    <2> QED
      BY <1>6, <2>1 DEF HashInv, HashMap!Leave, LookupsRight
  <1> QED
    BY <1>2, <1>3, <1>4, <1>5, <1>7, <1>8 DEF HashInv

LEMMA HashInvariance == Spec => []HashInv
  <1>1. HashSizes
    BY ConstantsAssumption DEF HashSizes
  <1>2. Init => HashInv
    BY <1>1, HashStarts DEF Init
  <1>3. HashInv /\ [Next]_vars => HashInv'
    <2> SUFFICES ASSUME HashInv, [Next]_vars PROVE HashInv'
      OBVIOUS
    <2>1. CASE UNCHANGED hashVars
      <3>1. HashTypes' /\ HashMap!KeysUnique' /\ ValuesRight'
        BY <2>1 DEF hashVars, HashInv, HashTypes, HashMap!TypeOK, HashMap!KeysUnique, ValuesRight
      <3>2. Exclusive' /\ WalkStillTrue'
        BY <2>1 DEF hashVars, HashInv, Exclusive, WalkStillTrue, Place, Chain
      <3>3. InsertedStay' /\ LookupsRight'
        BY <2>1 DEF hashVars, HashInv, InsertedStay, Inserted, LookupsRight, LookedUp, Place, Chain
      <3> QED
        BY <3>1, <3>2, <3>3 DEF HashInv
    <2>2. CASE HashMap!Next
      BY <1>1, <2>2, HashEnters, HashWalks, HashWrites, HashReads, HashLeaves DEF HashMap!Next
    <2> QED
      BY <2>1, <2>2, OneProgramMoves
  <1> QED
    BY <1>2, <1>3, PTL DEF Spec

\* The workers never duplicate a key and find what they inserted, for every
\* number of workers, keys and buckets.
THEOREM KeysAreFoundOnce == Spec => []KeysFoundOnce
  <1>1. HashSizes
    BY ConstantsAssumption DEF HashSizes
  <1>2. HashInv => KeysFoundOnce
    <2> SUFFICES ASSUME HashInv, NEW w \in Clients, at[w] = "done"
                 PROVE  result[w] = [k \in HashMap!KeySet |-> HashMap!Value(k)]
      BY DEF HashInv, KeysFoundOnce, HashMap!KeysFoundOnce, HashMap!FindsItsKeys
    <2>1. doing[w] = "lookup" /\ next[w] = KEYS - 1
      BY DEF HashInv, LookupsRight
    <2>2. ASSUME NEW k \in HashMap!KeySet PROVE result[w][k] = HashMap!Value(k)
      <3>1. k < next[w] \/ k = next[w]
        BY <1>1, <2>1 DEF HashSizes, HashMap!KeySet
      <3> QED
        BY <2>1, <3>1 DEF HashInv, LookupsRight, LookedUp
    <2> QED
      BY <2>2 DEF HashInv, HashTypes
  <1> QED
    BY <1>2, HashInvariance, PTL
-----------------------------------------------------------------------------
(***************************************************************************)
(* simulateClock of src/page_cache_simulator.c.                            *)
(***************************************************************************)
\* How many frames the hand has to turn from f to where it is, 1..MAX_FRAMES.
Behind(f) == IF f < pointer THEN pointer - f ELSE pointer + MAX_FRAMES - f

\* The frames the hand has gone past in its turn had their bit set and have
\* it no longer; the others have the bit they had at the miss.
TurnInv ==
    /\ refBit \in [0..(MAX_FRAMES - 1) -> {0, 1}]
    /\ atMiss \in [0..(MAX_FRAMES - 1) -> {0, 1}]
    /\ pointer \in 0..(MAX_FRAMES - 1)
    /\ skipped \in 0..MAX_FRAMES
    /\ page # NoPage =>
         \A f \in 0..(MAX_FRAMES - 1) :
            IF Behind(f) <= skipped THEN atMiss[f] = 1 /\ refBit[f] = 0
            ELSE refBit[f] = atMiss[f]

ClockInv ==
    /\ choice = 2 => TurnInv
    /\ choice # 2 => atMiss = [f \in 0..(MAX_FRAMES - 1) |-> 0]

\* The hand moves on by one frame.
LEMMA HandMoves ==
  ASSUME MAX_FRAMES \in Nat \ {0}, pointer \in 0..(MAX_FRAMES - 1),
         pointer' = (pointer + 1) % MAX_FRAMES
  PROVE  /\ pointer' = IF pointer = MAX_FRAMES - 1 THEN 0 ELSE pointer + 1
         /\ pointer' \in 0..(MAX_FRAMES - 1)
         /\ \A f \in 0..(MAX_FRAMES - 1) :
              Behind(f)' = IF f = pointer THEN 1 ELSE Behind(f) + 1
         /\ Behind(pointer) = MAX_FRAMES
         /\ \A f \in 0..(MAX_FRAMES - 1) : Behind(f) \in 1..MAX_FRAMES
  <1>1. pointer' = IF pointer = MAX_FRAMES - 1 THEN 0 ELSE pointer + 1
    OBVIOUS
  <1> QED
    BY <1>1 DEF Behind

LEMMA ClockSteps ==
  ASSUME MAX_FRAMES \in Nat \ {0}, TurnInv, Simulator!Clock!Next
  PROVE  /\ TurnInv'
         /\ \A f \in 0..(MAX_FRAMES - 1) : buffer'[f] # buffer[f] /\ atMiss[f] = 1 =>
              \A g \in 0..(MAX_FRAMES - 1) : atMiss[g] = 1
  <1>1. ASSUME NEW pg \in Pages, Simulator!Clock!Hit(pg) PROVE TurnInv'
    BY <1>1 DEF TurnInv, Simulator!Clock!Hit, Simulator!Clock!Ready, Simulator!Clock!Holding,
       Simulator!Clock!Frames, Behind
  <1>2. ASSUME NEW pg \in Pages, Simulator!Clock!Miss(pg) PROVE TurnInv'
    <2>1. skipped' = 0 /\ atMiss' = refBit /\ refBit' = refBit /\ pointer' = pointer
      BY <1>2 DEF Simulator!Clock!Miss
    <2>2. \A f \in 0..(MAX_FRAMES - 1) : ~(Behind(f)' <= skipped')
      BY <2>1 DEF Behind, TurnInv
    <2>3. skipped' \in 0..MAX_FRAMES
      BY <2>1
    <2> QED
      BY <2>1, <2>2, <2>3 DEF TurnInv
  <1>3. ASSUME Simulator!Clock!Skip PROVE TurnInv'
    <2>1. /\ pointer \in 0..(MAX_FRAMES - 1) /\ skipped \in Nat /\ page # NoPage
          /\ refBit' = [refBit EXCEPT ![pointer] = 0] /\ refBit[pointer] = 1
          /\ pointer' = (pointer + 1) % MAX_FRAMES /\ skipped' = skipped + 1
          /\ page' = page /\ atMiss' = atMiss
      BY <1>3 DEF TurnInv, Simulator!Clock!Skip, Simulator!Clock!Unreferenced
    <2>2. /\ pointer' \in 0..(MAX_FRAMES - 1) /\ Behind(pointer) = MAX_FRAMES
          /\ \A f \in 0..(MAX_FRAMES - 1) :
                /\ Behind(f)' = IF f = pointer THEN 1 ELSE Behind(f) + 1
                /\ Behind(f) \in 1..MAX_FRAMES
      BY <2>1, HandMoves
    <2>3. ~(MAX_FRAMES <= skipped) /\ atMiss[pointer] = 1
      BY <2>1, <2>2 DEF TurnInv
    <2>4. skipped' \in 0..MAX_FRAMES
      BY <2>1, <2>3
    <2>5. ASSUME NEW f \in 0..(MAX_FRAMES - 1)
          PROVE  IF Behind(f)' <= skipped' THEN atMiss'[f] = 1 /\ refBit'[f] = 0
                 ELSE refBit'[f] = atMiss'[f]
      <3>1. CASE f = pointer
        BY <2>1, <2>2, <2>3, <3>1 DEF TurnInv
      <3>2. CASE f # pointer
        <4>1. Behind(f)' <= skipped' <=> Behind(f) <= skipped
          BY <2>1, <2>2, <3>2
        <4>2. refBit'[f] = refBit[f] /\ atMiss'[f] = atMiss[f]
          BY <2>1, <3>2 DEF TurnInv
        <4> QED
          BY <4>1, <4>2, <2>1 DEF TurnInv
      <3> QED
        BY <3>1, <3>2
    <2>6. refBit' \in [0..(MAX_FRAMES - 1) -> {0, 1}] /\ atMiss' \in [0..(MAX_FRAMES - 1) -> {0, 1}]
      BY <2>1 DEF TurnInv
    <2> QED
      BY <2>2, <2>4, <2>5, <2>6 DEF TurnInv
  <1>4. ASSUME Simulator!Clock!Take
        PROVE  /\ TurnInv'
               /\ \A f \in 0..(MAX_FRAMES - 1) : buffer'[f] # buffer[f] /\ atMiss[f] = 1 =>
                     \A g \in 0..(MAX_FRAMES - 1) : atMiss[g] = 1
    <2>1. /\ pointer \in 0..(MAX_FRAMES - 1) /\ skipped \in Nat /\ page # NoPage
          /\ refBit[pointer] = 0 /\ pointer' = (pointer + 1) % MAX_FRAMES
          /\ page' = NoPage /\ buffer' = [buffer EXCEPT ![pointer] = page]
          /\ refBit' = [refBit EXCEPT ![pointer] = 1]
          /\ atMiss' = atMiss /\ skipped' = skipped
      BY <1>4 DEF TurnInv, Simulator!Clock!Take
    <2>2. /\ pointer' \in 0..(MAX_FRAMES - 1) /\ Behind(pointer) = MAX_FRAMES
          /\ \A f \in 0..(MAX_FRAMES - 1) : Behind(f) \in 1..MAX_FRAMES
      BY <2>1, HandMoves
    <2>3. TurnInv'
      BY <2>1, <2>2 DEF TurnInv
    <2>4. ASSUME NEW f \in 0..(MAX_FRAMES - 1), buffer'[f] # buffer[f], atMiss[f] = 1,
                 NEW g \in 0..(MAX_FRAMES - 1)
          PROVE  atMiss[g] = 1
      <3>1. f = pointer
        BY <2>1, <2>4
      <3>2. MAX_FRAMES <= skipped
        BY <2>1, <2>2, <2>4, <3>1 DEF TurnInv
      <3>3. Behind(g) <= skipped
        BY <2>1, <2>2, <3>2
      <3> QED
        BY <2>1, <3>3 DEF TurnInv
    <2> QED
      BY <2>3, <2>4
  <1>5. buffer' = buffer \/ Simulator!Clock!Take
    BY DEF Simulator!Clock!Next, Simulator!Clock!Hit, Simulator!Clock!Miss, Simulator!Clock!Skip
  <1>6. TurnInv'
    BY <1>1, <1>2, <1>3, <1>4 DEF Simulator!Clock!Next
  <1> QED
    BY <1>4, <1>5, <1>6

Spared ==
    \A f \in 0..(MAX_FRAMES - 1) : buffer'[f] # buffer[f] /\ atMiss[f] = 1 =>
       \A g \in 0..(MAX_FRAMES - 1) : atMiss[g] = 1

LEMMA ClockMoves ==
  ASSUME ClockInv, [Next]_vars
  PROVE  ClockInv' /\ Spared
  <1>1. CASE UNCHANGED pageVars
    <2>1. Spared
      BY <1>1 DEF pageVars, Spared
    <2>2. ClockInv'
      BY <1>1 DEF pageVars, ClockInv, TurnInv, Behind
    <2> QED
      BY <2>1, <2>2
  <1>2. CASE Simulator!SimulateClock
    BY <1>2, ConstantsAssumption, ClockSteps DEF ClockInv, Simulator!SimulateClock, Spared
  <1>3. CASE Simulator!SimulateLRU
    BY <1>3 DEF ClockInv, Simulator!SimulateLRU, Simulator!clockVars, Spared
  <1>4. CASE Simulator!SimulateARC
    BY <1>4 DEF ClockInv, Simulator!SimulateARC, Simulator!clockVars, Spared
  <1> QED
    BY <1>1, <1>2, <1>3, <1>4, OneProgramMoves DEF Simulator!Next

LEMMA ClockInvariance == Spec => []ClockInv
  <1>1. Init => ClockInv
    BY ConstantsAssumption DEF Init, Simulator!Init, Simulator!Clock!Init, Simulator!Clock!Frames,
       ClockInv, TurnInv
  <1> QED
    BY <1>1, ClockMoves, PTL DEF Spec

\* A page used since the hand went past its frame is spared, if any page in
\* memory was not, for every number of frames and every order of requests.
THEOREM ClockSparesUsedPages == Spec => SecondChance
  <1>1. ClockInv /\ [Next]_vars => [Spared]_(Simulator!Clock!vars)
    BY ClockMoves
  <1>2. SecondChance <=> [][Spared]_(Simulator!Clock!vars)
    BY DEF SecondChance, Simulator!Clock!SecondChance, Simulator!Clock!Frames, Spared
  <1> QED
    BY <1>1, <1>2, ClockInvariance, PTL DEF Spec
-----------------------------------------------------------------------------
(***************************************************************************)
(* The allocation log of src/memorylog.c.                                  *)
(***************************************************************************)
LogSizes == UINT \in Nat \ {0} /\ UINT % 2 = 0 /\ Counts \subseteq Int

SizeRight(size, bytes) ==
    IF bytes < UINT \div 2 THEN size = bytes ELSE (size - bytes) % UINT = 0

\* Multiples of UINT vanish in the conversion to unsigned int.
LEMMA ModMultiple ==
  ASSUME NEW U \in Nat \ {0}, NEW b \in Int
  PROVE  /\ b % U \in 0..(U - 1)
         /\ (b % U) % U = b % U
         /\ b \in 0..(U - 1) => b % U = b
         /\ ((b % U) - b) % U = 0
         /\ ((b % U) - U - b) % U = 0
  <1>1. \A q \in Int : (q * U) % U = 0
    OBVIOUS
  <1>2. b % U \in 0..(U - 1) /\ (b % U) % U = b % U /\ (b \in 0..(U - 1) => b % U = b)
    OBVIOUS
  <1>3. PICK q \in Int : q = b \div U
    OBVIOUS
  <1>4. b = U * q + (b % U)
    BY <1>3
  <1>5. (b % U) - b = (-q) * U /\ (b % U) - U - b = (-q - 1) * U
    BY <1>2, <1>4
  <1>6. -q \in Int /\ -q - 1 \in Int
    OBVIOUS
  <1>7. ((-q) * U) % U = 0 /\ ((-q - 1) * U) % U = 0
    BY <1>1, <1>6
  <1>8. ((b % U) - b) % U = 0
    BY <1>5, <1>7, Zenon
  <1>9. ((b % U) - U - b) % U = 0
    BY <1>5, <1>7, Zenon
  <1> QED
    BY <1>2, <1>8, <1>9

\* What add stores as the size of a block, an int, is the number of its bytes
\* or off by a multiple of UINT.
LEMMA LoggedRight ==
  ASSUME LogSizes, NEW n \in Counts, NEW s \in Memory!SizeOf
  PROVE  /\ Memory!MallocBytes(n, s) \in Nat /\ Memory!CallocBytes(n, s) \in Nat
         /\ SizeRight(Memory!Signed(Memory!MallocBytes(n, s)), Memory!MallocBytes(n, s))
         /\ SizeRight(Memory!Signed(Memory!LoggedCalloc(n, s)), Memory!CallocBytes(n, s))
         /\ Memory!Signed(Memory!MallocBytes(n, s)) \in Int
         /\ Memory!Signed(Memory!LoggedCalloc(n, s)) \in Int
  <1>1. UINT \in Nat \ {0} /\ n \in Int /\ s \in Nat /\ UINT \div 2 \in Nat /\ UINT \div 2 < UINT
    BY DEF LogSizes, Memory!SizeOf
  <1>2. ASSUME NEW bytes \in Nat, NEW logged, logged = bytes % UINT
        PROVE  SizeRight(Memory!Signed(logged), bytes) /\ Memory!Signed(logged) \in Int
    <2>1. /\ logged \in 0..(UINT - 1) /\ logged % UINT = logged
          /\ bytes \in 0..(UINT - 1) => logged = bytes
          /\ (logged - bytes) % UINT = 0 /\ (logged - UINT - bytes) % UINT = 0
      BY <1>1, <1>2, bytes \in Int, ModMultiple, Zenon
    <2>2. Memory!Signed(logged) = IF logged < UINT \div 2 THEN logged ELSE logged - UINT
      BY <2>1 DEF Memory!Signed
    <2>3. CASE bytes < UINT \div 2
      <3>1. logged = bytes
        BY <1>1, <2>1, <2>3
      <3> QED
        BY <1>1, <2>1, <2>2, <2>3, <3>1 DEF SizeRight
    <2>4. CASE ~(bytes < UINT \div 2)
      BY <1>1, <2>1, <2>2, <2>4 DEF SizeRight
    <2> QED
      BY <2>3, <2>4
  <1>3. PICK x \in Int : x = n * s
    BY <1>1
  <1>4. x % UINT \in 0..(UINT - 1) /\ (x % UINT) % UINT = x % UINT
    BY <1>1, ModMultiple
  <1>5. PICK m \in Nat : m = Memory!MallocBytes(n, s) /\ m % UINT = m
    BY <1>1, <1>3, <1>4 DEF Memory!MallocBytes, Memory!Unsigned
  <1>6. n % UINT \in Nat
    BY <1>1, ModMultiple
  <1>7. PICK c \in Nat : c = Memory!CallocBytes(n, s)
    BY <1>1, <1>6 DEF Memory!CallocBytes, Memory!Unsigned
  <1>8. Memory!LoggedCalloc(n, s) = c % UINT
    BY <1>7 DEF Memory!LoggedCalloc, Memory!CallocBytes, Memory!Unsigned
  <1>9. SizeRight(Memory!Signed(m), m) /\ Memory!Signed(m) \in Int
    BY <1>2, <1>5
  <1>10. SizeRight(Memory!Signed(Memory!LoggedCalloc(n, s)), c)
           /\ Memory!Signed(Memory!LoggedCalloc(n, s)) \in Int
    BY <1>2, <1>7, <1>8
  <1> QED
    BY <1>5, <1>7, <1>9, <1>10

\* The list has an entry for every allocated block, the newest first.
LogInv ==
    /\ head \in Seq(Memory!Entry) /\ heap \in [Addresses -> Int] /\ id \in Nat
    /\ \A e \in DOMAIN head :
         /\ heap[head[e].address] # -1
         /\ SizeRight(head[e].size, heap[head[e].address])
         /\ head[e].memoryid < id
    /\ \A a \in Addresses : heap[a] # -1 => \E e \in DOMAIN head : head[e].address = a
    /\ \A e, f \in DOMAIN head :
         e < f => head[e].address # head[f].address /\ head[e].memoryid > head[f].memoryid

LEMMA LogAllocates ==
  ASSUME LogInv, NEW a \in Addresses, NEW bytes \in Nat, NEW logged,
         NEW type \in {"malloc", "calloc"},
         Memory!Signed(logged) \in Int, SizeRight(Memory!Signed(logged), bytes),
         Memory!Allocate(a, bytes, logged, type)
  PROVE  LogInv'
  <1> DEFINE new == [memoryid |-> id, address |-> a, size |-> Memory!Signed(logged), type |-> type]
             one == <<new>>
             old == head
  <1>1. /\ old \in Seq(Memory!Entry) /\ Len(old) \in Nat /\ DOMAIN old = 1..Len(old)
        /\ heap \in [Addresses -> Int] /\ id \in Nat
    BY DEF LogInv
  <1>2. /\ heap[a] = -1 /\ heap' = [heap EXCEPT ![a] = bytes] /\ id' = id + 1
        /\ head' = one \o old
    BY DEF Memory!Allocate, Memory!Added
  <1>3. new \in Memory!Entry /\ new.memoryid = id /\ new.address = a /\ new.size = Memory!Signed(logged)
    BY <1>1 DEF Memory!Entry
  <1> HIDE DEF new
  <1>4. one \in Seq(Memory!Entry) /\ Len(one) = 1 /\ one[1] = new
    BY <1>3
  <1> HIDE DEF one, old
  <1>5. /\ head' \in Seq(Memory!Entry) /\ Len(head') = 1 + Len(old)
        /\ \A e \in 1..(Len(one) + Len(old)) :
              head'[e] = IF e <= Len(one) THEN one[e] ELSE old[e - Len(one)]
    <2>1. PICK both : both = one \o old
      OBVIOUS
    <2>2. /\ both \in Seq(Memory!Entry) /\ Len(both) = Len(one) + Len(old)
          /\ \A e \in 1..(Len(one) + Len(old)) :
                both[e] = IF e <= Len(one) THEN one[e] ELSE old[e - Len(one)]
      BY <1>1, <1>4, <2>1, ConcatProperties
    <2> QED
      BY <1>2, <1>4, <2>1, <2>2
  <1>6. DOMAIN head' = 1..(1 + Len(old)) /\ head'[1] = new
    BY <1>1, <1>4, <1>5
  <1>7. \A e \in 2..(1 + Len(old)) : head'[e] = old[e - 1] /\ e - 1 \in DOMAIN old
    BY <1>1, <1>4, <1>5
  <1>8. \A e \in DOMAIN head' : e = 1 \/ e \in 2..(1 + Len(old))
    BY <1>1, <1>6
  <1>9. \A e \in DOMAIN old :
           /\ old[e].address \in Addresses /\ old[e].address # a
           /\ heap[old[e].address] # -1
           /\ SizeRight(old[e].size, heap[old[e].address])
           /\ old[e].memoryid < id /\ old[e].memoryid \in Nat
    <2>1. \A e \in DOMAIN old : old[e] \in Memory!Entry
      BY <1>1
    <2>2. \A e \in DOMAIN old : old[e].address \in Addresses /\ old[e].memoryid \in Nat
      BY <2>1 DEF Memory!Entry
    <2> QED
      BY <2>2, <1>2 DEF LogInv, old
  <1>10. \A b \in Addresses : heap'[b] = IF b = a THEN bytes ELSE heap[b]
    BY <1>1, <1>2
  <1>11. heap' \in [Addresses -> Int] /\ id' \in Nat
    BY <1>1, <1>2
  <1>12. ASSUME NEW e \in DOMAIN head'
         PROVE  /\ heap'[head'[e].address] # -1
                /\ SizeRight(head'[e].size, heap'[head'[e].address])
                /\ head'[e].memoryid < id'
    <2>1. CASE e = 1
      BY <1>1, <1>2, <1>3, <1>6, <1>10, <2>1
    <2>2. CASE e \in 2..(1 + Len(old))
      <3>1. head'[e] = old[e - 1] /\ e - 1 \in DOMAIN old
        BY <1>7, <2>2
      <3>2. heap'[old[e - 1].address] = heap[old[e - 1].address]
        BY <1>9, <1>10, <3>1
      <3>3. old[e - 1].memoryid < id + 1
        BY <1>1, <1>9, <3>1
      <3> QED
        BY <1>2, <1>9, <3>1, <3>2, <3>3
    <2> QED
      BY <1>8, <2>1, <2>2
  <1>13. ASSUME NEW b \in Addresses, heap'[b] # -1
         PROVE  \E e \in DOMAIN head' : head'[e].address = b
    <2>1. CASE b = a
      BY <1>1, <1>3, <1>6, <2>1
    <2>2. CASE b # a
      <3>1. PICK e \in DOMAIN old : old[e].address = b
        BY <1>10, <1>13, <2>2 DEF LogInv, old
      <3>2. e + 1 \in 2..(1 + Len(old)) /\ (e + 1) - 1 = e /\ e + 1 \in DOMAIN head'
        BY <1>1, <1>6
      <3> QED
        BY <1>7, <3>1, <3>2
    <2> QED
      BY <2>1, <2>2
  <1>14. ASSUME NEW e \in DOMAIN head', NEW f \in DOMAIN head', e < f
         PROVE  head'[e].address # head'[f].address /\ head'[e].memoryid > head'[f].memoryid
    <2>1. f \in 2..(1 + Len(old)) /\ e \in Nat /\ f \in Nat
      BY <1>1, <1>6, <1>14
    <2>2. CASE e = 1
      <3>1. head'[f].address # a /\ head'[f].memoryid < id /\ head'[f].memoryid \in Nat
        BY <1>7, <1>9, <2>1
      <3> QED
        BY <1>1, <1>3, <1>6, <2>2, <3>1
    <2>3. CASE e \in 2..(1 + Len(old))
      <3>1. e - 1 < f - 1
        BY <2>1, <1>14
      <3> QED
        BY <1>7, <2>1, <2>3, <3>1 DEF LogInv, old
    <2> QED
      BY <1>8, <2>2, <2>3
  <1> QED
    BY <1>5, <1>11, <1>12, <1>13, <1>14 DEF LogInv

\* The sequence without its i-th element.
LEMMA Removed ==
  ASSUME NEW S, NEW s \in Seq(S), NEW i \in 1..Len(s)
  PROVE  LET t == SubSeq(s, 1, i - 1) \o SubSeq(s, i + 1, Len(s))
         IN  /\ t \in Seq(S) /\ Len(t) = Len(s) - 1
             /\ \A j \in 1..(Len(s) - 1) : t[j] = IF j < i THEN s[j] ELSE s[j + 1]
  <1> DEFINE u == SubSeq(s, 1, i - 1)
             v == SubSeq(s, i + 1, Len(s))
             t == u \o v
  <1>1. Len(s) \in Nat /\ i \in Nat /\ i >= 1 /\ i <= Len(s)
    OBVIOUS
  <1>2. \A j \in 1..Len(s) : s[j] \in S
    OBVIOUS
  <1>3. u \in Seq(S) /\ Len(u) = i - 1 /\ \A j \in 1..(i - 1) : u[j] = s[j]
    <2>1. \A j \in 1..(i - 1) : s[j] \in S
      BY <1>1, <1>2
    <2>2. /\ u \in Seq(S)
          /\ Len(u) = IF 1 <= i - 1 THEN (i - 1) - 1 + 1 ELSE 0
          /\ \A j \in 1..((i - 1) - 1 + 1) : u[j] = s[1 + j - 1]
      BY <1>1, <2>1, SubSeqProperties
    <2> HIDE DEF u
    <2>3. (i - 1) - 1 + 1 = i - 1 /\ \A j \in 1..(i - 1) : 1 + j - 1 = j
      BY <1>1
    <2> QED
      BY <1>1, <2>2, <2>3
  <1>4. v \in Seq(S) /\ Len(v) = Len(s) - i /\ \A j \in 1..(Len(s) - i) : v[j] = s[i + j]
    <2>1. \A j \in (i + 1)..Len(s) : s[j] \in S
      BY <1>1, <1>2
    <2>2. /\ v \in Seq(S)
          /\ Len(v) = IF i + 1 <= Len(s) THEN Len(s) - (i + 1) + 1 ELSE 0
          /\ \A j \in 1..(Len(s) - (i + 1) + 1) : v[j] = s[(i + 1) + j - 1]
      BY <1>1, <2>1, SubSeqProperties
    <2> HIDE DEF v
    <2>3. Len(s) - (i + 1) + 1 = Len(s) - i /\ \A j \in 1..(Len(s) - i) : (i + 1) + j - 1 = i + j
      BY <1>1
    <2>4. Len(v) = Len(s) - i
      BY <1>1, <2>2
    <2>5. \A j \in 1..(Len(s) - i) : v[j] = s[i + j]
      BY <2>2, <2>3
    <2> QED
      BY <2>2, <2>4, <2>5
  <1> HIDE DEF u, v
  <1>5. /\ t \in Seq(S) /\ Len(t) = Len(u) + Len(v)
        /\ \A j \in 1..(Len(u) + Len(v)) : t[j] = IF j <= Len(u) THEN u[j] ELSE v[j - Len(u)]
    BY <1>3, <1>4, ConcatProperties
  <1> HIDE DEF t
  <1>6. Len(t) = Len(s) - 1
    BY <1>1, <1>3, <1>4, <1>5
  <1>7. ASSUME NEW j \in 1..(Len(s) - 1) PROVE t[j] = IF j < i THEN s[j] ELSE s[j + 1]
    <2>1. j \in 1..(Len(u) + Len(v)) /\ j \in Nat
      BY <1>1, <1>3, <1>4
    <2>2. CASE j < i
      BY <1>1, <1>3, <1>5, <2>1, <2>2
    <2>3. CASE ~(j < i)
      <3>1. j - (i - 1) \in 1..(Len(s) - i) /\ i + (j - (i - 1)) = j + 1 /\ ~(j <= i - 1)
        BY <1>1, <2>1, <2>3
      <3>2. v[j - (i - 1)] = s[j + 1]
        BY <1>4, <3>1
      <3> QED
        BY <1>3, <1>5, <2>1, <2>3, <3>1, <3>2
    <2> QED
      BY <2>2, <2>3
  <1> QED
    BY <1>5, <1>6, <1>7 DEF t, u, v

\* FreeMemory frees the block of the entry with the id, and removememory
\* unlinks that entry: no other entry has its address.
LEMMA LogFrees ==
  ASSUME LogInv, NEW m \in 1..MaxIds, Memory!FreeMemory(m)
  PROVE  LogInv'
  <1> DEFINE At(a) == {e \in DOMAIN head : head[e].address = a}
  <1>1. /\ head \in Seq(Memory!Entry) /\ Len(head) \in Nat /\ DOMAIN head = 1..Len(head)
        /\ heap \in [Addresses -> Int] /\ id \in Nat
    BY DEF LogInv
  <1>2. PICK d : d = Memory!detailsofmemoryid(m)
    OBVIOUS
  <1>3. d \in DOMAIN head
    <2> DEFINE I == {e \in 1..Len(head) : head[e].memoryid = m}
    <2>1. d # 0
      BY <1>2 DEF Memory!FreeMemory
    <2>2. d = IF I # {} THEN CHOOSE x \in I : \A y \in I : x =< y ELSE 0
      BY <1>2, Zenon DEF Memory!detailsofmemoryid, Memory!SelectInSeq, Memory!Min
    <2>3. I \subseteq Nat /\ I \subseteq DOMAIN head
      BY <1>1
    <2> HIDE DEF I
    <2>4. d \in I
      BY <2>1, <2>2, <2>3, ChosenLeast
    <2> QED
      BY <2>3, <2>4
  <1>4. PICK a : a = head[d].address
    OBVIOUS
  <1>5. \A e \in DOMAIN head : head[e].address \in Addresses /\ head[e].memoryid \in Nat
    <2>1. \A e \in DOMAIN head : head[e] \in Memory!Entry
      BY <1>1
    <2> QED
      BY <2>1 DEF Memory!Entry
  <1>6. a \in Addresses
    BY <1>3, <1>4, <1>5
  <1>7. \A e \in DOMAIN head : head[e].address = a => e = d
    <2>1. \A e \in DOMAIN head : e < d \/ d < e \/ e = d
      BY <1>1, <1>3
    <2> QED
      BY <1>3, <1>4, <2>1 DEF LogInv
  <1>8. Memory!SelectInSeq(head, LAMBDA e : e.address = a) = d
    <2> DEFINE I == {e \in 1..Len(head) : head[e].address = a}
    <2>1. Memory!SelectInSeq(head, LAMBDA e : e.address = a)
            = IF I # {} THEN CHOOSE x \in I : \A y \in I : x =< y ELSE 0
      BY Zenon DEF Memory!SelectInSeq, Memory!Min
    <2>2. I \subseteq Nat /\ d \in I /\ \A e \in I : e = d
      BY <1>1, <1>3, <1>4, <1>7
    <2> HIDE DEF I
    <2>3. (CHOOSE x \in I : \A y \in I : x =< y) \in I
      BY <2>2, ChosenLeast
    <2> QED
      BY <2>1, <2>2, <2>3
  <1>9. /\ head' = SubSeq(head, 1, d - 1) \o SubSeq(head, d + 1, Len(head))
        /\ heap' = [heap EXCEPT ![a] = -1] /\ id' = id
    <2>1. head' = Memory!removememory(a) /\ heap' = [heap EXCEPT ![a] = -1] /\ id' = id
      BY <1>2, <1>4 DEF Memory!FreeMemory
    <2>2. Memory!removememory(a) = Memory!RemoveAt(head, Memory!SelectInSeq(head, LAMBDA e : e.address = a))
      BY Zenon DEF Memory!removememory
    <2>3. Memory!removememory(a) = Memory!RemoveAt(head, d)
      BY <1>8, <2>2, Zenon
    <2> QED
      BY <2>1, <2>3 DEF Memory!RemoveAt
  <1>10. /\ head' \in Seq(Memory!Entry) /\ Len(head') = Len(head) - 1
         /\ \A e \in 1..(Len(head) - 1) : head'[e] = IF e < d THEN head[e] ELSE head[e + 1]
    BY <1>1, <1>3, <1>9, Removed
  <1> DEFINE Old(e) == IF e < d THEN e ELSE e + 1
  <1>11. DOMAIN head' = 1..(Len(head) - 1)
    BY <1>1, <1>3, <1>10
  <1>12. \A e \in DOMAIN head' : /\ Old(e) \in DOMAIN head /\ Old(e) # d /\ head'[e] = head[Old(e)]
    BY <1>1, <1>3, <1>10, <1>11
  <1>13. \A e, f \in DOMAIN head' : e < f => Old(e) < Old(f)
    BY <1>1, <1>3, <1>11
  <1>14. \A g \in DOMAIN head : g # d => \E e \in DOMAIN head' : Old(e) = g
    <2> SUFFICES ASSUME NEW g \in DOMAIN head, g # d PROVE \E e \in DOMAIN head' : Old(e) = g
      OBVIOUS
    <2>1. CASE g < d
      BY <1>1, <1>3, <1>11, <2>1
    <2>2. CASE g > d
      <3>1. g - 1 \in DOMAIN head' /\ ~(g - 1 < d) /\ (g - 1) + 1 = g
        BY <1>1, <1>3, <1>11, <2>2
      <3> QED
        BY <3>1
    <2> QED
      BY <1>1, <1>3, <2>1, <2>2
  <1> HIDE DEF Old
  <1>15. \A b \in Addresses : heap'[b] = IF b = a THEN -1 ELSE heap[b]
    BY <1>1, <1>9
  <1>16. ASSUME NEW e \in DOMAIN head'
         PROVE  /\ heap'[head'[e].address] # -1
                /\ SizeRight(head'[e].size, heap'[head'[e].address])
                /\ head'[e].memoryid < id'
    <2>1. head'[e] = head[Old(e)] /\ Old(e) \in DOMAIN head /\ head[Old(e)].address # a
      BY <1>7, <1>12
    <2>2. heap'[head[Old(e)].address] = heap[head[Old(e)].address]
      BY <1>5, <1>15, <2>1
    <2> QED
      BY <1>9, <2>1, <2>2, ZenonT(60) DEF LogInv
  <1>17. ASSUME NEW b \in Addresses, heap'[b] # -1
         PROVE  \E e \in DOMAIN head' : head'[e].address = b
    <2>1. b # a /\ heap[b] # -1
      BY <1>15, <1>17
    <2>2. PICK g \in DOMAIN head : head[g].address = b
      BY <2>1 DEF LogInv
    <2>3. PICK e \in DOMAIN head' : Old(e) = g
      BY <1>4, <1>14, <2>1, <2>2
    <2> QED
      BY <1>12, <2>2, <2>3
  <1>18. ASSUME NEW e \in DOMAIN head', NEW f \in DOMAIN head', e < f
         PROVE  head'[e].address # head'[f].address /\ head'[e].memoryid > head'[f].memoryid
    BY <1>12, <1>13, <1>18 DEF LogInv
  <1>19. heap' \in [Addresses -> Int]
    <2>1. \A b \in Addresses : heap[b] \in Int /\ -1 \in Int
      BY <1>1
    <2> QED
      BY <1>1, <1>9, <2>1
  <1> QED
    BY <1>1, <1>9, <1>10, <1>16, <1>17, <1>18, <1>19 DEF LogInv

LEMMA LogInvariance == Spec => []LogInv
  <1>1. LogSizes
    BY ConstantsAssumption DEF LogSizes
  <1>2. Init => LogInv
    BY DEF Init, Memory!Init, LogInv
  <1>3. LogInv /\ [Next]_vars => LogInv'
    <2> SUFFICES ASSUME LogInv, [Next]_vars PROVE LogInv'
      OBVIOUS
    <2>1. CASE UNCHANGED logVars
      BY <2>1 DEF logVars, LogInv
    <2>2. ASSUME NEW a \in Addresses, NEW n \in Counts, NEW s \in Memory!SizeOf,
                 Memory!mallocAllocation(a, n, s) \/ Memory!callocAllocation(a, n, s)
          PROVE  LogInv'
      <3>1. /\ Memory!MallocBytes(n, s) \in Nat /\ Memory!CallocBytes(n, s) \in Nat
            /\ SizeRight(Memory!Signed(Memory!MallocBytes(n, s)), Memory!MallocBytes(n, s))
            /\ SizeRight(Memory!Signed(Memory!LoggedCalloc(n, s)), Memory!CallocBytes(n, s))
            /\ Memory!Signed(Memory!MallocBytes(n, s)) \in Int
            /\ Memory!Signed(Memory!LoggedCalloc(n, s)) \in Int
        BY <1>1, LoggedRight
      <3>2. CASE Memory!mallocAllocation(a, n, s)
        BY <3>1, <3>2, LogAllocates DEF Memory!mallocAllocation
      <3>3. CASE Memory!callocAllocation(a, n, s)
        BY <3>1, <3>3, LogAllocates DEF Memory!callocAllocation
      <3> QED
        BY <2>2, <3>2, <3>3
    <2>3. CASE Memory!ExportNothing
      BY <2>3 DEF Memory!ExportNothing, LogInv
    <2>4. CASE Memory!Next
      BY <2>2, <2>3, <2>4, LogFrees DEF Memory!Next
    <2> QED
      BY <2>1, <2>4, OneProgramMoves
  <1> QED
    BY <1>2, <1>3, PTL DEF Spec

\* The memory log lists the allocated blocks and their sizes, for every heap,
\* every size asked for and every width of an unsigned int.
THEOREM LogIsTheHeap == Spec => []LogMatchesHeap
  <1>1. LogInv => LogMatchesHeap
    <2> SUFFICES ASSUME LogInv PROVE Memory!TracksHeap /\ Memory!SizesLogged
      BY DEF LogMatchesHeap
    <2>1. \A e \in DOMAIN head : head[e].address \in Addresses
      <3>1. \A e \in DOMAIN head : head[e] \in Memory!Entry
        BY DEF LogInv
      <3> QED
        BY <3>1 DEF Memory!Entry
    <2>2. {head[e].address : e \in DOMAIN head} = {a \in Addresses : heap[a] # -1}
      BY <2>1 DEF LogInv
    <2> QED
      BY <2>2 DEF LogInv, Memory!TracksHeap, Memory!SizesLogged, SizeRight
  <1> QED
    BY <1>1, LogInvariance, PTL
-----------------------------------------------------------------------------
(***************************************************************************)
(* The student records of src/student.c.                                   *)
(***************************************************************************)
StudentSizes ==
    /\ MaxStudents \in Nat \ {0}
    /\ BadRoll \notin Rolls
    /\ \A subject \in Marks : DOMAIN subject = 1..3

\* How many records are in the table.
Known == IF menu = "filling" THEN filled ELSE numberOfstudents

Total(rec)  == rec.subject[1] + rec.subject[2] + rec.subject[3]
Marked(rec) == \A n \in 1..3 : rec.subject[n] \notin {0, Students!Refused}

\* The records known have passed the tests, and no two share a roll or a name.
\* The slot behind them may hold the rest of a refused attempt, but in no slot
\* do complete marks have the wrong sum.
TableInv ==
    /\ DOMAIN class = Students!Slots
    /\ \A s \in Students!Slots : Marked(class[s]) => class[s].sum = Total(class[s])
    /\ \A s \in Students!Slots : /\ DOMAIN class[s] = {"roll", "name", "subject", "sum"}
                                 /\ DOMAIN class[s].subject = 1..3
    /\ \A s \in 0..(Known - 1) :
         /\ class[s].roll \in Rolls
         /\ class[s].name \in Names \ {"x"}
         /\ s < filled => Students!Refused \notin {class[s].subject[1], class[s].subject[2]}
    /\ \A s, t \in 0..(Known - 1) :
         class[s].roll = class[t].roll \/ class[s].name = class[t].name => s = t

MenuInv ==
    /\ numberOfstudents \in 1..(MaxStudents + 1)
    /\ filled \in 0..MaxStudents /\ filled <= numberOfstudents
    /\ menu \in {"filling", "menu", "left"}
    /\ menu = "filling" => filled < numberOfstudents /\ numberOfstudents <= MaxStudents

StudentsInv == MenuInv /\ TableInv

LEMMA StudentsStart ==
  ASSUME StudentSizes, Students!Init
  PROVE  StudentsInv
  <1>1. MenuInv /\ Known = 0
    BY DEF StudentSizes, Students!Init, MenuInv, Known
  <1>2. /\ DOMAIN class = Students!Slots
        /\ \A s \in Students!Slots : class[s] = Students!Blank
    BY DEF Students!Init
  <1>3. /\ ~Marked(Students!Blank)
        /\ DOMAIN Students!Blank = {"roll", "name", "subject", "sum"}
        /\ DOMAIN Students!Blank.subject = 1..3
    BY DEF Marked, Students!Blank
  <1> QED
    BY <1>1, <1>2, <1>3 DEF StudentsInv, TableInv

\* What students() leaves in the slot behind the known records: the sum of
\* complete marks is right, and a record that is not refused has a roll and a
\* name of its own.
LEMMA Attempt ==
  ASSUME StudentSizes, StudentsInv, NEW s \in Students!Slots, s = Known,
         NEW r \in Rolls \cup {BadRoll}, NEW n \in Names, NEW subject \in Marks,
         NEW rec, rec = Students!students(s, r, n, subject)
  PROVE  /\ Marked(rec) => rec.sum = Total(rec)
         /\ DOMAIN rec = {"roll", "name", "subject", "sum"} /\ DOMAIN rec.subject = 1..3
         /\ rec.roll # Students!Refused /\ rec.name # "x" =>
              /\ rec.roll \in Rolls /\ rec.name \in Names
              /\ \A t \in 0..(s - 1) : class[t].roll # rec.roll /\ class[t].name # rec.name
  <1> DEFINE old == class[s]
             bad == {m \in 1..3 : subject[m] = BadMark}
             entered == Students!Entered(old.subject, subject)
  <1>1. /\ Marked(old) => old.sum = Total(old)
        /\ DOMAIN old = {"roll", "name", "subject", "sum"} /\ DOMAIN old.subject = 1..3
    BY DEF StudentsInv, TableInv
  <1>2. CASE r = BadRoll \/ \E t \in 0..(s - 1) : class[t].roll = r
    <2>1. rec = [old EXCEPT !.roll = Students!Refused]
      BY <1>2 DEF Students!students
    <2>2. /\ rec.roll = Students!Refused /\ rec.subject = old.subject /\ rec.sum = old.sum
          /\ DOMAIN rec = {"roll", "name", "subject", "sum"}
      BY <1>1, <2>1
    <2> QED
      BY <1>1, <2>2 DEF Marked, Total
  <1>3. CASE ~(r = BadRoll \/ \E t \in 0..(s - 1) : class[t].roll = r)
               /\ \E t \in 0..(s - 1) : class[t].name = n
    <2>1. rec = [old EXCEPT !.roll = r, !.name = "x"]
      BY <1>3 DEF Students!students
    <2>2. /\ rec.name = "x" /\ rec.subject = old.subject /\ rec.sum = old.sum
          /\ DOMAIN rec = {"roll", "name", "subject", "sum"}
      BY <1>1, <2>1
    <2> QED
      BY <1>1, <2>2 DEF Marked, Total
  <1>4. CASE ~(r = BadRoll \/ \E t \in 0..(s - 1) : class[t].roll = r)
               /\ ~(\E t \in 0..(s - 1) : class[t].name = n)
    <2>1. rec = [roll |-> r, name |-> n, subject |-> entered,
                 sum |-> IF BadMark \in Students!Range(subject) THEN old.sum
                         ELSE Students!Total(subject)]
      BY <1>4 DEF Students!students
    <2>2. /\ rec.roll = r /\ rec.name = n /\ rec.subject = entered
          /\ rec.sum = IF BadMark \in Students!Range(subject) THEN old.sum
                       ELSE Students!Total(subject)
          /\ DOMAIN rec = {"roll", "name", "subject", "sum"}
      BY <2>1
    <2>3. DOMAIN entered = 1..3
      BY DEF Students!Entered
    <2>4. DOMAIN subject = 1..3
      BY DEF StudentSizes
    <2>5. CASE bad = {}
      <3>1. BadMark \notin Students!Range(subject)
        BY <2>4, <2>5 DEF Students!Range
      <3>2. entered = [m \in 1..3 |-> IF m > 3 THEN old.subject[m]
                                      ELSE IF m \in bad THEN Students!Refused ELSE subject[m]]
        BY <2>5 DEF Students!Entered
      <3>3. entered[1] = subject[1] /\ entered[2] = subject[2] /\ entered[3] = subject[3]
        BY <2>5, <3>2
      <3>4. rec.sum = Total(rec)
        BY <2>2, <3>1, <3>3 DEF Total, Students!Total
      <3> QED
        BY <1>4, <2>2, <2>3, <3>4
    <2>6. CASE bad # {}
      <3>1. PICK l : l = CHOOSE x \in bad : \A y \in bad : x =< y
        OBVIOUS
      <3>2. l \in bad
        BY <2>6, <3>1, ChosenLeast
      <3>3. entered = [m \in 1..3 |-> IF m > l THEN old.subject[m]
                                      ELSE IF m \in bad THEN Students!Refused ELSE subject[m]]
        BY <2>6, <3>1 DEF Students!Entered, Students!Min
      <3>4. entered[l] = Students!Refused /\ l \in 1..3
        BY <3>2, <3>3
      <3>5. ~Marked(rec)
        BY <2>2, <3>4 DEF Marked
      <3> QED
        BY <1>4, <2>2, <2>3, <3>5
    <2> QED
      BY <2>5, <2>6
  <1> QED
    BY <1>2, <1>3, <1>4

\* One attempt, with which the table grows by the slot or does not.
LEMMA Attempted ==
  ASSUME StudentSizes, StudentsInv, MenuInv', NEW s \in Students!Slots, s = Known,
         NEW r \in Rolls \cup {BadRoll}, NEW n \in Names, NEW subject \in Marks,
         class' = [class EXCEPT ![s] = Students!students(s, r, n, subject)],
         Known' \in {Known, Known + 1},
         Known' = Known + 1 => class'[s].roll # Students!Refused /\ class'[s].name # "x",
         filled' = filled \/ (filled' = filled + 1 /\ filled = s /\ Known' = Known + 1
                               /\ ~Students!SeesMarks(class'[s]))
  PROVE  StudentsInv'
  <1> DEFINE rec == class'[s]
  <1>1. DOMAIN class = Students!Slots /\ DOMAIN class' = Students!Slots
    BY DEF StudentsInv, TableInv
  <1>2. rec = Students!students(s, r, n, subject) /\ \A t \in Students!Slots : t # s => class'[t] = class[t]
    BY <1>1
  <1>3. /\ Marked(rec) => rec.sum = Total(rec)
        /\ DOMAIN rec = {"roll", "name", "subject", "sum"} /\ DOMAIN rec.subject = 1..3
        /\ rec.roll # Students!Refused /\ rec.name # "x" =>
              /\ rec.roll \in Rolls /\ rec.name \in Names
              /\ \A t \in 0..(s - 1) : class[t].roll # rec.roll /\ class[t].name # rec.name
    BY <1>2, Attempt
  <1> HIDE DEF rec
  <1>4. s \in Nat /\ s <= MaxStudents /\ Students!Slots = 0..MaxStudents /\ MaxStudents \in Nat
        /\ filled \in Nat /\ filled <= s
    BY DEF StudentSizes, Students!Slots, StudentsInv, MenuInv, Known
  <1>5. \A t \in 0..(s - 1) : t \in Students!Slots /\ t # s /\ class'[t] = class[t]
    BY <1>2, <1>4
  <1>6. ASSUME NEW t \in Students!Slots
        PROVE  /\ (Marked(class[t]) => class[t].sum = Total(class[t]))'
               /\ DOMAIN class'[t] = {"roll", "name", "subject", "sum"}
               /\ DOMAIN class'[t].subject = 1..3
    <2>1. CASE t = s
      BY <1>3, <2>1 DEF rec, Marked, Total
    <2>2. CASE t # s
      BY <1>2, <2>2 DEF StudentsInv, TableInv, Marked, Total
    <2> QED
      BY <2>1, <2>2
  <1>7. CASE Known' = Known
    <2>1. filled' = filled
      BY <1>4, <1>7
    <2>2. \A t \in 0..(Known' - 1) : t \in 0..(s - 1) /\ t \in 0..(Known - 1)
      BY <1>7
    <2> QED
      BY <1>1, <1>5, <1>6, <2>1, <2>2 DEF StudentsInv, TableInv
  <1>8. CASE Known' = Known + 1
    <2>1. \A t \in 0..(Known' - 1) : t = s \/ t \in 0..(s - 1)
      BY <1>4, <1>8
    <2>2. /\ rec.roll \in Rolls /\ rec.name \in Names \ {"x"}
          /\ \A t \in 0..(s - 1) : class[t].roll # rec.roll /\ class[t].name # rec.name
      BY <1>3, <1>8 DEF rec
    <2>3. s < filled' => Students!Refused \notin {rec.subject[1], rec.subject[2]}
      <3> SUFFICES ASSUME s < filled' PROVE Students!Refused \notin {rec.subject[1], rec.subject[2]}
        OBVIOUS
      <3>1. ~Students!SeesMarks(rec)
        BY <1>4 DEF rec
      <3> QED
        BY <3>1 DEF Students!SeesMarks
    <2>4. \A t \in 0..(s - 1) : t < filled' => t < filled
      BY <1>4
    <2>5. ASSUME NEW t \in 0..(Known' - 1)
          PROVE  /\ class'[t].roll \in Rolls
                 /\ class'[t].name \in Names \ {"x"}
                 /\ t < filled' => Students!Refused \notin {class'[t].subject[1], class'[t].subject[2]}
      <3>1. CASE t = s
        BY <2>2, <2>3, <3>1 DEF rec
      <3>2. CASE t \in 0..(s - 1)
        BY <1>5, <2>4, <3>2 DEF StudentsInv, TableInv
      <3> QED
        BY <2>1, <3>1, <3>2
    <2>6. ASSUME NEW t \in 0..(Known' - 1), NEW u \in 0..(Known' - 1),
                 class'[t].roll = class'[u].roll \/ class'[t].name = class'[u].name
          PROVE  t = u
      <3>1. CASE t = s /\ u = s
        BY <3>1
      <3>2. CASE t = s /\ u \in 0..(s - 1)
        BY <1>5, <2>2, <2>6, <3>2 DEF rec
      <3>3. CASE t \in 0..(s - 1) /\ u = s
        BY <1>5, <2>2, <2>6, <3>3 DEF rec
      <3>4. CASE t \in 0..(s - 1) /\ u \in 0..(s - 1)
        BY <1>5, <2>6, <3>4 DEF StudentsInv, TableInv
      <3> QED
        BY <2>1, <3>1, <3>2, <3>3, <3>4
    <2> QED
      BY <1>1, <1>6, <2>5, <2>6 DEF StudentsInv, TableInv
  <1> QED
    BY <1>7, <1>8

LEMMA StudentsFill ==
  ASSUME StudentSizes, StudentsInv, NEW r \in Rolls \cup {BadRoll}, NEW n \in Names,
         NEW subject \in Marks, Students!FillRecord(r, n, subject)
  PROVE  StudentsInv'
  <1>1. PICK s : s = filled
    OBVIOUS
  <1>2. /\ menu = "filling" /\ filled < numberOfstudents
        /\ class' = [class EXCEPT ![s] = Students!students(s, r, n, subject)]
        /\ filled' = IF Students!IsRefused(class'[s]) THEN filled ELSE filled + 1
        /\ menu' = IF filled' = numberOfstudents THEN "menu" ELSE menu
        /\ numberOfstudents' = numberOfstudents
    BY <1>1 DEF Students!FillRecord
  <1>3. /\ numberOfstudents \in Nat /\ numberOfstudents <= MaxStudents /\ MaxStudents \in Nat
        /\ filled \in Nat /\ numberOfstudents >= 1
    BY <1>2 DEF StudentSizes, StudentsInv, MenuInv
  <1>4. s \in Students!Slots /\ s = Known
    BY <1>1, <1>2, <1>3 DEF Students!Slots, Known
  <1>5. filled' \in {filled, filled + 1} /\ filled' <= numberOfstudents
    BY <1>2, <1>3
  <1>6. MenuInv'
    BY <1>2, <1>3, <1>5 DEF MenuInv
  <1>7. Known' = filled'
    BY <1>2 DEF Known
  <1>8. Known' = Known + 1 => ~Students!IsRefused(class'[s])
    BY <1>1, <1>2, <1>3, <1>4, <1>7
  <1>9. filled' = filled \/ (filled' = filled + 1 /\ filled = s /\ Known' = Known + 1)
    BY <1>1, <1>4, <1>5, <1>7
  <1> QED
    BY <1>1, <1>2, <1>4, <1>5, <1>6, <1>7, <1>8, <1>9, Attempted DEF Students!IsRefused

LEMMA StudentsAdd ==
  ASSUME StudentSizes, StudentsInv, NEW r \in Rolls \cup {BadRoll}, NEW n \in Names,
         NEW subject \in Marks, Students!AddStudent(r, n, subject)
  PROVE  StudentsInv'
  <1>1. PICK s : s = numberOfstudents
    OBVIOUS
  <1>2. /\ menu = "menu" /\ numberOfstudents <= MaxStudents
        /\ class' = [class EXCEPT ![s] = Students!students(s, r, n, subject)]
        /\ numberOfstudents' = IF Students!NotAdded(class'[s]) THEN numberOfstudents
                               ELSE numberOfstudents + 1
        /\ filled' = filled /\ menu' = menu
    BY <1>1 DEF Students!AddStudent
  <1>3. /\ numberOfstudents \in Nat /\ MaxStudents \in Nat /\ numberOfstudents >= 1
        /\ filled \in 0..MaxStudents /\ filled <= numberOfstudents
    BY DEF StudentSizes, StudentsInv, MenuInv
  <1>4. s \in Students!Slots /\ s = Known
    BY <1>1, <1>2, <1>3 DEF Students!Slots, Known
  <1>5. Known' = numberOfstudents' /\ numberOfstudents' \in {Known, Known + 1}
    BY <1>1, <1>2, <1>4 DEF Known
  <1>6. MenuInv'
    BY <1>1, <1>2, <1>3, <1>4, <1>5 DEF MenuInv
  <1>7. Known' = Known + 1 => ~Students!NotAdded(class'[s])
    BY <1>1, <1>2, <1>3, <1>4, <1>5
  <1> QED
    BY <1>2, <1>4, <1>5, <1>6, <1>7, Attempted DEF Students!NotAdded

\* The sum over a set depends on nothing outside the set.
LEMMA SameSum ==
  ASSUME NEW f, NEW g, NEW S, \A x \in S : f[x] = g[x]
  PROVE  Students!SumFunctionOnSet(f, S) = Students!SumFunctionOnSet(g, S)
  <1> DEFINE Body(h, it) == [s \in SUBSET S |-> IF s = {} THEN 0
                               ELSE LET x == CHOOSE y \in s : TRUE IN h[x] + it[s \ {x}]]
  <1>1. \A it : Body(f, it) = Body(g, it)
    OBVIOUS
  <1>2. (CHOOSE it : it = Body(f, it)) = (CHOOSE it : it = Body(g, it))
    <2> HIDE DEF Body
    <2> QED
      BY <1>1, Zenon
  <1>3. \A h : Students!SumFunctionOnSet(h, S) = (CHOOSE it : it = Body(h, it))[S]
    BY Zenon DEF Students!SumFunctionOnSet, Students!FoldFunctionOnSet, Students!MapThenFoldSet
  <1> QED
    BY <1>2, <1>3

LEMMA TableIsSound ==
  ASSUME StudentSizes, StudentsInv
  PROVE  Students!TableSound
  <1> DEFINE R == Students!Records
  <1>1. R = 0..(Known - 1) /\ Known \in 0..(MaxStudents + 1) /\ MaxStudents \in Nat
    BY DEF Students!Records, Known, StudentSizes, StudentsInv, MenuInv
  <1>2. R \subseteq Students!Slots /\ R \subseteq Nat
    BY <1>1 DEF Students!Slots
  <1>3. \A s \in R :
           /\ class[s].roll \in Rolls /\ class[s].name \in Names \ {"x"}
           /\ s < filled => Students!Refused \notin {class[s].subject[1], class[s].subject[2]}
           /\ \A t \in R : class[s].roll = class[t].roll \/ class[s].name = class[t].name => s = t
    BY <1>1 DEF StudentsInv, TableInv
  <1> HIDE DEF R
  <1>4. ASSUME NEW s \in R PROVE Students!findStudentByRoll(class[s].roll) = s
    <2> DEFINE I == {t \in R : class[t].roll = class[s].roll}
    <2>1. I \subseteq Nat /\ s \in I /\ \A t \in I : t = s
      BY <1>2, <1>3
    <2>2. Students!findStudentByRoll(class[s].roll) = CHOOSE x \in I : \A y \in I : x =< y
      BY Zenon DEF Students!findStudentByRoll, Students!Min, R
    <2> HIDE DEF I
    <2>3. (CHOOSE x \in I : \A y \in I : x =< y) \in I
      BY <2>1, ChosenLeast
    <2> QED
      BY <2>1, <2>2, <2>3
  <1>5. ASSUME NEW s \in R PROVE Students!findStudentByName(class[s].name) = s
    <2> DEFINE I == {t \in R : class[t].name = class[s].name}
    <2>1. I \subseteq Nat /\ s \in I /\ \A t \in I : t = s
      BY <1>2, <1>3
    <2>2. Students!findStudentByName(class[s].name) = CHOOSE x \in I : \A y \in I : x =< y
      BY Zenon DEF Students!findStudentByName, Students!Min, R
    <2> HIDE DEF I
    <2>3. (CHOOSE x \in I : \A y \in I : x =< y) \in I
      BY <2>1, ChosenLeast
    <2> QED
      BY <2>1, <2>2, <2>3
  <1>6. \A s \in Students!Slots : Students!Complete(s) => class[s].sum = Students!TotalOf(s)
    BY DEF StudentsInv, TableInv, Marked, Total, Students!Complete, Students!TotalOf, Students!Total
  <1>7. ASSUME \A s \in R : Students!Complete(s)
        PROVE  /\ Students!numberOfStudentsPassed
                    = Students!Cardinality({s \in R : Students!TotalOf(s) > 150})
               /\ Students!classaverage
                    = Students!SumFunctionOnSet([s \in Students!Slots |-> Students!TotalOf(s)], R)
                        \div (3 * Students!Cardinality(R))
    <2>1. \A s \in R : class[s].sum = Students!TotalOf(s)
      BY <1>2, <1>6, <1>7
    <2>2. {s \in R : class[s].sum > 150} = {s \in R : Students!TotalOf(s) > 150}
      BY <2>1
    <2> DEFINE f == [s \in Students!Slots |-> class[s].sum]
               g == [s \in Students!Slots |-> Students!TotalOf(s)]
    <2>3. \A s \in R : f[s] = g[s]
      BY <1>2, <2>1
    <2> HIDE DEF f, g
    <2>4. Students!SumFunctionOnSet(f, R) = Students!SumFunctionOnSet(g, R)
      BY <2>3, SameSum
    <2>5. Students!classaverage = Students!SumFunctionOnSet(f, R) \div (3 * Students!Cardinality(R))
      BY Zenon DEF Students!classaverage, f, R
    <2>6. Students!numberOfStudentsPassed = Students!Cardinality({s \in R : class[s].sum > 150})
      BY Zenon DEF Students!numberOfStudentsPassed, R
    <2> QED
      BY <2>2, <2>4, <2>5, <2>6, Zenon DEF g
  <1> QED
    BY <1>2, <1>3, <1>4, <1>5, <1>6, <1>7, Zenon DEF Students!TableSound, R

LEMMA StudentsInvariance == Spec => []StudentsInv
  <1>1. StudentSizes
    BY ConstantsAssumption DEF StudentSizes
  <1>2. Init => StudentsInv
    BY <1>1, StudentsStart DEF Init
  <1>3. StudentsInv /\ [Next]_vars => StudentsInv'
    <2> SUFFICES ASSUME StudentsInv, [Next]_vars PROVE StudentsInv'
      OBVIOUS
    <2>1. CASE UNCHANGED studentVars
      BY <2>1 DEF studentVars, StudentsInv, MenuInv, TableInv, Known, Marked, Total
    <2>2. CASE Students!ExitMenu
      BY <2>2 DEF Students!ExitMenu, StudentsInv, MenuInv, TableInv, Known, Marked, Total
    <2>3. CASE Students!Next
      BY <1>1, <2>2, <2>3, StudentsFill, StudentsAdd DEF Students!Next
    <2> QED
      BY <2>1, <2>3, OneProgramMoves
  <1> QED
    BY <1>2, <1>3, PTL DEF Spec

\* However often an attempt is refused and its slot used again, the students
\* are found and their sums and the reports are right, for every size of the
\* table and everything that can be entered.
THEOREM TableStaysSound == Spec => []TableSound
  <1>1. StudentSizes
    BY ConstantsAssumption DEF StudentSizes
  <1>2. StudentsInv => TableSound
    BY <1>1, TableIsSound DEF TableSound
  <1> QED
    BY <1>2, StudentsInvariance, PTL
-----------------------------------------------------------------------------
(***************************************************************************)
(* simulateARC and simulateLRU of src/page_cache_simulator.c.              *)
(***************************************************************************)
Places(list, x) == {n \in 1..Len(list) : list[n] = x}
Times(list, x)  == Cardinality(Places(list, x))

LEMMA TimesIsNat ==
  ASSUME NEW S, NEW s \in Seq(S), NEW x
  PROVE  /\ IsFiniteSet(Places(s, x)) /\ Times(s, x) \in Nat
         /\ Times(s, x) = 0 <=> \A n \in 1..Len(s) : s[n] # x
  <1>1. Len(s) \in Nat /\ Places(s, x) \in SUBSET (1..Len(s))
    BY DEF Places
  <1>2. IsFiniteSet(1..Len(s))
    BY <1>1, FS_Interval
  <1>3. IsFiniteSet(Places(s, x))
    BY <1>1, <1>2, FS_Subset
  <1>4. Times(s, x) \in Nat /\ (Times(s, x) = 0 <=> Places(s, x) = {})
    BY <1>3, FS_CardinalityType, FS_EmptySet DEF Times
  <1> QED
    BY <1>3, <1>4 DEF Places

\* The list t without its i-th page.
IsWithout(s, t, i) ==
    /\ Len(s) = Len(t) - 1
    /\ \A n \in 1..Len(s) : s[n] = IF n < i THEN t[n] ELSE t[n + 1]

Once(a, x) == IF a = x THEN 1 ELSE 0

\* Without its i-th page a list has that page once less, and the others as
\* often as before.
LEMMA TimesRemoved ==
  ASSUME NEW S, NEW t \in Seq(S), NEW i \in 1..Len(t), NEW s \in Seq(S),
         IsWithout(s, t, i), NEW x
  PROVE  Times(t, x) = Times(s, x) + Once(t[i], x)
  <1> DEFINE A == Places(s, x)
             B == Places(t, x) \ {i}
             f == [n \in A |-> IF n < i THEN n ELSE n + 1]
  <1>1. Len(t) \in Nat /\ i \in Nat /\ i >= 1 /\ i <= Len(t) /\ Len(s) \in Nat
        /\ Len(s) = Len(t) - 1 /\ \A n \in 1..Len(s) : s[n] = IF n < i THEN t[n] ELSE t[n + 1]
    BY DEF IsWithout
  <1>2. \A n \in A : n \in Nat /\ n >= 1 /\ n <= Len(s) /\ s[n] = x
    BY DEF Places
  <1>3. ASSUME NEW n \in A PROVE f[n] \in B
    <2>1. n \in 1..Len(s) /\ s[n] = x
      BY DEF Places
    <2>2. CASE n < i
      BY <1>1, <2>1, <2>2 DEF Places
    <2>3. CASE ~(n < i)
      <3>1. n + 1 \in 1..Len(t) /\ n + 1 # i
        BY <1>1, <2>1, <2>3
      <3> QED
        BY <1>1, <2>1, <2>3, <3>1 DEF Places
    <2> QED
      BY <2>2, <2>3
  <1>4. ASSUME NEW m \in B PROVE \E n \in A : f[n] = m
    <2>1. m \in 1..Len(t) /\ t[m] = x /\ m # i
      BY DEF Places
    <2>2. CASE m < i
      <3>1. m \in 1..Len(s) /\ s[m] = x
        BY <1>1, <2>1, <2>2
      <3>2. m \in A
        BY <3>1 DEF Places
      <3> QED
        BY <2>2, <3>2
    <2>3. CASE m > i
      <3>1. m - 1 \in 1..Len(s) /\ ~(m - 1 < i) /\ (m - 1) + 1 = m
        BY <1>1, <2>1, <2>3
      <3>2. m - 1 \in A
        BY <1>1, <2>1, <3>1 DEF Places
      <3>3. f[m - 1] = m
        BY <3>1, <3>2
      <3> QED
        BY <3>2, <3>3
    <2> QED
      BY <1>1, <2>1, <2>2, <2>3
  <1>5. \A n, m \in A : f[n] = f[m] => n = m
    BY <1>1, <1>2
  <1>6. f \in [A -> B]
    BY <1>3
  <1>7. IsFiniteSet(A) /\ IsFiniteSet(Places(t, x)) /\ Times(t, x) \in Nat /\ Times(s, x) \in Nat
    BY TimesIsNat
  <1> HIDE DEF f, A, B
  <1>8. f \in Bijection(A, B)
    BY <1>4, <1>5, <1>6 DEF Bijection, Injection, Surjection, IsInjective
  <1>9. ExistsBijection(A, B)
    BY <1>8 DEF ExistsBijection
  <1>10. Cardinality(B) = Cardinality(A)
    BY <1>7, <1>9, FS_Bijection
  <1>11. Cardinality(B) = IF i \in Places(t, x) THEN Times(t, x) - 1 ELSE Times(t, x)
    BY <1>7, FS_RemoveElement DEF B, Times
  <1>12. i \in Places(t, x) <=> t[i] = x
    BY DEF Places
  <1>13. Cardinality(A) = Times(s, x)
    BY DEF A, Times
  <1>14. PICK a \in Nat, b \in Nat : a = Times(t, x) /\ b = Times(s, x)
    BY <1>7
  <1>15. b = IF t[i] = x THEN a - 1 ELSE a
    BY <1>10, <1>11, <1>12, <1>13, <1>14, Zenon
  <1>16. a = b + Once(t[i], x)
    BY <1>15 DEF Once
  <1> QED
    BY <1>14, <1>16, Zenon

LEMMA TimesPrepended ==
  ASSUME NEW S, NEW s \in Seq(S), NEW a \in S
  PROVE  LET t == <<a>> \o s
         IN  /\ t \in Seq(S) /\ Len(t) = Len(s) + 1
             /\ \A x : Times(t, x) = Times(s, x) + Once(a, x)
  <1>1. PICK u : u = <<a>>
    OBVIOUS
  <1>2. u \in Seq(S) /\ Len(u) = 1 /\ u[1] = a
    BY <1>1
  <1>3. PICK t : t = u \o s
    OBVIOUS
  <1>4. /\ t \in Seq(S) /\ Len(t) = Len(u) + Len(s)
        /\ \A j \in 1..(Len(u) + Len(s)) : t[j] = IF j <= Len(u) THEN u[j] ELSE s[j - Len(u)]
    BY <1>2, <1>3, ConcatProperties
  <1>5. Len(s) \in Nat /\ Len(t) = Len(s) + 1 /\ 1 \in 1..Len(t) /\ Len(s) = Len(t) - 1
    BY <1>2, <1>4
  <1>6. t[1] = a
    BY <1>2, <1>4, <1>5
  <1>7. ASSUME NEW n \in 1..Len(s) PROVE s[n] = IF n < 1 THEN t[n] ELSE t[n + 1]
    <2>1. n + 1 \in 1..(Len(u) + Len(s)) /\ ~(n + 1 <= Len(u)) /\ (n + 1) - Len(u) = n
      BY <1>2, <1>5
    <2> QED
      BY <1>4, <2>1
  <1>8. IsWithout(s, t, 1)
    BY <1>5, <1>7, Zenon DEF IsWithout
  <1>9. ASSUME NEW x PROVE Times(t, x) = Times(s, x) + Once(t[1], x)
    BY <1>4, <1>5, <1>8, TimesRemoved
  <1>10. t \in Seq(S) /\ Len(t) = Len(s) + 1 /\ \A x : Times(t, x) = Times(s, x) + Once(a, x)
    BY <1>4, <1>5, <1>6, <1>9, Zenon
  <1> QED
    BY <1>1, <1>3, <1>10, Zenon

LEMMA TimesWithoutLast ==
  ASSUME NEW S, NEW t \in Seq(S), t # <<>>
  PROVE  LET s == SubSeq(t, 1, Len(t) - 1)
         IN  /\ s \in Seq(S) /\ Len(s) = Len(t) - 1 /\ t[Len(t)] \in S
             /\ \A x : Times(t, x) = Times(s, x) + Once(t[Len(t)], x)
  <1>1. Len(t) \in Nat /\ Len(t) >= 1 /\ Len(t) \in 1..Len(t) /\ \A n \in 1..Len(t) : t[n] \in S
    OBVIOUS
  <1>2. PICK s : s = SubSeq(t, 1, Len(t) - 1)
    OBVIOUS
  <1>3. \A n \in 1..(Len(t) - 1) : t[n] \in S
    BY <1>1
  <1>4. /\ s \in Seq(S)
        /\ Len(s) = IF 1 <= Len(t) - 1 THEN (Len(t) - 1) - 1 + 1 ELSE 0
        /\ \A n \in 1..((Len(t) - 1) - 1 + 1) : s[n] = t[1 + n - 1]
    BY <1>1, <1>2, <1>3, SubSeqProperties
  <1>5. Len(s) = Len(t) - 1 /\ Len(s) \in Nat
    <2>1. PICK k, l : k \in Nat /\ k = Len(t) /\ l = Len(s)
      BY <1>1
    <2>2. k >= 1 /\ l = IF 1 <= k - 1 THEN (k - 1) - 1 + 1 ELSE 0
      BY <1>1, <1>4, <2>1, Zenon
    <2>3. l = k - 1 /\ l \in Nat
      BY <2>1, <2>2
    <2> QED
      BY <2>1, <2>3, Zenon
  <1>6. ASSUME NEW n \in 1..Len(s) PROVE s[n] = IF n < Len(t) THEN t[n] ELSE t[n + 1]
    <2>1. n \in 1..((Len(t) - 1) - 1 + 1) /\ 1 + n - 1 = n /\ n < Len(t)
      BY <1>1, <1>5
    <2> QED
      BY <1>4, <2>1
  <1>7. IsWithout(s, t, Len(t))
    BY <1>5, <1>6, Zenon DEF IsWithout
  <1>8. ASSUME NEW x PROVE Times(t, x) = Times(s, x) + Once(t[Len(t)], x)
    BY <1>1, <1>4, <1>7, TimesRemoved
  <1> QED
    BY <1>1, <1>2, <1>4, <1>5, <1>8, Zenon

\* RemoveFirst on a list that has the page.
LEMMA TimesWithoutFirst ==
  ASSUME NEW S, NEW t \in Seq(S), NEW e, \E n \in 1..Len(t) : t[n] = e
  PROVE  LET s == Simulator!ARC!RemoveFirst(t, e)
         IN  /\ s \in Seq(S) /\ Len(s) = Len(t) - 1
             /\ \A x : Times(t, x) = Times(s, x) + Once(e, x)
  <1> DEFINE I == {n \in 1..Len(t) : t[n] = e}
  <1>1. PICK i : i = CHOOSE x \in I : \A y \in I : x =< y
    OBVIOUS
  <1>2. i \in I
    <2>1. I \subseteq Nat /\ I # {}
      OBVIOUS
    <2> HIDE DEF I
    <2> QED
      BY <1>1, <2>1, ChosenLeast
  <1>3. i \in 1..Len(t) /\ t[i] = e
    BY <1>2
  <1>4. PICK s : s = SubSeq(t, 1, i - 1) \o SubSeq(t, i + 1, Len(t))
    OBVIOUS
  <1>5. Simulator!ARC!RemoveFirst(t, e) = s
    <2>1. I # {}
      BY <1>2
    <2> QED
      BY <1>1, <1>4, <2>1, Zenon DEF Simulator!ARC!RemoveFirst, Simulator!ARC!RemoveAt,
         Simulator!ARC!SelectInSeq, Simulator!ARC!Min
  <1>6. /\ s \in Seq(S) /\ Len(s) = Len(t) - 1
        /\ \A j \in 1..(Len(t) - 1) : s[j] = IF j < i THEN t[j] ELSE t[j + 1]
    BY <1>3, <1>4, Removed
  <1>7. \A x : Times(t, x) = Times(s, x) + Once(e, x)
    <2> SUFFICES ASSUME NEW x PROVE Times(t, x) = Times(s, x) + Once(e, x)
      OBVIOUS
    <2>1. Times(t, x) = Times(s, x) + Once(t[i], x)
      <3>1. IsWithout(s, t, i)
        BY <1>6, Zenon DEF IsWithout
      <3> QED
        BY <1>3, <1>6, <3>1, TimesRemoved
    <2> QED
      BY <1>3, <2>1
  <1> QED
    BY <1>5, <1>6, <1>7

Copies(a, b, c, d, x) == Times(a, x) + Times(b, x) + Times(c, x) + Times(d, x)
Surplus(a, b, d)      == Len(a) + Len(b) - Times(d, NoPage)

\* Only B2 ever has the page -1.
ArcLists(a, b, c, d) ==
    /\ a \in Seq(Pages)
    /\ b \in Seq(Pages)
    /\ c \in Seq(Pages)
    /\ d \in Seq(Pages \cup {NoPage})

LEMMA ListsCount ==
  ASSUME NEW a, NEW b, NEW c, NEW d, ArcLists(a, b, c, d), NEW x
  PROVE  /\ Times(a, x) \in Nat /\ Times(b, x) \in Nat
         /\ Times(c, x) \in Nat /\ Times(d, x) \in Nat
         /\ Len(a) \in Nat /\ Len(b) \in Nat
  <1>1. a \in Seq(Pages) /\ b \in Seq(Pages) /\ c \in Seq(Pages) /\ d \in Seq(Pages \cup {NoPage})
    BY DEF ArcLists
  <1> QED
    BY <1>1, TimesIsNat

LEMMA OnceIsNat ==
  ASSUME NEW a, NEW x
  PROVE  Once(a, x) \in Nat /\ (a = x => Once(a, x) = 1) /\ (a # x => Once(a, x) = 0)
  BY DEF Once

\* What replaceARC does: one page goes from a list of frames to its list of
\* ghosts, or, when T2 is empty, the page -1 comes to B2.
Replacement(l) ==
    /\ ArcLists(l.T1, l.T2, l.B1, l.B2)
    /\ Surplus(l.T1, l.T2, l.B2) = Surplus(T1, T2, B2) - 1
    /\ \A x \in Pages :
          /\ Copies(l.T1, l.T2, l.B1, l.B2, x) = Copies(T1, T2, B1, B2, x)
          /\ Times(l.B1, x) >= Times(B1, x)
          /\ Times(l.B2, x) >= Times(B2, x)

LEMMA ReplacedFromT1 ==
  ASSUME ArcLists(T1, T2, B1, B2), T1 # <<>>, NoPage \notin Pages
  PROVE  Replacement([T1 |-> SubSeq(T1, 1, Len(T1) - 1), T2 |-> T2,
                      B1 |-> <<T1[Len(T1)]>> \o B1, B2 |-> B2])
  <1>1. PICK s, a, t : s = SubSeq(T1, 1, Len(T1) - 1) /\ a = T1[Len(T1)] /\ t = <<a>> \o B1
    OBVIOUS
  <1>2. T1 \in Seq(Pages) /\ T2 \in Seq(Pages) /\ B1 \in Seq(Pages) /\ B2 \in Seq(Pages \cup {NoPage})
    BY DEF ArcLists
  <1>3. /\ s \in Seq(Pages) /\ Len(s) = Len(T1) - 1 /\ a \in Pages
        /\ \A x : Times(T1, x) = Times(s, x) + Once(a, x)
    BY <1>1, <1>2, TimesWithoutLast
  <1>4. t \in Seq(Pages) /\ \A x : Times(t, x) = Times(B1, x) + Once(a, x)
    BY <1>1, <1>2, <1>3, TimesPrepended
  <1>5. ArcLists(s, T2, t, B2)
    BY <1>2, <1>3, <1>4 DEF ArcLists
  <1>6. Surplus(s, T2, B2) = Surplus(T1, T2, B2) - 1
    BY <1>3, ListsCount DEF Surplus
  <1>7. ASSUME NEW x \in Pages
        PROVE  Copies(s, T2, t, B2, x) = Copies(T1, T2, B1, B2, x) /\ Times(t, x) >= Times(B1, x)
               /\ Times(B2, x) >= Times(B2, x)
    <2>1. /\ Times(T1, x) \in Nat /\ Times(T2, x) \in Nat /\ Times(B1, x) \in Nat
          /\ Times(B2, x) \in Nat /\ Times(s, x) \in Nat /\ Once(a, x) \in Nat
      BY <1>5, ListsCount, OnceIsNat
    <2>2. Times(T1, x) = Times(s, x) + Once(a, x) /\ Times(t, x) = Times(B1, x) + Once(a, x)
      BY <1>3, <1>4
    <2> QED
      BY <2>1, <2>2 DEF Copies
  <1>8. Replacement([T1 |-> s, T2 |-> T2, B1 |-> t, B2 |-> B2])
    BY <1>5, <1>6, <1>7 DEF Replacement
  <1> QED
    BY <1>1, <1>8

LEMMA ReplacedFromT2 ==
  ASSUME ArcLists(T1, T2, B1, B2), T2 # <<>>, NoPage \notin Pages
  PROVE  Replacement([T1 |-> T1, T2 |-> SubSeq(T2, 1, Len(T2) - 1),
                      B1 |-> B1, B2 |-> <<T2[Len(T2)]>> \o B2])
  <1>1. PICK s, a, t : s = SubSeq(T2, 1, Len(T2) - 1) /\ a = T2[Len(T2)] /\ t = <<a>> \o B2
    OBVIOUS
  <1>2. T1 \in Seq(Pages) /\ T2 \in Seq(Pages) /\ B1 \in Seq(Pages) /\ B2 \in Seq(Pages \cup {NoPage})
    BY DEF ArcLists
  <1>3. /\ s \in Seq(Pages) /\ Len(s) = Len(T2) - 1 /\ a \in Pages
        /\ \A x : Times(T2, x) = Times(s, x) + Once(a, x)
    BY <1>1, <1>2, TimesWithoutLast
  <1>4. t \in Seq(Pages \cup {NoPage}) /\ \A x : Times(t, x) = Times(B2, x) + Once(a, x)
    <2>1. a \in Pages \cup {NoPage}
      BY <1>3
    <2> QED
      BY <1>1, <1>2, <2>1, TimesPrepended
  <1>5. ArcLists(T1, s, B1, t)
    BY <1>2, <1>3, <1>4 DEF ArcLists
  <1>6. Surplus(T1, s, t) = Surplus(T1, T2, B2) - 1
    <2>1. Once(a, NoPage) = 0
      BY <1>3, OnceIsNat
    <2>2. Times(t, NoPage) = Times(B2, NoPage)
      BY <1>4, <2>1, ListsCount
    <2> QED
      BY <1>3, <2>2, ListsCount DEF Surplus
  <1>7. ASSUME NEW x \in Pages
        PROVE  Copies(T1, s, B1, t, x) = Copies(T1, T2, B1, B2, x) /\ Times(B1, x) >= Times(B1, x)
               /\ Times(t, x) >= Times(B2, x)
    <2>1. /\ Times(T1, x) \in Nat /\ Times(T2, x) \in Nat /\ Times(B1, x) \in Nat
          /\ Times(B2, x) \in Nat /\ Times(s, x) \in Nat /\ Once(a, x) \in Nat
      BY <1>5, ListsCount, OnceIsNat
    <2>2. Times(T2, x) = Times(s, x) + Once(a, x) /\ Times(t, x) = Times(B2, x) + Once(a, x)
      BY <1>3, <1>4
    <2> QED
      BY <2>1, <2>2 DEF Copies
  <1>8. Replacement([T1 |-> T1, T2 |-> s, B1 |-> B1, B2 |-> t])
    BY <1>5, <1>6, <1>7 DEF Replacement
  <1> QED
    BY <1>1, <1>8

LEMMA ReplacedFromNothing ==
  ASSUME ArcLists(T1, T2, B1, B2), NoPage \notin Pages
  PROVE  Replacement([T1 |-> T1, T2 |-> T2, B1 |-> B1, B2 |-> <<NoPage>> \o B2])
  <1>1. PICK t : t = <<NoPage>> \o B2
    OBVIOUS
  <1>2. T1 \in Seq(Pages) /\ T2 \in Seq(Pages) /\ B1 \in Seq(Pages) /\ B2 \in Seq(Pages \cup {NoPage})
    BY DEF ArcLists
  <1>3. t \in Seq(Pages \cup {NoPage}) /\ \A x : Times(t, x) = Times(B2, x) + Once(NoPage, x)
    <2>1. NoPage \in Pages \cup {NoPage}
      OBVIOUS
    <2> QED
      BY <1>1, <1>2, <2>1, TimesPrepended
  <1>4. ArcLists(T1, T2, B1, t)
    BY <1>2, <1>3 DEF ArcLists
  <1>5. Surplus(T1, T2, t) = Surplus(T1, T2, B2) - 1
    <2>1. Times(t, NoPage) = Times(B2, NoPage) + 1
      BY <1>3, OnceIsNat
    <2> QED
      BY <2>1, ListsCount DEF Surplus
  <1>6. ASSUME NEW x \in Pages PROVE Times(t, x) = Times(B2, x) /\ Times(B2, x) \in Nat /\ Times(B1, x) \in Nat
    <2>1. Once(NoPage, x) = 0
      BY OnceIsNat
    <2> QED
      BY <1>3, <2>1, ListsCount
  <1>7. Replacement([T1 |-> T1, T2 |-> T2, B1 |-> B1, B2 |-> t])
    BY <1>4, <1>5, <1>6 DEF Replacement, Copies
  <1> QED
    BY <1>1, <1>7

LEMMA ReplacedLists ==
  ASSUME ArcLists(T1, T2, B1, B2), NoPage \notin Pages, NEW target
  PROVE  Replacement(Simulator!ARC!Replaced(target))
  <1>1. T1 \in Seq(Pages) /\ T2 \in Seq(Pages)
    BY DEF ArcLists
  <1>2. CASE Simulator!ARC!ReplacesT1(target)
    <2>1. T1 # <<>>
      BY <1>1, <1>2 DEF Simulator!ARC!ReplacesT1
    <2>2. Simulator!ARC!Replaced(target) =
             [T1 |-> SubSeq(T1, 1, Len(T1) - 1), T2 |-> T2,
              B1 |-> <<T1[Len(T1)]>> \o B1, B2 |-> B2]
      BY <1>2, <2>1, Zenon DEF Simulator!ARC!Replaced, Simulator!ARC!WithoutLru, Simulator!ARC!LruOf,
         Simulator!ARC!Cons, Simulator!ARC!Last, Simulator!ARC!Front
    <2> QED
      BY <2>1, <2>2, ReplacedFromT1, Zenon
  <1>3. CASE ~Simulator!ARC!ReplacesT1(target) /\ T2 # <<>>
    <2>1. Simulator!ARC!Replaced(target) =
             [T1 |-> T1, T2 |-> SubSeq(T2, 1, Len(T2) - 1),
              B1 |-> B1, B2 |-> <<T2[Len(T2)]>> \o B2]
      BY <1>3, Zenon DEF Simulator!ARC!Replaced, Simulator!ARC!WithoutLru, Simulator!ARC!LruOf,
         Simulator!ARC!Cons, Simulator!ARC!Last, Simulator!ARC!Front
    <2> QED
      BY <1>3, <2>1, ReplacedFromT2, Zenon
  <1>4. CASE ~Simulator!ARC!ReplacesT1(target) /\ T2 = <<>>
    <2>1. Simulator!ARC!Replaced(target) =
             [T1 |-> T1, T2 |-> T2, B1 |-> B1, B2 |-> <<NoPage>> \o B2]
      BY <1>4, Zenon DEF Simulator!ARC!Replaced, Simulator!ARC!WithoutLru, Simulator!ARC!LruOf,
         Simulator!ARC!Cons
    <2> QED
      BY <2>1, ReplacedFromNothing, Zenon
  <1> QED
    BY <1>2, <1>3, <1>4, Zenon

\* The inductive invariant of simulateARC, of the lists a, b, c and d and the
\* pages R requested so far.  Ghosts, the page -1 among them, come only once
\* the frames are full: before, nothing is evicted.
Seated(R) == IF Cardinality(R) < MAX_FRAMES THEN Cardinality(R) ELSE MAX_FRAMES
ArcState(a, b, c, d, R) ==
    /\ R \in SUBSET Pages /\ IsFiniteSet(R)
    /\ ArcLists(a, b, c, d)
    /\ \A x \in Pages : Copies(a, b, c, d, x) = IF x \in R THEN 1 ELSE 0
    /\ Surplus(a, b, d) = Seated(R)
    /\ c # <<>> \/ d # <<>> => Cardinality(R) >= MAX_FRAMES
ArcInv == ArcState(T1, T2, B1, B2, requested)

LEMMA ContainsTimes ==
  ASSUME NEW S, NEW t \in Seq(S), NEW e
  PROVE  /\ Simulator!ARC!Contains(t, e) <=> (\E n \in 1..Len(t) : t[n] = e)
         /\ Simulator!ARC!Contains(t, e) <=> Times(t, e) > 0
         /\ ~Simulator!ARC!Contains(t, e) => Simulator!ARC!RemoveFirst(t, e) = t
  <1>1. Simulator!ARC!Contains(t, e) <=> (\E n \in 1..Len(t) : t[n] = e)
    BY Zenon DEF Simulator!ARC!Contains
  <1>2. Times(t, e) \in Nat /\ (Times(t, e) = 0 <=> \A n \in 1..Len(t) : t[n] # e)
    BY TimesIsNat
  <1>3. ~Simulator!ARC!Contains(t, e) => Simulator!ARC!RemoveFirst(t, e) = t
    BY Zenon DEF Simulator!ARC!Contains, Simulator!ARC!RemoveFirst
  <1>4. (\E n \in 1..Len(t) : t[n] = e) <=> Times(t, e) # 0
    BY <1>2, Zenon
  <1>5. Times(t, e) # 0 <=> Times(t, e) > 0
    BY <1>2
  <1> QED
    BY <1>1, <1>3, <1>4, <1>5, Zenon

\* A page in one of the lists was requested.
LEMMA ListedIsRequested ==
  ASSUME ArcInv, NEW e \in Pages,
         \/ Simulator!ARC!Contains(T1, e) \/ Simulator!ARC!Contains(T2, e)
         \/ Simulator!ARC!Contains(B1, e) \/ Simulator!ARC!Contains(B2, e)
  PROVE  e \in requested
  <1>1. T1 \in Seq(Pages) /\ T2 \in Seq(Pages) /\ B1 \in Seq(Pages) /\ B2 \in Seq(Pages \cup {NoPage})
        /\ ArcLists(T1, T2, B1, B2)
    BY DEF ArcInv, ArcState, ArcLists
  <1>2. Times(T1, e) > 0 \/ Times(T2, e) > 0 \/ Times(B1, e) > 0 \/ Times(B2, e) > 0
    BY <1>1, ContainsTimes
  <1>3. Times(T1, e) \in Nat /\ Times(T2, e) \in Nat /\ Times(B1, e) \in Nat /\ Times(B2, e) \in Nat
    BY <1>1, ListsCount
  <1>4. Copies(T1, T2, B1, B2, e) # 0
    BY <1>2, <1>3 DEF Copies
  <1> QED
    BY <1>4 DEF ArcInv, ArcState

\* A page that is in none of the lists was not.
LEMMA UnlistedIsNew ==
  ASSUME ArcInv, NEW e \in Pages,
         ~Simulator!ARC!Contains(T1, e), ~Simulator!ARC!Contains(T2, e),
         ~Simulator!ARC!Contains(B1, e), ~Simulator!ARC!Contains(B2, e)
  PROVE  e \notin requested
  <1>1. T1 \in Seq(Pages) /\ T2 \in Seq(Pages) /\ B1 \in Seq(Pages) /\ B2 \in Seq(Pages \cup {NoPage})
        /\ ArcLists(T1, T2, B1, B2)
    BY DEF ArcInv, ArcState, ArcLists
  <1>2. ~(Times(T1, e) > 0) /\ ~(Times(T2, e) > 0) /\ ~(Times(B1, e) > 0) /\ ~(Times(B2, e) > 0)
    BY <1>1, ContainsTimes
  <1>3. Times(T1, e) \in Nat /\ Times(T2, e) \in Nat /\ Times(B1, e) \in Nat /\ Times(B2, e) \in Nat
    BY <1>1, ListsCount
  <1>4. Copies(T1, T2, B1, B2, e) = 0
    BY <1>2, <1>3 DEF Copies
  <1> QED
    BY <1>4 DEF ArcInv, ArcState

\* A page taken out of one list and put in front of another keeps the state:
\* the lists after the step are a, b, c, d, of as many pages.
LEMMA ArcMoves ==
  ASSUME ArcInv, NEW e \in Pages, e \in requested,
         NEW a, NEW b, NEW c, NEW d, ArcLists(a, b, c, d),
         \A x \in Pages : Copies(a, b, c, d, x) = Copies(T1, T2, B1, B2, x),
         Surplus(a, b, d) = Surplus(T1, T2, B2),
         (c # <<>> \/ d # <<>>) => (B1 # <<>> \/ B2 # <<>>)
  PROVE  ArcState(a, b, c, d, requested \cup {e})
  <1>1. requested \cup {e} = requested
    OBVIOUS
  <1>2. ArcState(a, b, c, d, requested)
    BY DEF ArcInv, ArcState
  <1> QED
    BY <1>1, <1>2

LEMMA ArcHits ==
  ASSUME ArcInv, NEW e \in Pages, Simulator!ARC!Hit(e)
  PROVE  ArcInv'
  <1>1. T1 \in Seq(Pages) /\ T2 \in Seq(Pages) /\ B1 \in Seq(Pages) /\ B2 \in Seq(Pages \cup {NoPage})
        /\ ArcLists(T1, T2, B1, B2)
    BY DEF ArcInv, ArcState, ArcLists
  <1>2. PICK a, b : a = T1' /\ b = T2'
    OBVIOUS
  <1>3. e \in requested
    BY ListedIsRequested DEF Simulator!ARC!Hit
  <1>4. PICK u : u = IF Simulator!ARC!Contains(T1, e) THEN T2 ELSE Simulator!ARC!RemoveFirst(T2, e)
    OBVIOUS
  <1>5. a = Simulator!ARC!RemoveFirst(T1, e) /\ b = <<e>> \o u
    BY <1>2, <1>4, Zenon DEF Simulator!ARC!Hit, Simulator!ARC!Cons
  <1>6. /\ a \in Seq(Pages) /\ u \in Seq(Pages) /\ Len(a) + Len(u) = Len(T1) + Len(T2) - 1
        /\ \A x : Times(T1, x) + Times(T2, x) = Times(a, x) + Times(u, x) + Once(e, x)
    <2>1. CASE Simulator!ARC!Contains(T1, e)
      <3>1. \E n \in 1..Len(T1) : T1[n] = e
        BY <1>1, <2>1, ContainsTimes
      <3>2. a \in Seq(Pages) /\ Len(a) = Len(T1) - 1 /\ \A x : Times(T1, x) = Times(a, x) + Once(e, x)
        BY <1>1, <1>5, <3>1, TimesWithoutFirst
      <3>3. u = T2
        BY <1>4, <2>1
      <3>4. Len(a) + Len(u) = Len(T1) + Len(T2) - 1
        BY <1>1, <3>2, <3>3
      <3>5. ASSUME NEW x PROVE Times(T1, x) + Times(T2, x) = Times(a, x) + Times(u, x) + Once(e, x)
        <4>1. Times(T2, x) \in Nat /\ Times(a, x) \in Nat /\ Once(e, x) \in Nat
          BY <1>1, <3>2, TimesIsNat, OnceIsNat
        <4> QED
          BY <3>2, <3>3, <4>1
      <3> QED
        BY <1>1, <3>2, <3>3, <3>4, <3>5
    <2>2. CASE ~Simulator!ARC!Contains(T1, e)
      <3>1. \E n \in 1..Len(T2) : T2[n] = e
        BY <1>1, <2>2, ContainsTimes DEF Simulator!ARC!Hit
      <3>2. u = Simulator!ARC!RemoveFirst(T2, e)
        BY <1>4, <2>2
      <3>3. u \in Seq(Pages) /\ Len(u) = Len(T2) - 1 /\ \A x : Times(T2, x) = Times(u, x) + Once(e, x)
        BY <1>1, <3>1, <3>2, TimesWithoutFirst
      <3>4. a = T1
        BY <1>1, <1>5, <2>2, ContainsTimes
      <3>5. Len(a) + Len(u) = Len(T1) + Len(T2) - 1
        BY <1>1, <3>3, <3>4
      <3>6. ASSUME NEW x PROVE Times(T1, x) + Times(T2, x) = Times(a, x) + Times(u, x) + Once(e, x)
        <4>1. Times(T1, x) \in Nat /\ Times(u, x) \in Nat /\ Once(e, x) \in Nat
          BY <1>1, <3>3, TimesIsNat, OnceIsNat
        <4> QED
          BY <3>3, <3>4, <4>1
      <3> QED
        BY <1>1, <3>3, <3>4, <3>5, <3>6
    <2> QED
      BY <2>1, <2>2
  <1>7. b \in Seq(Pages) /\ Len(b) = Len(u) + 1 /\ \A x : Times(b, x) = Times(u, x) + Once(e, x)
    BY <1>5, <1>6, TimesPrepended
  <1>8. ArcLists(a, b, B1, B2)
    BY <1>1, <1>6, <1>7 DEF ArcLists
  <1>9. Surplus(a, b, B2) = Surplus(T1, T2, B2)
    <2>1. Len(a) + Len(b) = Len(T1) + Len(T2)
      BY <1>1, <1>6, <1>7
    <2>2. Len(a) \in Nat /\ Len(b) \in Nat /\ Len(T1) \in Nat /\ Len(T2) \in Nat
          /\ Times(B2, NoPage) \in Nat
      BY <1>1, <1>8, ListsCount
    <2> QED
      BY <2>1, <2>2 DEF Surplus
  <1>10. ASSUME NEW x \in Pages PROVE Copies(a, b, B1, B2, x) = Copies(T1, T2, B1, B2, x)
    <2>1. /\ Times(T1, x) \in Nat /\ Times(T2, x) \in Nat /\ Times(a, x) \in Nat
          /\ Times(u, x) \in Nat /\ Once(e, x) \in Nat
      BY <1>1, <1>6, TimesIsNat, OnceIsNat
    <2>2. Times(a, x) + Times(b, x) = Times(T1, x) + Times(T2, x)
      <3>1. Times(T1, x) + Times(T2, x) = Times(a, x) + Times(u, x) + Once(e, x)
        BY <1>6
      <3>2. Times(b, x) = Times(u, x) + Once(e, x)
        BY <1>7
      <3> QED
        BY <2>1, <3>1, <3>2
    <2> QED
      BY <2>2 DEF Copies
  <1>11. ArcState(a, b, B1, B2, requested \cup {e})
    BY <1>3, <1>8, <1>9, <1>10, ArcMoves, Zenon
  <1>12. B1' = B1 /\ B2' = B2 /\ requested' = requested \cup {e}
    BY DEF Simulator!ARC!Hit, Simulator!ARC!Request
  <1> QED
    BY <1>2, <1>11, <1>12, Zenon DEF ArcInv

\* A page comes to the front of T2 after replaceARC; it leaves the ghosts.
LEMMA ArcPromotes ==
  ASSUME ArcInv, NoPage \notin Pages, NEW e \in Pages, e \in requested,
         B1 # <<>> \/ B2 # <<>>,
         NEW l, Replacement(l), NEW c, NEW d,
         \/ /\ Times(B1, e) > 0
            /\ c = Simulator!ARC!RemoveFirst(l.B1, e)
            /\ d = l.B2
         \/ /\ Times(B2, e) > 0
            /\ c = l.B1
            /\ d = Simulator!ARC!RemoveFirst(l.B2, e)
  PROVE  ArcState(l.T1, <<e>> \o l.T2, c, d, requested \cup {e})
  <1>1. PICK t1, t2, b1, b2 : t1 = l.T1 /\ t2 = l.T2 /\ b1 = l.B1 /\ b2 = l.B2
    OBVIOUS
  <1>2. /\ ArcLists(t1, t2, b1, b2)
        /\ Surplus(t1, t2, b2) = Surplus(T1, T2, B2) - 1
        /\ \A x \in Pages :
              /\ Copies(t1, t2, b1, b2, x) = Copies(T1, T2, B1, B2, x)
              /\ Times(b1, x) >= Times(B1, x)
              /\ Times(b2, x) >= Times(B2, x)
    BY <1>1, Zenon DEF Replacement
  <1>3. t1 \in Seq(Pages) /\ t2 \in Seq(Pages) /\ b1 \in Seq(Pages) /\ b2 \in Seq(Pages \cup {NoPage})
    BY <1>2 DEF ArcLists
  <1>4. ArcLists(T1, T2, B1, B2)
    BY DEF ArcInv, ArcState
  <1>5. PICK b : b = <<e>> \o t2
    OBVIOUS
  <1>6. b \in Seq(Pages) /\ Len(b) = Len(t2) + 1 /\ \A x : Times(b, x) = Times(t2, x) + Once(e, x)
    BY <1>3, <1>5, TimesPrepended
  <1>7. /\ c \in Seq(Pages) /\ d \in Seq(Pages \cup {NoPage}) /\ Times(d, NoPage) = Times(b2, NoPage)
        /\ \A x : Times(b1, x) + Times(b2, x) = Times(c, x) + Times(d, x) + Once(e, x)
    <2>1. CASE Times(B1, e) > 0 /\ c = Simulator!ARC!RemoveFirst(b1, e) /\ d = b2
      <3>1. Times(b1, e) > 0
        BY <1>2, <1>3, <1>4, <2>1, ListsCount
      <3>2. \E n \in 1..Len(b1) : b1[n] = e
        BY <1>3, <3>1, ContainsTimes
      <3>3. c \in Seq(Pages) /\ \A x : Times(b1, x) = Times(c, x) + Once(e, x)
        BY <1>3, <2>1, <3>2, TimesWithoutFirst
      <3>4. ASSUME NEW x PROVE Times(b1, x) + Times(b2, x) = Times(c, x) + Times(d, x) + Once(e, x)
        <4>1. Times(b2, x) \in Nat /\ Times(c, x) \in Nat /\ Once(e, x) \in Nat
          BY <1>3, <3>3, TimesIsNat, OnceIsNat
        <4> QED
          BY <2>1, <3>3, <4>1
      <3> QED
        BY <1>3, <2>1, <3>3, <3>4
    <2>2. CASE Times(B2, e) > 0 /\ c = b1 /\ d = Simulator!ARC!RemoveFirst(b2, e)
      <3>1. Times(b2, e) > 0
        BY <1>2, <1>3, <1>4, <2>2, ListsCount
      <3>2. \E n \in 1..Len(b2) : b2[n] = e
        BY <1>3, <3>1, ContainsTimes
      <3>3. d \in Seq(Pages \cup {NoPage}) /\ \A x : Times(b2, x) = Times(d, x) + Once(e, x)
        BY <1>3, <2>2, <3>2, TimesWithoutFirst
      <3>4. ASSUME NEW x PROVE Times(b1, x) + Times(b2, x) = Times(c, x) + Times(d, x) + Once(e, x)
        <4>1. Times(b1, x) \in Nat /\ Times(d, x) \in Nat /\ Once(e, x) \in Nat
          BY <1>3, <3>3, TimesIsNat, OnceIsNat
        <4> QED
          BY <2>2, <3>3, <4>1
      <3>5. Once(e, NoPage) = 0 /\ Times(d, NoPage) \in Nat
        BY <3>3, TimesIsNat, OnceIsNat
      <3>6. Times(d, NoPage) = Times(b2, NoPage)
        BY <3>3, <3>5
      <3> QED
        BY <1>3, <2>2, <3>3, <3>4, <3>6
    <2> QED
      BY <1>1, <2>1, <2>2, Zenon
  <1>8. ArcLists(t1, b, c, d)
    BY <1>3, <1>6, <1>7 DEF ArcLists
  <1>9. Surplus(t1, b, d) = Surplus(T1, T2, B2)
    <2>1. Len(t1) \in Nat /\ Len(t2) \in Nat /\ Times(b2, NoPage) \in Nat
          /\ Len(T1) \in Nat /\ Len(T2) \in Nat /\ Times(B2, NoPage) \in Nat
      BY <1>2, <1>4, ListsCount
    <2>2. Len(b) = Len(t2) + 1 /\ Times(d, NoPage) = Times(b2, NoPage)
      BY <1>6, <1>7
    <2>3. Surplus(t1, t2, b2) \in Int /\ Surplus(T1, T2, B2) \in Int
          /\ Surplus(t1, b, d) = Surplus(t1, t2, b2) + 1
      BY <2>1, <2>2 DEF Surplus
    <2> QED
      BY <1>2, <2>3
  <1>10. ASSUME NEW x \in Pages PROVE Copies(t1, b, c, d, x) = Copies(T1, T2, B1, B2, x)
    <2>1. /\ Times(t1, x) \in Nat /\ Times(t2, x) \in Nat /\ Times(b1, x) \in Nat /\ Times(b2, x) \in Nat
          /\ Times(c, x) \in Nat /\ Times(d, x) \in Nat /\ Once(e, x) \in Nat
      BY <1>2, <1>8, ListsCount, OnceIsNat
    <2>2. Times(b, x) = Times(t2, x) + Once(e, x)
      BY <1>6
    <2>3. Times(b1, x) + Times(b2, x) = Times(c, x) + Times(d, x) + Once(e, x)
      BY <1>7
    <2>4. PICK k1 \in Nat, k2 \in Nat, k3 \in Nat, k4 \in Nat, l3 \in Nat, l4 \in Nat, o \in Nat :
            /\ k1 = Times(t1, x) /\ k2 = Times(t2, x) /\ k3 = Times(b1, x) /\ k4 = Times(b2, x)
            /\ l3 = Times(c, x) /\ l4 = Times(d, x) /\ o = Once(e, x)
      BY <2>1
    <2>5. k3 + k4 = l3 + l4 + o
      BY <2>3, <2>4, Zenon
    <2>6. /\ k1 \in Nat /\ k2 \in Nat /\ k3 \in Nat /\ k4 \in Nat
          /\ l3 \in Nat /\ l4 \in Nat /\ o \in Nat
      BY <2>4, Zenon
    <2>7. k1 + (k2 + o) + l3 + l4 = k1 + k2 + k3 + k4
      BY <2>5, <2>6
    <2>8. /\ Copies(t1, b, c, d, x) = k1 + (k2 + o) + l3 + l4
          /\ Copies(t1, t2, b1, b2, x) = k1 + k2 + k3 + k4
      BY <2>2, <2>4, Zenon DEF Copies
    <2> QED
      BY <1>2, <2>7, <2>8, Zenon
  <1>11. ArcState(t1, b, c, d, requested \cup {e})
    BY <1>8, <1>9, <1>10, ArcMoves, Zenon
  <1> QED
    BY <1>1, <1>5, <1>11, Zenon

LEMMA ArcMissesGhost ==
  ASSUME ArcInv, NoPage \notin Pages, NEW e \in Pages,
         Simulator!ARC!MissInB1(e) \/ Simulator!ARC!MissInB2(e)
  PROVE  ArcInv'
  <1>1. ArcLists(T1, T2, B1, B2) /\ B1 \in Seq(Pages) /\ B2 \in Seq(Pages \cup {NoPage})
    BY DEF ArcInv, ArcState, ArcLists
  <1>2. requested' = requested \cup {e}
    BY DEF Simulator!ARC!MissInB1, Simulator!ARC!MissInB2, Simulator!ARC!Request
  <1>3. e \in requested
    BY ListedIsRequested DEF Simulator!ARC!MissInB1, Simulator!ARC!MissInB2
  <1>4. B1 # <<>> \/ B2 # <<>>
    BY <1>1, ContainsTimes DEF Simulator!ARC!MissInB1, Simulator!ARC!MissInB2
  <1>5. CASE Simulator!ARC!MissInB1(e)
    <2>1. PICK target : /\ T1' = Simulator!ARC!Replaced(target).T1
                        /\ T2' = Simulator!ARC!Cons(e, Simulator!ARC!Replaced(target).T2)
                        /\ B1' = Simulator!ARC!RemoveFirst(Simulator!ARC!Replaced(target).B1, e)
                        /\ B2' = Simulator!ARC!Replaced(target).B2
                        /\ Simulator!ARC!Contains(B1, e)
      BY <1>5, Zenon DEF Simulator!ARC!MissInB1, Simulator!ARC!Promote
    <2>2. PICK l : l = Simulator!ARC!Replaced(target)
      OBVIOUS
    <2>3. Replacement(l)
      BY <1>1, <2>2, ReplacedLists
    <2>4. Times(B1, e) > 0
      BY <1>1, <2>1, ContainsTimes
    <2>5. ArcState(l.T1, <<e>> \o l.T2, Simulator!ARC!RemoveFirst(l.B1, e), l.B2, requested \cup {e})
      BY <1>3, <1>4, <2>3, <2>4, ArcPromotes
    <2> QED
      BY <1>2, <2>1, <2>2, <2>5, Zenon DEF ArcInv, Simulator!ARC!Cons
  <1>6. CASE Simulator!ARC!MissInB2(e)
    <2>1. PICK target : /\ T1' = Simulator!ARC!Replaced(target).T1
                        /\ T2' = Simulator!ARC!Cons(e, Simulator!ARC!Replaced(target).T2)
                        /\ B1' = Simulator!ARC!Replaced(target).B1
                        /\ B2' = Simulator!ARC!RemoveFirst(Simulator!ARC!Replaced(target).B2, e)
                        /\ Simulator!ARC!Contains(B2, e)
      BY <1>6, Zenon DEF Simulator!ARC!MissInB2, Simulator!ARC!Promote
    <2>2. PICK l : l = Simulator!ARC!Replaced(target)
      OBVIOUS
    <2>3. Replacement(l)
      BY <1>1, <2>2, ReplacedLists
    <2>4. Times(B2, e) > 0
      BY <1>1, <2>1, ContainsTimes
    <2>5. ArcState(l.T1, <<e>> \o l.T2, l.B1, Simulator!ARC!RemoveFirst(l.B2, e), requested \cup {e})
      BY <1>3, <1>4, <2>3, <2>4, ArcPromotes
    <2> QED
      BY <1>2, <2>1, <2>2, <2>5, Zenon DEF ArcInv, Simulator!ARC!Cons
  <1> QED
    BY <1>5, <1>6

\* A page never seen comes to the front of T1.
LEMMA ArcMissesNew ==
  ASSUME ArcInv, NoPage \notin Pages, MAX_FRAMES \in Nat, NEW e \in Pages,
         Simulator!ARC!MissNew(e)
  PROVE  ArcInv'
  <1>1. ArcLists(T1, T2, B1, B2) /\ requested \in SUBSET Pages /\ IsFiniteSet(requested)
    BY DEF ArcInv, ArcState
  <1>2. e \notin requested
    BY UnlistedIsNew DEF Simulator!ARC!MissNew, Simulator!ARC!Missing
  <1>3. PICK R : R = requested \cup {e}
    OBVIOUS
  <1>4. requested' = R
    BY <1>3 DEF Simulator!ARC!MissNew, Simulator!ARC!Request
  <1>5. R \in SUBSET Pages /\ IsFiniteSet(R) /\ Cardinality(R) = Cardinality(requested) + 1
        /\ Cardinality(requested) \in Nat
    BY <1>1, <1>2, <1>3, FS_AddElement, FS_CardinalityType
  <1>6. PICK l : l = IF Simulator!ARC!Full THEN Simulator!ARC!Replaced(p)
                     ELSE [T1 |-> T1, T2 |-> T2, B1 |-> B1, B2 |-> B2]
    OBVIOUS
  <1>7. T1' = <<e>> \o l.T1 /\ T2' = l.T2 /\ B1' = l.B1 /\ B2' = l.B2
    BY <1>6, Zenon DEF Simulator!ARC!MissNew, Simulator!ARC!Cons
  <1>8. PICK t1, t2, b1, b2 : t1 = l.T1 /\ t2 = l.T2 /\ b1 = l.B1 /\ b2 = l.B2
    OBVIOUS
  <1>9. /\ Len(T1) \in Nat /\ Len(T2) \in Nat /\ Times(B2, NoPage) \in Nat
        /\ Surplus(T1, T2, B2) \in Int
    BY <1>1, ListsCount DEF Surplus
  <1>10. (B1 = <<>> /\ B2 = <<>>) => Times(B2, NoPage) = 0
    <2>1. B2 = <<>> => Places(B2, NoPage) = {}
      BY DEF Places
    <2> QED
      BY <2>1, FS_EmptySet DEF Times
  <1>11. /\ Surplus(T1, T2, B2) = Seated(requested)
         /\ (B1 # <<>> \/ B2 # <<>> => Cardinality(requested) >= MAX_FRAMES)
         /\ \A x \in Pages : Copies(T1, T2, B1, B2, x) = IF x \in requested THEN 1 ELSE 0
    BY DEF ArcInv, ArcState
  <1>12. Simulator!ARC!Full <=> Cardinality(requested) >= MAX_FRAMES
    BY <1>5, <1>9, <1>10, <1>11 DEF Simulator!ARC!Full, Surplus, Seated
  <1>13. /\ ArcLists(t1, t2, b1, b2)
         /\ \A x \in Pages : Copies(t1, t2, b1, b2, x) = Copies(T1, T2, B1, B2, x)
         /\ Surplus(t1, t2, b2) = Seated(R) - 1
         /\ b1 # <<>> \/ b2 # <<>> => Cardinality(R) >= MAX_FRAMES
    <2>1. CASE Simulator!ARC!Full
      <3>1. Replacement(l)
        BY <1>1, <1>6, <2>1, ReplacedLists
      <3>2. /\ ArcLists(t1, t2, b1, b2)
            /\ Surplus(t1, t2, b2) = Surplus(T1, T2, B2) - 1
            /\ \A x \in Pages : Copies(t1, t2, b1, b2, x) = Copies(T1, T2, B1, B2, x)
        BY <1>8, <3>1, Zenon DEF Replacement
      <3>3. Cardinality(requested) >= MAX_FRAMES /\ Cardinality(R) >= MAX_FRAMES
        BY <1>5, <1>12, <2>1
      <3>4. Seated(R) = MAX_FRAMES /\ Seated(requested) = MAX_FRAMES
        BY <1>5, <3>3 DEF Seated
      <3>5. Surplus(t1, t2, b2) = Seated(R) - 1
        BY <1>11, <3>2, <3>4
      <3> QED
        BY <3>2, <3>3, <3>5
    <2>2. CASE ~Simulator!ARC!Full
      <3>1. t1 = T1 /\ t2 = T2 /\ b1 = B1 /\ b2 = B2
        BY <1>6, <1>8, <2>2
      <3>2. Cardinality(requested) < MAX_FRAMES
        BY <1>5, <1>12, <2>2
      <3>3. Seated(requested) = Cardinality(requested) /\ Seated(R) = Cardinality(R)
        BY <1>5, <3>2 DEF Seated
      <3>4. B1 = <<>> /\ B2 = <<>>
        BY <1>5, <1>11, <3>2
      <3>5. Surplus(t1, t2, b2) = Seated(R) - 1
        BY <1>5, <1>11, <3>1, <3>3
      <3> QED
        BY <1>1, <3>1, <3>4, <3>5
    <2> QED
      BY <2>1, <2>2
  <1>14. t1 \in Seq(Pages) /\ t2 \in Seq(Pages) /\ b1 \in Seq(Pages) /\ b2 \in Seq(Pages \cup {NoPage})
    BY <1>13 DEF ArcLists
  <1>15. PICK a : a = <<e>> \o t1
    OBVIOUS
  <1>16. a \in Seq(Pages) /\ Len(a) = Len(t1) + 1 /\ \A x : Times(a, x) = Times(t1, x) + Once(e, x)
    BY <1>14, <1>15, TimesPrepended
  <1>17. ArcLists(a, t2, b1, b2)
    BY <1>14, <1>16 DEF ArcLists
  <1>18. Surplus(a, t2, b2) = Seated(R)
    <2>1. Len(t1) \in Nat /\ Len(t2) \in Nat /\ Times(b2, NoPage) \in Nat /\ Seated(R) \in Nat
      BY <1>5, <1>13, ListsCount DEF Seated
    <2>2. Surplus(t1, t2, b2) \in Int /\ Surplus(a, t2, b2) = Surplus(t1, t2, b2) + 1
      BY <1>16, <2>1 DEF Surplus
    <2> QED
      BY <1>13, <2>1, <2>2
  <1>19. ASSUME NEW x \in Pages
         PROVE  Copies(a, t2, b1, b2, x) = IF x \in R THEN 1 ELSE 0
    <2>1. /\ Times(t1, x) \in Nat /\ Times(t2, x) \in Nat /\ Times(b1, x) \in Nat
          /\ Times(b2, x) \in Nat /\ Once(e, x) \in Nat
      BY <1>13, ListsCount, OnceIsNat
    <2>2. Times(a, x) = Times(t1, x) + Once(e, x)
      BY <1>16
    <2>3. Copies(a, t2, b1, b2, x) = Copies(t1, t2, b1, b2, x) + Once(e, x)
      BY <2>1, <2>2 DEF Copies
    <2>4. Copies(t1, t2, b1, b2, x) = IF x \in requested THEN 1 ELSE 0
      BY <1>11, <1>13
    <2>5. x \in R <=> x \in requested \/ x = e
      BY <1>3
    <2> QED
      BY <1>2, <2>3, <2>4, <2>5, OnceIsNat
  <1>20. ArcState(a, t2, b1, b2, R)
    BY <1>5, <1>13, <1>17, <1>18, <1>19 DEF ArcState
  <1> QED
    BY <1>4, <1>7, <1>8, <1>15, <1>20, Zenon DEF ArcInv

LEMMA ArcStarts ==
  ASSUME Simulator!ARC!Init, MAX_FRAMES \in Nat
  PROVE  ArcInv
  <1>1. T1 = <<>> /\ T2 = <<>> /\ B1 = <<>> /\ B2 = <<>> /\ requested = {}
    BY DEF Simulator!ARC!Init
  <1>2. ArcLists(T1, T2, B1, B2)
    BY <1>1 DEF ArcLists
  <1>3. \A x : Times(T1, x) = 0 /\ Times(T2, x) = 0 /\ Times(B1, x) = 0 /\ Times(B2, x) = 0
    BY <1>1, FS_EmptySet DEF Times, Places
  <1>4. IsFiniteSet({}) /\ Cardinality({}) = 0
    BY FS_EmptySet
  <1>5. \A x \in Pages : Copies(T1, T2, B1, B2, x) = 0
    BY <1>3 DEF Copies
  <1>6. Surplus(T1, T2, B2) = 0 /\ Seated(requested) = 0
    BY <1>1, <1>3, <1>4 DEF Surplus, Seated
  <1> QED
    BY <1>1, <1>2, <1>4, <1>5, <1>6 DEF ArcInv, ArcState

LEMMA ArcKeeps ==
  ASSUME ArcInv, NoPage \notin Pages, MAX_FRAMES \in Nat, [Simulator!Next]_pageVars
  PROVE  ArcInv'
  <1>1. Simulator!ARC!Next \/ UNCHANGED <<T1, T2, B1, B2, requested>>
    BY DEF Simulator!Next, Simulator!SimulateLRU, Simulator!SimulateClock,
       Simulator!SimulateARC, Simulator!arcVars, pageVars
  <1>2. CASE UNCHANGED <<T1, T2, B1, B2, requested>>
    BY <1>2, Zenon DEF ArcInv
  <1>3. CASE Simulator!ARC!Next
    BY <1>3, ArcHits, ArcMissesGhost, ArcMissesNew DEF Simulator!ARC!Next
  <1> QED
    BY <1>1, <1>2, <1>3

LEMMA ArcAccounted ==
  ASSUME ArcInv
  PROVE  Simulator!ARC!EveryPageOnce /\ Simulator!ARC!FramesAccounted
  <1>1. ArcLists(T1, T2, B1, B2) /\ requested \in SUBSET Pages /\ IsFiniteSet(requested)
        /\ T1 \in Seq(Pages) /\ T2 \in Seq(Pages) /\ B1 \in Seq(Pages) /\ B2 \in Seq(Pages \cup {NoPage})
    BY DEF ArcInv, ArcState, ArcLists
  <1>2. \A s, x : DOMAIN s = 1..Len(s) => Simulator!ARC!Times(s, x) = Times(s, x)
    BY Zenon DEF Simulator!ARC!Times, Simulator!ARC!Cardinality, Cardinality, Times, Places
  <1>3. DOMAIN T1 = 1..Len(T1) /\ DOMAIN T2 = 1..Len(T2) /\ DOMAIN B1 = 1..Len(B1) /\ DOMAIN B2 = 1..Len(B2)
    BY <1>1
  <1>4. ASSUME NEW x \in requested
        PROVE  Simulator!ARC!Times(T1, x) + Simulator!ARC!Times(T2, x)
               + Simulator!ARC!Times(B1, x) + Simulator!ARC!Times(B2, x) = 1
    <2>1. Copies(T1, T2, B1, B2, x) = 1
      BY <1>1 DEF ArcInv, ArcState
    <2> QED
      BY <1>2, <1>3, <2>1, Zenon DEF Copies
  <1>5. Simulator!ARC!Cardinality(requested) = Cardinality(requested)
    BY Zenon DEF Simulator!ARC!Cardinality, Cardinality
  <1>6. Len(T1) \in Nat /\ Len(T2) \in Nat /\ Times(B2, NoPage) \in Nat
    BY <1>1, ListsCount
  <1>7. Len(T1) + Len(T2) = Times(B2, NoPage) + Seated(requested)
    BY <1>6 DEF ArcInv, ArcState, Surplus
  <1>8. Simulator!ARC!FramesAccounted
    BY <1>2, <1>3, <1>5, <1>7, Zenon DEF Simulator!ARC!FramesAccounted, Simulator!ARC!Phantoms, Seated
  <1> QED
    BY <1>4, <1>8, Zenon DEF Simulator!ARC!EveryPageOnce

Fr == 0 .. MAX_FRAMES - 1

LruTypes ==
    /\ buffer \in [Fr -> Pages \cup {NoPage}]
    /\ time \in [Fr -> Int]
    /\ counter \in Nat
    /\ lastUse \in [Pages -> Nat]

\* A frame has the time of its page, and an empty one the time -1.
TimesOfPages ==
    \A f \in Fr : IF buffer[f] = NoPage THEN time[f] = -1
                  ELSE time[f] = lastUse[buffer[f]] /\ lastUse[buffer[f]] > 0

\* No two pages were used at the same time, and none after now.
UsesApart ==
    /\ \A x \in Pages : lastUse[x] <= counter
    /\ \A x, y \in Pages : lastUse[x] = lastUse[y] /\ lastUse[x] > 0 => x = y

OneFrame == \A f, g \in Fr : buffer[f] = buffer[g] /\ buffer[f] # NoPage => f = g

Gone(x) == \A f \in Fr : buffer[f] # x

\* A page in no frame was used before every page in one, and if it was used
\* at all no frame is empty.
GoneIsOlder ==
    \A x \in Pages : Gone(x) =>
        /\ \A f \in Fr : buffer[f] # NoPage => lastUse[x] < lastUse[buffer[f]]
        /\ lastUse[x] > 0 => \A f \in Fr : buffer[f] # NoPage

LruInv == LruTypes /\ TimesOfPages /\ UsesApart /\ OneFrame /\ GoneIsOlder

LEMMA LruStarts ==
  ASSUME Simulator!LRU!Init
  PROVE  LruInv
  BY DEF Simulator!LRU!Init, Simulator!LRU!Frames, Fr, LruInv, LruTypes, TimesOfPages, UsesApart,
     OneFrame, GoneIsOlder

\* The frame f is given to the page e, which is in it, or else is in none; the
\* page it takes the place of, if any, is the one used longest ago.
Given(f, e) ==
    \/ buffer[f] = e
    \/ Gone(e) /\ buffer[f] = NoPage
    \/ Gone(e) /\ (\A g \in Fr : buffer[g] # NoPage) /\ (\A g \in Fr : time[f] <= time[g])

LEMMA LruUses ==
  ASSUME LruInv, NoPage \notin Pages, NEW e \in Pages, NEW f \in Fr, Given(f, e),
         buffer' = [buffer EXCEPT ![f] = e], Simulator!LRU!Use(f, e)
  PROVE  LruInv'
  <1>1. /\ buffer \in [Fr -> Pages \cup {NoPage}] /\ time \in [Fr -> Int]
        /\ counter \in Nat /\ lastUse \in [Pages -> Nat]
    BY DEF LruInv, LruTypes
  <1>2. /\ counter' = counter + 1
        /\ time' = [time EXCEPT ![f] = counter + 1]
        /\ lastUse' = [lastUse EXCEPT ![e] = counter + 1]
    BY DEF Simulator!LRU!Use
  <1>3. LruTypes'
    BY <1>1, <1>2 DEF LruTypes
  <1>4. \A g \in Fr : buffer'[g] = (IF g = f THEN e ELSE buffer[g])
                      /\ time'[g] = (IF g = f THEN counter + 1 ELSE time[g])
    BY <1>1, <1>2
  <1>5. \A x \in Pages : lastUse'[x] = (IF x = e THEN counter + 1 ELSE lastUse[x])
                         /\ lastUse[x] \in Nat /\ lastUse[x] <= counter
    BY <1>1, <1>2 DEF LruInv, UsesApart
  <1>6. \A g \in Fr : g # f => buffer[g] # e
    BY DEF Given, Gone, LruInv, OneFrame
  <1>7. \A g \in Fr : buffer[g] \in Pages \cup {NoPage}
    BY <1>1
  <1>8. TimesOfPages'
    BY <1>1, <1>4, <1>5, <1>6, <1>7 DEF TimesOfPages, LruInv
  <1>9. UsesApart'
    <2>1. \A x \in Pages : lastUse'[x] <= counter'
      BY <1>1, <1>2, <1>5
    <2>2. \A x, y \in Pages : lastUse'[x] = lastUse'[y] /\ lastUse'[x] > 0 => x = y
      BY <1>1, <1>5 DEF LruInv, UsesApart
    <2> QED
      BY <2>1, <2>2 DEF UsesApart
  <1>10. OneFrame'
    BY <1>4, <1>6 DEF OneFrame, LruInv
  <1>11. ASSUME NEW x \in Pages, \A g \in Fr : buffer'[g] # x
         PROVE  /\ \A g \in Fr : buffer'[g] # NoPage => lastUse'[x] < lastUse'[buffer'[g]]
                /\ lastUse'[x] > 0 => \A g \in Fr : buffer'[g] # NoPage
    <2>1. x # e
      BY <1>4, <1>11
    <2>2. lastUse'[x] = lastUse[x] /\ lastUse[x] \in Nat /\ lastUse[x] <= counter
      BY <1>5, <2>1
    <2>3. CASE Gone(x)
      <3>1. \A g \in Fr : buffer[g] # NoPage => lastUse[x] < lastUse[buffer[g]]
        BY <2>3 DEF LruInv, GoneIsOlder
      <3>2. lastUse[x] > 0 => \A g \in Fr : buffer[g] # NoPage
        BY <2>3 DEF LruInv, GoneIsOlder
      <3>3. ASSUME NEW g \in Fr, buffer'[g] # NoPage
            PROVE  lastUse'[x] < lastUse'[buffer'[g]]
        <4>1. CASE g = f
          BY <1>1, <1>4, <1>5, <2>2, <4>1
        <4>2. CASE g # f
          <5>1. buffer'[g] = buffer[g] /\ buffer[g] \in Pages /\ buffer[g] # e /\ buffer[g] # NoPage
            BY <1>4, <1>6, <1>7, <3>3, <4>2
          <5>2. lastUse'[buffer'[g]] = lastUse[buffer[g]]
            BY <1>5, <5>1
          <5> QED
            BY <2>2, <3>1, <5>1, <5>2
        <4> QED
          BY <4>1, <4>2
      <3> QED
        BY <1>4, <2>2, <3>2, <3>3
    <2>4. CASE ~Gone(x)
      <3>1. PICK g \in Fr : buffer[g] = x
        BY <2>4 DEF Gone
      <3>2. g = f /\ buffer[f] = x
        BY <1>4, <1>11, <3>1
      <3>3. (\A h \in Fr : buffer[h] # NoPage) /\ (\A h \in Fr : time[f] <= time[h])
        BY <2>1, <3>2 DEF Given
      <3>4. ASSUME NEW h \in Fr PROVE lastUse'[x] < lastUse'[buffer'[h]]
        <4>1. CASE h = f
          BY <1>1, <1>4, <1>5, <2>2, <4>1
        <4>2. CASE h # f
          <5>1. buffer'[h] = buffer[h] /\ buffer[h] \in Pages /\ buffer[h] # e /\ buffer[h] # x
            BY <1>4, <1>6, <1>7, <3>2, <3>3, <4>2 DEF LruInv, OneFrame
          <5>2. lastUse'[buffer'[h]] = lastUse[buffer[h]] /\ lastUse[buffer[h]] \in Nat
            BY <1>5, <5>1
          <5>3. time[f] = lastUse[x] /\ lastUse[x] > 0 /\ time[h] = lastUse[buffer[h]]
            BY <3>2, <3>3 DEF LruInv, TimesOfPages
          <5>4. lastUse[x] # lastUse[buffer[h]]
            BY <5>1, <5>3 DEF LruInv, UsesApart
          <5>5. lastUse[x] <= lastUse[buffer[h]]
            BY <3>3, <5>3
          <5> QED
            BY <2>2, <5>2, <5>4, <5>5
        <4> QED
          BY <4>1, <4>2
      <3> QED
        BY <1>4, <3>3, <3>4
    <2> QED
      BY <2>3, <2>4
  <1>12. GoneIsOlder'
    BY <1>11 DEF GoneIsOlder, Gone
  <1> QED
    BY <1>3, <1>8, <1>9, <1>10, <1>12 DEF LruInv

\* The frame is empty, or is the one used longest ago of frames all in use.
Spare(f) ==
    \/ buffer[f] = NoPage
    \/ /\ \A g \in Fr : buffer[g] # NoPage
       /\ \A g \in Fr : time[f] <= time[g]

LEMMA LruChooses ==
  ASSUME LruInv, MAX_FRAMES \in Nat \ {0}
  PROVE  /\ \A e \in Pages : Simulator!LRU!Holding(e) # {} =>
              LET f == Simulator!LRU!Min(Simulator!LRU!Holding(e)) IN f \in Fr /\ buffer[f] = e
         /\ Simulator!LRU!FrameFor \in Fr /\ Spare(Simulator!LRU!FrameFor)
  <1>1. Fr \subseteq Nat /\ 0 \in Fr /\ Fr = Simulator!LRU!Frames
    BY DEF Fr, Simulator!LRU!Frames
  <1>2. ASSUME NEW e, Simulator!LRU!Holding(e) # {}
        PROVE  Simulator!LRU!Min(Simulator!LRU!Holding(e)) \in Fr
               /\ buffer[Simulator!LRU!Min(Simulator!LRU!Holding(e))] = e
    <2>1. PICK H : H = Simulator!LRU!Holding(e)
      OBVIOUS
    <2>2. H \subseteq Nat /\ H # {} /\ \A h \in H : h \in Fr /\ buffer[h] = e
      BY <1>1, <1>2, <2>1 DEF Simulator!LRU!Holding
    <2>3. PICK m : m = CHOOSE x \in H : \A y \in H : x =< y
      OBVIOUS
    <2>4. m \in H
      BY <2>2, <2>3, ChosenLeast
    <2>5. Simulator!LRU!Min(H) = m
      BY <2>3, Zenon DEF Simulator!LRU!Min
    <2> QED
      BY <2>1, <2>2, <2>4, <2>5
  <1>3. ASSUME Simulator!LRU!Holding(NoPage) # {}
        PROVE  Simulator!LRU!FrameFor \in Fr /\ Spare(Simulator!LRU!FrameFor)
    BY <1>2, <1>3 DEF Simulator!LRU!FrameFor, Spare
  <1>4. ASSUME Simulator!LRU!Holding(NoPage) = {}
        PROVE  Simulator!LRU!FrameFor \in Fr /\ Spare(Simulator!LRU!FrameFor)
    <2>1. Simulator!LRU!FrameFor = Simulator!LRU!Lru
      BY <1>4, Zenon DEF Simulator!LRU!FrameFor
    <2>2. \A g \in Fr : buffer[g] # NoPage
      BY <1>1, <1>4 DEF Simulator!LRU!Holding
    <2>3. PICK L : L = {f \in Fr : \A g \in Fr : time[f] <= time[g]}
      OBVIOUS
    <2>4. L # {}
      <3>1. \A g \in Fr : time[g] \in Nat
        BY <2>2 DEF LruInv, LruTypes, TimesOfPages
      <3>2. {time[g] : g \in Fr} \subseteq Nat /\ {time[g] : g \in Fr} # {}
        BY <1>1, <3>1
      <3>3. PICK m \in {time[g] : g \in Fr} : \A k \in {time[g] : g \in Fr} : m <= k
        BY <3>2, LeastNat
      <3>4. PICK f \in Fr : m = time[f]
        BY <3>3
      <3>5. f \in L
        BY <2>3, <3>3, <3>4
      <3> QED
        BY <3>5
    <2>5. PICK m : m = CHOOSE x \in L : \A y \in L : x =< y
      OBVIOUS
    <2>6. m \in L
      <3>1. L \subseteq Nat
        BY <1>1, <2>3
      <3> QED
        BY <2>4, <2>5, <3>1, ChosenLeast
    <2>7. Simulator!LRU!Lru = m
      BY <1>1, <2>3, <2>5, Zenon DEF Simulator!LRU!Lru, Simulator!LRU!Min
    <2> QED
      BY <2>1, <2>2, <2>3, <2>6, <2>7 DEF Spare
  <1> QED
    BY <1>2, <1>3, <1>4

LEMMA LruKeeps ==
  ASSUME LruInv, NoPage \notin Pages, MAX_FRAMES \in Nat \ {0},
         Simulator!LRU!Next \/ UNCHANGED <<buffer, time, counter, lastUse>>
  PROVE  LruInv'
  <1>1. CASE UNCHANGED <<buffer, time, counter, lastUse>>
    BY <1>1 DEF LruInv, LruTypes, TimesOfPages, UsesApart, OneFrame, GoneIsOlder, Gone
  <1>2. ASSUME NEW e \in Pages, Simulator!LRU!Hit(e) PROVE LruInv'
    <2>1. PICK f : f = Simulator!LRU!Min(Simulator!LRU!Holding(e))
      OBVIOUS
    <2>2. f \in Fr /\ buffer[f] = e
      BY <1>2, <2>1, LruChooses DEF Simulator!LRU!Hit
    <2>3. buffer' = buffer /\ Simulator!LRU!Use(f, e)
      BY <1>2, <2>1 DEF Simulator!LRU!Hit
    <2>4. buffer' = [buffer EXCEPT ![f] = e]
      BY <2>2, <2>3 DEF LruInv, LruTypes
    <2> QED
      BY <2>2, <2>3, <2>4, LruUses DEF Given
  <1>3. ASSUME NEW e \in Pages, Simulator!LRU!Miss(e) PROVE LruInv'
    <2>1. PICK f : f = Simulator!LRU!FrameFor
      OBVIOUS
    <2>2. f \in Fr /\ Spare(f)
      BY <2>1, LruChooses
    <2>3. buffer' = [buffer EXCEPT ![f] = e] /\ Simulator!LRU!Use(f, e)
      BY <1>3, <2>1 DEF Simulator!LRU!Miss
    <2>4. Gone(e)
      BY <1>3 DEF Simulator!LRU!Miss, Simulator!LRU!Holding, Simulator!LRU!Frames, Gone, Fr
    <2>5. Given(f, e)
      BY <2>2, <2>4 DEF Given, Spare
    <2> QED
      BY <2>2, <2>3, <2>5, LruUses
  <1> QED
    BY <1>1, <1>2, <1>3 DEF Simulator!LRU!Next

LEMMA LruKeepsMostRecent ==
  ASSUME LruInv, NoPage \notin Pages, MAX_FRAMES \in Nat \ {0}
  PROVE  Simulator!LRU!KeepsMostRecent
  <1>1. buffer \in [Fr -> Pages \cup {NoPage}] /\ Simulator!LRU!Frames = Fr
    BY DEF LruInv, LruTypes, Fr, Simulator!LRU!Frames
  <1>2. Simulator!LRU!Resident = {buffer[f] : f \in Fr} \ {NoPage}
    BY <1>1 DEF Simulator!LRU!Resident
  <1>3. \A x \in Pages \ Simulator!LRU!Resident : Gone(x)
    BY <1>2 DEF Gone
  <1>4. \A x \in Simulator!LRU!Resident, y \in Pages \ Simulator!LRU!Resident :
           lastUse[y] < lastUse[x]
    BY <1>2, <1>3 DEF LruInv, GoneIsOlder
  <1>5. ASSUME NEW x \in Pages \ Simulator!LRU!Resident, lastUse[x] > 0
        PROVE  Simulator!LRU!Cardinality(Simulator!LRU!Resident) = MAX_FRAMES
    <2>1. \A f \in Fr : buffer[f] # NoPage
      BY <1>3, <1>5 DEF LruInv, GoneIsOlder
    <2>2. PICK R : R = Simulator!LRU!Resident
      OBVIOUS
    <2>3. R = {buffer[f] : f \in Fr}
      BY <1>2, <2>1, <2>2
    <2>4. buffer \in [Fr -> R] /\ (\A y \in R : \E f \in Fr : buffer[f] = y)
          /\ \A f, g \in Fr : buffer[f] = buffer[g] => f = g
      BY <1>1, <2>1, <2>3 DEF LruInv, OneFrame
    <2>5. buffer \in Bijection(Fr, R)
      BY <2>4 DEF Bijection, Injection, Surjection, IsInjective
    <2>6. IsFiniteSet(Fr) /\ Cardinality(Fr) = MAX_FRAMES
      BY FS_Interval DEF Fr
    <2>7. ExistsBijection(Fr, R)
      BY <2>5 DEF ExistsBijection
    <2>8. Cardinality(R) = MAX_FRAMES
      BY <2>6, <2>7, FS_Bijection
    <2> QED
      BY <2>2, <2>8, Zenon DEF Simulator!LRU!Cardinality, Cardinality
  <1>6. ASSUME NEW x \in Simulator!LRU!Resident
        PROVE  Simulator!LRU!Cardinality(Simulator!LRU!Holding(x)) = 1
    <2>1. PICK f \in Fr : buffer[f] = x /\ x # NoPage
      BY <1>2, <1>6
    <2>2. Simulator!LRU!Holding(x) = {f}
      BY <1>1, <2>1 DEF Simulator!LRU!Holding, LruInv, OneFrame
    <2>3. Cardinality({f}) = 1
      BY FS_Singleton
    <2> QED
      BY <2>2, <2>3, Zenon DEF Simulator!LRU!Cardinality, Cardinality
  <1> QED
    BY <1>4, <1>5, <1>6 DEF Simulator!LRU!KeepsMostRecent

PagesInv == ArcInv /\ (choice = 1 => LruInv)

LEMMA PagesInvariance == Spec => []PagesInv
  <1> USE DEF PagesInv
  <1>1. MAX_FRAMES \in Nat \ {0} /\ MAX_FRAMES \in Nat /\ NoPage \notin Pages
    BY ConstantsAssumption
  <1>2. Init => PagesInv
    <2> SUFFICES ASSUME Init PROVE PagesInv
      OBVIOUS
    <2>1. Simulator!ARC!Init /\ Simulator!LRU!Init
      BY DEF Init, Simulator!Init
    <2> QED
      BY <1>1, <2>1, ArcStarts, LruStarts
  <1>3. PagesInv /\ [Next]_vars => PagesInv'
    <2> SUFFICES ASSUME PagesInv, [Next]_vars PROVE PagesInv'
      OBVIOUS
    <2>1. [Simulator!Next]_pageVars
      BY OneProgramMoves
    <2>2. ArcInv'
      BY <1>1, <2>1, ArcKeeps
    <2>3. choice' = choice
      BY <2>1 DEF Simulator!Next, Simulator!SimulateLRU, Simulator!SimulateClock,
         Simulator!SimulateARC, pageVars
    <2>4. choice = 1 => (Simulator!LRU!Next \/ UNCHANGED <<buffer, time, counter, lastUse>>)
      BY <2>1 DEF Simulator!Next, Simulator!SimulateLRU, Simulator!SimulateClock,
         Simulator!SimulateARC, pageVars
    <2> QED
      BY <1>1, <2>2, <2>3, <2>4, LruKeeps
  <1> QED
    BY <1>2, <1>3, PTL DEF Spec

\* Of whatever pages are requested, simulateLRU keeps those used last, and
\* simulateARC has every page in exactly one of its lists and one page too
\* many in frames for every eviction from an empty list, for every number of
\* frames and every sequence of requests.
THEOREM PagesAreKept == Spec => []PagesKept
  <1>1. PagesInv => PagesKept
    BY ConstantsAssumption, ArcAccounted, LruKeepsMostRecent DEF PagesInv, PagesKept
  <1> QED
    BY <1>1, PagesInvariance, PTL
-----------------------------------------------------------------------------
(***************************************************************************)
(* The red-black tree of src/R-Blacktree-file-2.c.                         *)
(***************************************************************************)
TreeP == INSTANCE RedBlackTreeProofs WITH Values <- Numbers

LEMMA TreeInserts == TreeP!SizesOK /\ (Spec => TreeP!Spec)
  <1>1. TreeP!SizesOK
    BY ConstantsAssumption DEF RBTree!SizesOK, TreeP!SizesOK, RBTree!Nodes, TreeP!Nodes
  <1>2. Init => TreeP!Init
    BY DEF Init, RBTree!Init, TreeP!Init, RBTree!Nodes, TreeP!Nodes, RBTree!Sides, TreeP!Sides
  <1>3. [Next]_vars => [TreeP!Next]_TreeP!vars
    <2>1. \A data \in Numbers : RBTree!Insert(data) => TreeP!Insert(data)
      BY Zenon DEF
         RBTree!Insert, TreeP!Insert, RBTree!Leaf, TreeP!Leaf, RBTree!SideFor,
         TreeP!SideFor, RBTree!Nodes, TreeP!Nodes, RBTree!Sides, TreeP!Sides
    <2>2. RBTree!FixRecolour => TreeP!FixRecolour
      BY Zenon DEF
         RBTree!FixRecolour, TreeP!FixRecolour, RBTree!Violated, TreeP!Violated,
         RBTree!UncleIsRed, TreeP!UncleIsRed, RBTree!Recoloured, TreeP!Recoloured,
         RBTree!parentnode, TreeP!parentnode, RBTree!grandparnt, TreeP!grandparnt,
         RBTree!unclenode, TreeP!unclenode, RBTree!Other, TreeP!Other, RBTree!SideOf,
         TreeP!SideOf
    <2>3. RBTree!FixRotate => TreeP!FixRotate
      BY Zenon DEF
         RBTree!FixRotate, TreeP!FixRotate, RBTree!Violated, TreeP!Violated,
         RBTree!UncleIsRed, TreeP!UncleIsRed, RBTree!parentnode, TreeP!parentnode,
         RBTree!grandparnt, TreeP!grandparnt, RBTree!unclenode, TreeP!unclenode,
         RBTree!Rotate, TreeP!Rotate, RBTree!Other, TreeP!Other, RBTree!SideOf,
         TreeP!SideOf, RBTree!Nodes, TreeP!Nodes, RBTree!Sides, TreeP!Sides
    <2>4. RBTree!FixDone => TreeP!FixDone
      BY Zenon DEF RBTree!FixDone, TreeP!FixDone, RBTree!Violated, TreeP!Violated
    <2> QED
      BY <2>1, <2>2, <2>3, <2>4, OneProgramMoves, Zenon DEF treeVars, TreeP!vars, RBTree!Next, TreeP!Next
  <1> QED
    BY <1>1, <1>2, <1>3, PTL DEF Spec, TreeP!Spec

\* insertion, fixinsertion and the rotations keep one sorted tree of all
\* nodes, and the red-black rules until an inner node is rotated, for every
\* input of every length.
THEOREM TreeRulesHold == Spec => []TreeRules
  <1>1. TreeP!Spec => []TreeP!SearchTree /\ []TreeP!RedBlackRules
    BY TreeInserts, TreeP!StaysSearchTree, TreeP!StaysRedBlack
  <1>2. TreeP!SearchTree => RBTree!SearchTree
    BY Zenon DEF
       RBTree!SearchTree, TreeP!SearchTree, RBTree!Inserted, TreeP!Inserted,
       RBTree!Children, TreeP!Children, RBTree!Below, TreeP!Below, RBTree!Nodes,
       TreeP!Nodes, RBTree!Sides, TreeP!Sides
  <1>3. TreeP!RedBlackRules => RBTree!RedBlackRules
    BY Zenon DEF
       RBTree!RedBlackRules, TreeP!RedBlackRules, RBTree!Inserted, TreeP!Inserted,
       RBTree!BlackHeights, TreeP!BlackHeights, RBTree!Nodes, TreeP!Nodes,
       RBTree!Sides, TreeP!Sides, RBTree!Cardinality, TreeP!Cardinality
  <1>4. TreeP!SearchTree /\ TreeP!RedBlackRules => TreeRules
    BY <1>2, <1>3 DEF TreeRules
  <1> QED
    BY <1>1, <1>4, TreeInserts, PTL
-----------------------------------------------------------------------------
(***************************************************************************)
(* The types of all programs.                                              *)
(***************************************************************************)
\* The lists of simulateARC are those of ArcInv; its counters and the target.
LEMMA ArcTyped ==
  ASSUME MAX_FRAMES \in Nat, ArcInv', Simulator!ARC!TypeOK, Simulator!ARC!Next
  PROVE  Simulator!ARC!TypeOK'
  <1>1. p' \in 0..MAX_FRAMES /\ hitsARC' \in Nat /\ missesARC' \in Nat
    <2>1. p \in 0..MAX_FRAMES /\ hitsARC \in Nat /\ missesARC \in Nat
      BY DEF Simulator!ARC!TypeOK
    <2>2. ASSUME NEW e \in Pages, Simulator!ARC!Hit(e) \/ Simulator!ARC!MissNew(e)
          PROVE  p' \in 0..MAX_FRAMES /\ hitsARC' \in Nat /\ missesARC' \in Nat
      BY <2>1, <2>2 DEF Simulator!ARC!Hit, Simulator!ARC!MissNew
    <2>3. ASSUME NEW e \in Pages, Simulator!ARC!MissInB1(e) \/ Simulator!ARC!MissInB2(e)
          PROVE  p' \in 0..MAX_FRAMES /\ hitsARC' \in Nat /\ missesARC' \in Nat
      <3>1. hitsARC' = hitsARC /\ missesARC' = missesARC + 1
        BY <2>3 DEF Simulator!ARC!MissInB1, Simulator!ARC!MissInB2
      <3>2. \A t \in {0, 1} : /\ p + t < MAX_FRAMES => p + 1 \in 0..MAX_FRAMES
                              /\ p - t > 0 => p - 1 \in 0..MAX_FRAMES
                              /\ MAX_FRAMES \in 0..MAX_FRAMES /\ 0 \in 0..MAX_FRAMES
        BY <2>1
      <3>3. CASE Simulator!ARC!MissInB1(e)
        <4>1. \E t \in {0, 1} : p' = IF p + t < MAX_FRAMES THEN p + 1 ELSE MAX_FRAMES
          BY <3>3 DEF Simulator!ARC!MissInB1
        <4> QED
          BY <2>1, <3>1, <3>2, <4>1
      <3>4. CASE Simulator!ARC!MissInB2(e)
        <4>1. \E t \in {0, 1} : p' = IF p - t > 0 THEN p - 1 ELSE 0
          BY <3>4 DEF Simulator!ARC!MissInB2
        <4> QED
          BY <2>1, <3>1, <3>2, <4>1
      <3> QED
        BY <2>3, <3>3, <3>4
    <2> QED
      BY <2>2, <2>3 DEF Simulator!ARC!Next
  <1>2. /\ T1' \in Seq(Pages) /\ T2' \in Seq(Pages) /\ B1' \in Seq(Pages)
        /\ B2' \in Seq(Pages \cup {NoPage}) /\ requested' \in SUBSET Pages
    BY DEF ArcInv, ArcState, ArcLists
  <1>3. \A list \in Seq(Pages) : list \in Seq(Pages \cup {NoPage})
    OBVIOUS
  <1> QED
    BY <1>1, <1>2, <1>3 DEF Simulator!ARC!TypeOK

\* The frame of simulateLRU's next use.
LEMMA LruTyped ==
  ASSUME MAX_FRAMES \in Nat \ {0}, LruInv, Simulator!LRU!TypeOK, Simulator!LRU!Next
  PROVE  Simulator!LRU!TypeOK'
  <1>1. Simulator!LRU!Frames = Fr
    BY DEF Simulator!LRU!Frames, Fr
  <1>2. /\ buffer \in [Fr -> Pages \cup {NoPage}] /\ time \in [Fr -> Nat \cup {-1}]
        /\ counter \in Nat /\ hits \in Nat /\ misses \in Nat /\ lastUse \in [Pages -> Nat]
    BY <1>1 DEF Simulator!LRU!TypeOK
  <1>3. ASSUME NEW e \in Pages, NEW f \in Fr, Simulator!LRU!Use(f, e)
        PROVE  time' \in [Fr -> Nat \cup {-1}] /\ counter' \in Nat /\ lastUse' \in [Pages -> Nat]
    BY <1>2, <1>3 DEF Simulator!LRU!Use
  <1>4. ASSUME NEW e \in Pages, Simulator!LRU!Hit(e) PROVE Simulator!LRU!TypeOK'
    <2>1. PICK f : f = Simulator!LRU!Min(Simulator!LRU!Holding(e))
      OBVIOUS
    <2>2. f \in Fr /\ Simulator!LRU!Use(f, e)
      BY <1>4, <2>1, LruChooses DEF Simulator!LRU!Hit
    <2>3. hits' = hits + 1 /\ buffer' = buffer /\ misses' = misses
      BY <1>4 DEF Simulator!LRU!Hit
    <2> QED
      BY <1>1, <1>2, <1>3, <2>2, <2>3 DEF Simulator!LRU!TypeOK
  <1>5. ASSUME NEW e \in Pages, Simulator!LRU!Miss(e) PROVE Simulator!LRU!TypeOK'
    <2>1. PICK f : f = Simulator!LRU!FrameFor
      OBVIOUS
    <2>2. f \in Fr /\ Simulator!LRU!Use(f, e)
      BY <1>5, <2>1, LruChooses DEF Simulator!LRU!Miss
    <2>3. buffer' = [buffer EXCEPT ![f] = e] /\ misses' = misses + 1 /\ hits' = hits
      BY <1>5, <2>1 DEF Simulator!LRU!Miss
    <2>4. buffer' \in [Fr -> Pages \cup {NoPage}]
      BY <1>2, <2>3
    <2> QED
      BY <1>1, <1>2, <1>3, <2>2, <2>3, <2>4 DEF Simulator!LRU!TypeOK
  <1> QED
    BY <1>4, <1>5 DEF Simulator!LRU!Next

\* simulateClock: the bits and the hand are those of TurnInv.
LEMMA ClockTyped ==
  ASSUME MAX_FRAMES \in Nat \ {0}, TurnInv, TurnInv', Simulator!Clock!TypeOK, Simulator!Clock!Next
  PROVE  Simulator!Clock!TypeOK'
  <1>1. Simulator!Clock!Frames = 0..(MAX_FRAMES - 1)
    BY DEF Simulator!Clock!Frames
  <1>2. /\ buffer \in [0..(MAX_FRAMES - 1) -> Pages \cup {NoPage}]
        /\ page \in Pages \cup {NoPage} /\ hits \in Nat /\ misses \in Nat
        /\ pointer \in 0..(MAX_FRAMES - 1)
    BY <1>1 DEF Simulator!Clock!TypeOK
  <1>3. /\ buffer' \in [0..(MAX_FRAMES - 1) -> Pages \cup {NoPage}]
        /\ page' \in Pages \cup {NoPage} /\ hits' \in Nat /\ misses' \in Nat
    <2>1. ASSUME NEW e \in Pages, Simulator!Clock!Hit(e) \/ Simulator!Clock!Miss(e)
          PROVE  /\ buffer' \in [0..(MAX_FRAMES - 1) -> Pages \cup {NoPage}]
                 /\ page' \in Pages \cup {NoPage} /\ hits' \in Nat /\ misses' \in Nat
      BY <1>2, <2>1 DEF Simulator!Clock!Hit, Simulator!Clock!Miss
    <2>2. CASE Simulator!Clock!Skip \/ Simulator!Clock!Take
      BY <1>2, <2>2 DEF Simulator!Clock!Skip, Simulator!Clock!Take
    <2> QED
      BY <2>1, <2>2 DEF Simulator!Clock!Next
  <1>4. /\ refBit' \in [0..(MAX_FRAMES - 1) -> {0, 1}] /\ atMiss' \in [0..(MAX_FRAMES - 1) -> {0, 1}]
        /\ pointer' \in 0..(MAX_FRAMES - 1) /\ skipped' \in 0..MAX_FRAMES
    BY DEF TurnInv
  <1> QED
    BY <1>1, <1>3, <1>4 DEF Simulator!Clock!TypeOK

\* The three policies share the frames and the counters.
LEMMA PagesTyped == Spec => []Simulator!TypeOK
  <1>1. MAX_FRAMES \in Nat \ {0} /\ MAX_FRAMES \in Nat
    BY ConstantsAssumption
  <1>2. Init => Simulator!TypeOK
    <2>1. ASSUME Init PROVE Simulator!LRU!TypeOK
      BY <2>1 DEF Init, Simulator!Init, Simulator!LRU!Init, Simulator!LRU!TypeOK
    <2>2. ASSUME Init PROVE Simulator!Clock!TypeOK
      BY <1>1, <2>2 DEF Init, Simulator!Init, Simulator!Clock!Init, Simulator!Clock!TypeOK, Simulator!Clock!Frames
    <2>3. ASSUME Init PROVE Simulator!ARC!TypeOK
      BY <1>1, <2>3 DEF Init, Simulator!Init, Simulator!ARC!Init, Simulator!ARC!TypeOK
    <2> QED
      BY <2>1, <2>2, <2>3 DEF Init, Simulator!Init, Simulator!TypeOK
  <1>3. ASSUME Simulator!TypeOK, PagesInv, PagesInv', ClockInv, ClockInv', [Next]_vars
        PROVE  Simulator!TypeOK'
    <2>1. CASE UNCHANGED pageVars
      BY <1>3, <2>1 DEF pageVars, Simulator!TypeOK, Simulator!LRU!TypeOK, Simulator!Clock!TypeOK, Simulator!ARC!TypeOK
    <2>2. CASE Simulator!SimulateLRU
      <3>1. Simulator!LRU!TypeOK'
        BY <1>1, <1>3, <2>2, LruTyped DEF PagesInv, Simulator!TypeOK, Simulator!SimulateLRU
      <3>2. /\ buffer' \in [Simulator!Clock!Frames -> Pages \cup {NoPage}]
            /\ hits' \in Nat /\ misses' \in Nat
        BY <3>1 DEF Simulator!LRU!TypeOK, Simulator!LRU!Frames, Simulator!Clock!Frames
      <3>3. Simulator!Clock!TypeOK'
        BY <1>3, <2>2, <3>2 DEF Simulator!TypeOK, Simulator!Clock!TypeOK, Simulator!SimulateLRU, Simulator!clockVars
      <3>4. Simulator!ARC!TypeOK' /\ choice' = choice
        BY <1>3, <2>2 DEF Simulator!TypeOK, Simulator!ARC!TypeOK, Simulator!SimulateLRU, Simulator!arcVars
      <3> QED
        BY <1>3, <3>1, <3>3, <3>4 DEF Simulator!TypeOK
    <2>3. CASE Simulator!SimulateClock
      <3>1. choice = 2 /\ choice' = choice /\ Simulator!Clock!Next
        BY <2>3 DEF Simulator!SimulateClock
      <3>2. TurnInv /\ TurnInv'
        BY <1>3, <3>1 DEF ClockInv
      <3>3. Simulator!Clock!TypeOK'
        BY <1>1, <1>3, <3>1, <3>2, ClockTyped DEF Simulator!TypeOK
      <3>4. /\ buffer' \in [Simulator!LRU!Frames -> Pages \cup {NoPage}]
            /\ hits' \in Nat /\ misses' \in Nat
        BY <3>3 DEF Simulator!Clock!TypeOK, Simulator!LRU!Frames, Simulator!Clock!Frames
      <3>5. Simulator!LRU!TypeOK'
        BY <1>3, <2>3, <3>4 DEF Simulator!TypeOK, Simulator!LRU!TypeOK, Simulator!SimulateClock, Simulator!lruVars
      <3>6. Simulator!ARC!TypeOK'
        BY <1>3, <2>3 DEF Simulator!TypeOK, Simulator!ARC!TypeOK, Simulator!SimulateClock, Simulator!arcVars
      <3> QED
        BY <1>3, <3>1, <3>3, <3>5, <3>6 DEF Simulator!TypeOK
    <2>4. CASE Simulator!SimulateARC
      <3>1. Simulator!ARC!TypeOK'
        BY <1>1, <1>3, <2>4, ArcTyped DEF PagesInv, Simulator!TypeOK, Simulator!SimulateARC
      <3>2. Simulator!LRU!TypeOK' /\ Simulator!Clock!TypeOK' /\ choice' = choice
        BY <1>3, <2>4 DEF Simulator!TypeOK, Simulator!LRU!TypeOK, Simulator!Clock!TypeOK,
           Simulator!SimulateARC, Simulator!lruVars, Simulator!clockVars
      <3> QED
        BY <1>3, <3>1, <3>2 DEF Simulator!TypeOK
    <2> QED
      BY <1>3, <2>1, <2>2, <2>3, <2>4, OneProgramMoves DEF Simulator!Next
  <1> QED
    BY <1>2, <1>3, PagesInvariance, ClockInvariance, PTL DEF Spec

LEMMA TreeTyped == Spec => []RBTree!TypeOK
  <1>1. TreeP!Spec => []TreeP!TypeOK
    BY TreeInserts, TreeP!StaysTyped
  <1>2. TreeP!TypeOK => RBTree!TypeOK
    BY Zenon DEF RBTree!TypeOK, TreeP!TypeOK, RBTree!Links, TreeP!Links, RBTree!Nodes, TreeP!Nodes,
       RBTree!Sides, TreeP!Sides
  <1> QED
    BY <1>1, <1>2, TreeInserts, PTL

\* The identifiers and the files left open end at their bounds.
MemoryLimits == id \in 1..(MaxIds + 1) /\ openFiles \in 0..MaxFiles

LEMMA MemoryTyped == Spec => []Memory!TypeOK
  <1>1. MaxIds \in Nat /\ MaxFiles \in Nat
    BY ConstantsAssumption
  <1>2. Init => MemoryLimits
    BY <1>1 DEF Init, Memory!Init, MemoryLimits
  <1>3. ASSUME MemoryLimits, [Next]_vars PROVE MemoryLimits'
    <2>1. CASE UNCHANGED logVars
      BY <1>3, <2>1 DEF logVars, MemoryLimits
    <2>2. CASE \E a, bytes, logged, type : Memory!Allocate(a, bytes, logged, type)
      BY <1>1, <1>3, <2>2 DEF MemoryLimits, Memory!Allocate
    <2>3. ASSUME NEW m, Memory!FreeMemory(m) PROVE MemoryLimits'
      BY <1>3, <2>3 DEF MemoryLimits, Memory!FreeMemory
    <2>4. CASE Memory!ExportNothing
      BY <1>1, <1>3, <2>4 DEF MemoryLimits, Memory!ExportNothing
    <2> QED
      BY <1>3, <2>1, <2>2, <2>3, <2>4, OneProgramMoves
         DEF Memory!Next, Memory!mallocAllocation, Memory!callocAllocation
  <1>4. LogInv /\ MemoryLimits => Memory!TypeOK
    BY DEF LogInv, MemoryLimits, Memory!TypeOK
  <1> QED
    BY <1>2, <1>3, <1>4, LogInvariance, PTL DEF Spec

\* The variables of every program keep their types, for all constants:
\* whichever program the user starts, it is one of the ten.
THEOREM TypeCorrect == Spec => []TypeOK
  <1> DEFINE Started == prog \in {"pages", "tree", "kv", "chat", "echo", "hash", "stack", "memory",
                                  "threads", "students"}
  <1>1. Init => Started
    BY DEF Init
  <1>2. Started /\ [Next]_vars => Started'
    BY DEF Next, vars
  <1>3. HashInv => HashMap!TypeOK
    BY DEF HashInv, HashTypes
  <1>4. StackInv => Stack!TypeOK
    BY DEF StackInv
  <1>5. StudentsInv => Students!TypeOK
    BY DEF StudentsInv, MenuInv, TableInv, Students!TypeOK, Students!Slots
  <1>6. ASSUME Started, Simulator!TypeOK, RBTree!TypeOK, KV!TypeOK, Chat!TypeOK, EchoSrv!TypeOK,
               HashMap!TypeOK, Stack!TypeOK, Memory!TypeOK, Threaded!TypeOK, Students!TypeOK
        PROVE  TypeOK
    BY <1>6, Zenon DEF TypeOK
  <1> HIDE DEF Started
  <1> QED
    BY <1>1, <1>2, <1>3, <1>4, <1>5, <1>6, PagesTyped, TreeTyped, KVTyped, ChatTyped, EchoTyped,
       HashInvariance, StackInvariance, MemoryTyped, ThreadsTyped, StudentsInvariance, PTL DEF Spec
=============================================================================
