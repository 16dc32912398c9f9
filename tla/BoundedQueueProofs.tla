------------------------- MODULE BoundedQueueProofs -------------------------
(***************************************************************************)
(* Proofs about the queue of the module BoundedQueue, for any number of    *)
(* producers and consumers, any buffer size and any number of items.       *)
(***************************************************************************)
EXTENDS BoundedQueue, SequenceTheorems, TLAPS

\* Division with remainder, as the index computations of the ring use it.
LEMMA ModDef ==
  ASSUME NEW a \in Nat, NEW N \in Nat \ {0}
  PROVE  a % N \in 0..N-1 /\ a \div N \in Nat /\ a = N * (a \div N) + (a % N)
  OBVIOUS

\* The remainder is the only number of its kind.
LEMMA ModUnique ==
  ASSUME NEW a \in Nat, NEW N \in Nat \ {0}, NEW q \in Nat, NEW r \in 0..N-1,
         a = N * q + r
  PROVE  a % N = r
  OBVIOUS

\* Reducing an index early makes no difference (lines 60 and 98).
LEMMA ModAdd ==
  ASSUME NEW a \in Nat, NEW b \in Nat, NEW N \in Nat \ {0}
  PROVE  ((a % N) + b) % N = (a + b) % N
  <1> DEFINE q == a \div N
             r == a % N
             p == (r + b) \div N
             s == (r + b) % N
  <1>1. q \in Nat /\ r \in Nat /\ a = N * q + r
    BY ModDef
  <1> HIDE DEF q, r
  <1>2. r + b \in Nat
    BY <1>1
  <1>3. p \in Nat /\ s \in 0..N-1 /\ r + b = N * p + s
    BY <1>2, ModDef
  <1> HIDE DEF p, s
  <1>4. a + b = N * (q + p) + s
    <2>1. a + b = N * q + (N * p + s)
      BY <1>1, <1>3
    <2>2. N * (q + p) = N * q + N * p
      BY <1>1, <1>3
    <2> QED
      BY <2>1, <2>2, <1>1, <1>3
  <1>5. (a + b) % N = s
    <2>1. a + b \in Nat /\ q + p \in Nat
      BY <1>1, <1>3
    <2> QED
      BY <2>1, <1>3, <1>4, ModUnique
  <1> QED
    BY <1>5 DEF r, s

\* Two indices less than a lap apart use different slots.
LEMMA ModDistinct ==
  ASSUME NEW a \in Nat, NEW b \in Nat, NEW N \in Nat \ {0}, a < b, b < a + N
  PROVE  a % N # b % N
  <1> SUFFICES ASSUME a % N = b % N PROVE FALSE
    OBVIOUS
  <1> DEFINE q == a \div N
             p == b \div N
             r == a % N
  <1>1. q \in Nat /\ p \in Nat /\ r \in 0..N-1 /\ a = N * q + r /\ b = N * p + r
    BY ModDef
  <1> HIDE DEF q, p, r
  <1>2. N * q < N * p /\ N * p < N * q + N
    BY <1>1
  <1>3. CASE p <= q
    <2>1. PICK d \in Nat : q = p + d
      BY <1>1, <1>3
    <2>2. N * q = N * p + N * d /\ N * d \in Nat
      BY <1>1, <2>1
    <2> QED
      BY <1>1, <1>2, <2>2
  <1>4. CASE q < p
    <2>1. PICK d \in Nat : p = q + 1 + d
      BY <1>1, <1>4
    <2>2. N * p = N * q + N + N * d /\ N * d \in Nat
      BY <1>1, <2>1
    <2> QED
      BY <1>1, <1>2, <2>2
  <1> QED
    BY <1>1, <1>3, <1>4
-----------------------------------------------------------------------------
\* The holder of the mutex is the one thread in a critical section.
MutexInv == \A t \in Threads : pc[t] \in {"check", "wake"} <=> mutex = t

\* A thread that has not returned has iterations left.
LoopInv == \A t \in Threads : pc[t] # "done" => i[t] < ITEMS_TO_PRODUCE

\* The ring in terms of how many items ever went in and came out.
RingInv ==
    /\ Len(produced) = Len(consumed) + count
    /\ in = Len(produced) % BUFFER_SIZE
    /\ out = Len(consumed) % BUFFER_SIZE
    /\ \A n \in 1..Len(consumed) : consumed[n] = produced[n]
    /\ \A n \in (Len(consumed) + 1)..Len(produced) :
         buffer[(n - 1) % BUFFER_SIZE] = produced[n]

IInv == TypeOK /\ MutexInv /\ LoopInv /\ RingInv

\* The initial state (lines 18-19, 32-36) satisfies the invariant.
LEMMA IInvInit == Init => IInv
  <1> SUFFICES ASSUME Init PROVE IInv
    OBVIOUS
  <1> USE QueueAssumption
  <1>1. TypeOK
    BY DEF Init, TypeOK, Pcs, Items
  <1>2. MutexInv
    BY DEF Init, MutexInv, Threads
  <1>3. LoopInv
    BY DEF Init, LoopInv
  <1>4. 0 % BUFFER_SIZE = 0
    BY ModUnique
  <1>5. RingInv
    BY <1>4 DEF Init, RingInv
  <1> QED
    BY <1>1, <1>2, <1>3, <1>5 DEF IInv

\* Mutual exclusion and the loop bound are kept by every step.
LEMMA ControlNext == IInv /\ [Next]_vars => MutexInv' /\ LoopInv'
  <1> SUFFICES ASSUME IInv, [Next]_vars PROVE MutexInv' /\ LoopInv'
    OBVIOUS
  <1>1. TypeOK /\ MutexInv /\ LoopInv
    BY DEF IInv
  <1> USE QueueAssumption, <1>1 DEF TypeOK, MutexInv, LoopInv, Pcs
  <1>2. ASSUME NEW t \in Threads, Lock(t) PROVE MutexInv' /\ LoopInv'
    BY <1>2 DEF Lock, Threads
  <1>3. ASSUME NEW t \in Threads, ProducerMustWait(t) \/ ConsumerMustWait(t)
        PROVE  MutexInv' /\ LoopInv'
    BY <1>3 DEF ProducerMustWait, ConsumerMustWait, Threads
  <1>4. ASSUME NEW t \in Threads, NEW word, FutexWait(t, word)
        PROVE  MutexInv' /\ LoopInv'
    BY <1>4 DEF FutexWait
  <1>5. ASSUME NEW t \in Threads, Put(t) \/ Take(t) PROVE MutexInv' /\ LoopInv'
    BY <1>5 DEF Put, Take
  <1>6. ASSUME NEW t \in Threads, NEW S, NEW word, Wake(t, S, word),
               \A s \in S : s \in Threads /\ pc[s] = "asleep"
        PROVE  MutexInv' /\ LoopInv'
    BY <1>6 DEF Wake, AfterIteration, Threads
  <1>7. ASSUME NEW t \in Threads, WakeConsumer(t) \/ WakeProducer(t)
        PROVE  MutexInv' /\ LoopInv'
    <2>1. \A s \in SleepingConsumers \cup SleepingProducers :
            s \in Threads /\ pc[s] = "asleep"
      BY DEF SleepingConsumers, SleepingProducers, Threads
    <2> QED
      BY <1>6, <1>7, <2>1 DEF WakeConsumer, WakeProducer
  <1>8. CASE UNCHANGED vars
    BY <1>8 DEF vars
  <1> QED
    BY <1>2, <1>3, <1>4, <1>5, <1>7, <1>8
    DEF Next, Producer, Consumer, Joined, Threads

\* Every step keeps the types; in particular count stays between 0 and
\* BUFFER_SIZE and only items that were produced are consumed.
LEMMA TypeNext == IInv /\ [Next]_vars => TypeOK'
  <1> SUFFICES ASSUME IInv, [Next]_vars PROVE TypeOK'
    OBVIOUS
  <1>1. TypeOK /\ LoopInv /\ RingInv
    BY DEF IInv
  <1> USE QueueAssumption, <1>1 DEF TypeOK, Pcs
  <1>2. ASSUME NEW t \in Threads, Lock(t) PROVE TypeOK'
    BY <1>2 DEF Lock
  <1>3. ASSUME NEW t \in Threads, ProducerMustWait(t) \/ ConsumerMustWait(t)
        PROVE  TypeOK'
    BY <1>3 DEF ProducerMustWait, ConsumerMustWait
  <1>4. ASSUME NEW t \in Threads, NEW word, FutexWait(t, word) PROVE TypeOK'
    BY <1>4 DEF FutexWait
  <1>5. ASSUME NEW t \in Threads, Put(t) PROVE TypeOK'
    <2>1. i[t] + 1 \in 1..ITEMS_TO_PRODUCE
      <3>1. i[t] < ITEMS_TO_PRODUCE
        BY <1>5 DEF Put, LoopInv
      <3>2. i[t] \in Nat
        OBVIOUS
      <3> QED
        BY <3>1, <3>2
    <2>2. (in + 1) % BUFFER_SIZE \in 0..BUFFER_SIZE-1
      <3>1. in + 1 \in Nat
        OBVIOUS
      <3> QED
        BY <3>1, ModDef
    <2>3. Append(produced, i[t] + 1) \in Seq(Items)
      BY <2>1 DEF Items
    <2>4. [buffer EXCEPT ![in] = i[t] + 1] \in [0..BUFFER_SIZE-1 -> 0..ITEMS_TO_PRODUCE]
      BY <2>1
    <2>5. count + 1 \in 0..BUFFER_SIZE
      BY <1>5 DEF Put
    <2> QED
      BY <1>5, <2>2, <2>3, <2>4, <2>5 DEF Put, Advance
  <1>6. ASSUME NEW t \in Threads, Take(t) PROVE TypeOK'
    <2>1. (out + 1) % BUFFER_SIZE \in 0..BUFFER_SIZE-1
      <3>1. out + 1 \in Nat
        OBVIOUS
      <3> QED
        BY <3>1, ModDef
    <2>2. buffer[out] \in Items
      <3> DEFINE n == Len(consumed) + 1
      <3>1. n \in 1..Len(produced) /\ n \in (Len(consumed) + 1)..Len(produced)
        BY <1>6 DEF Take, RingInv
      <3>2. buffer[(n - 1) % BUFFER_SIZE] = produced[n]
        BY <3>1 DEF RingInv
      <3>3. (n - 1) % BUFFER_SIZE = out
        BY DEF RingInv
      <3>4. produced[n] \in Items
        BY <3>1
      <3> QED
        BY <3>2, <3>3, <3>4
    <2>3. Append(consumed, buffer[out]) \in Seq(Items)
      BY <2>2
    <2>4. count - 1 \in 0..BUFFER_SIZE
      BY <1>6 DEF Take
    <2> QED
      BY <1>6, <2>1, <2>3, <2>4 DEF Take, Advance
  <1>7. ASSUME NEW t \in Threads, NEW S, NEW word, Wake(t, S, word), S \subseteq Threads
        PROVE  pc' \in [Threads -> Pcs] /\ i' \in [Threads -> 0..ITEMS_TO_PRODUCE]
    <2>1. AfterIteration(t) \in Pcs
      BY DEF AfterIteration
    <2>2. pc' \in [Threads -> Pcs]
      BY <1>7, <2>1 DEF Wake
    <2>3. i[t] \in Nat /\ i[t] < ITEMS_TO_PRODUCE
      BY <1>7 DEF Wake, LoopInv
    <2>4. i[t] + 1 \in 0..ITEMS_TO_PRODUCE
      BY <2>3
    <2>5. i' \in [Threads -> 0..ITEMS_TO_PRODUCE]
      BY <1>7, <2>4 DEF Wake
    <2> QED
      BY <2>2, <2>5
  <1>8. ASSUME NEW t \in Threads, WakeConsumer(t) \/ WakeProducer(t) PROVE TypeOK'
    <2>1. SleepingConsumers \subseteq Threads /\ SleepingProducers \subseteq Threads
      BY DEF SleepingConsumers, SleepingProducers, Threads
    <2>2. pc' \in [Threads -> Pcs] /\ i' \in [Threads -> 0..ITEMS_TO_PRODUCE]
      BY <1>7, <1>8, <2>1 DEF WakeConsumer, WakeProducer
    <2> QED
      BY <1>8, <2>2 DEF WakeConsumer, WakeProducer, Wake
  <1>9. CASE UNCHANGED vars
    BY <1>9 DEF vars
  <1> QED
    BY <1>2, <1>3, <1>4, <1>5, <1>6, <1>8, <1>9
    DEF Next, Producer, Consumer, Joined, Threads

\* Puts and takes keep the ring in step with the history of items.
LEMMA RingNext == IInv /\ [Next]_vars => RingInv'
  <1> SUFFICES ASSUME IInv, [Next]_vars PROVE RingInv'
    OBVIOUS
  <1>1. TypeOK /\ RingInv
    BY DEF IInv
  <1> DEFINE np == Len(produced)
             nc == Len(consumed)
  <1>2. np \in Nat /\ nc \in Nat /\ np = nc + count /\ count \in 0..BUFFER_SIZE
    BY <1>1 DEF TypeOK, RingInv
  <1>3. ASSUME NEW t \in Threads, Put(t) PROVE RingInv'
    <2> DEFINE item == i[t] + 1
    <2>1. /\ produced' = Append(produced, item)
          /\ consumed' = consumed
          /\ count' = count + 1
          /\ out' = out
          /\ in' = (in + 1) % BUFFER_SIZE
          /\ buffer' = [buffer EXCEPT ![in] = item]
          /\ count # BUFFER_SIZE
      BY <1>3 DEF Put, Advance
    <2>2. /\ Len(produced') = np + 1
          /\ produced'[np + 1] = item
          /\ \A n \in 1..np : produced'[n] = produced[n]
      BY <1>1, <2>1 DEF TypeOK
    <2> HIDE DEF item
    <2>3. in' = (np + 1) % BUFFER_SIZE
      BY <1>1, <1>2, <2>1, ModAdd, QueueAssumption, ZenonT(60) DEF RingInv
    <2>4. ASSUME NEW n \in (nc + 1)..(np + 1)
          PROVE  buffer'[(n - 1) % BUFFER_SIZE] = produced'[n]
      <3>0. n \in Nat /\ n - 1 \in Nat
        BY <1>2
      <3>1. n - 1 \in Nat /\ (n - 1) % BUFFER_SIZE \in 0..BUFFER_SIZE-1
        BY <3>0, ModDef, QueueAssumption
      <3>2. CASE n = np + 1
        <4>1. (n - 1) % BUFFER_SIZE = in
          BY <3>2, <1>1, <1>2 DEF RingInv
        <4> QED
          BY <4>1, <3>1, <3>2, <2>1, <2>2, <1>1 DEF TypeOK
      <3>3. CASE n # np + 1
        <4>1. n - 1 < np /\ np < (n - 1) + BUFFER_SIZE
          <5>1. count < BUFFER_SIZE
            BY <1>2, <2>1, QueueAssumption
          <5>2. nc + 1 <= n /\ n <= np
            BY <3>0, <3>3, <1>2
          <5> QED
            BY <3>0, <5>1, <5>2, <1>2, QueueAssumption
        <4>2. (n - 1) % BUFFER_SIZE # np % BUFFER_SIZE
          BY <4>1, <3>1, <1>2, ModDistinct, QueueAssumption
        <4>3. (n - 1) % BUFFER_SIZE # in
          BY <4>2, <1>1 DEF RingInv
        <4>4. buffer'[(n - 1) % BUFFER_SIZE] = buffer[(n - 1) % BUFFER_SIZE]
          BY <4>3, <3>1, <2>1, <1>1 DEF TypeOK
        <4>5. n \in (nc + 1)..np /\ n \in 1..np
          BY <3>3, <1>2
        <4> QED
          BY <4>4, <4>5, <2>2, <1>1 DEF RingInv
      <3> QED
        BY <3>2, <3>3
    <2>5. \A n \in 1..nc : consumed'[n] = produced'[n]
      BY <1>1, <1>2, <2>1, <2>2 DEF RingInv
    <2> QED
      <3>1. Len(produced') = Len(consumed') + count'
        BY <1>1, <1>2, <2>1, <2>2 DEF RingInv
      <3>2. in' = Len(produced') % BUFFER_SIZE /\ out' = Len(consumed') % BUFFER_SIZE
        BY <1>1, <2>1, <2>2, <2>3 DEF RingInv
      <3> QED
        BY <2>1, <2>2, <2>4, <2>5, <3>1, <3>2 DEF RingInv
  <1>4. ASSUME NEW t \in Threads, Take(t) PROVE RingInv'
    <2> DEFINE item == buffer[out]
    <2>1. /\ consumed' = Append(consumed, item)
          /\ produced' = produced /\ buffer' = buffer /\ in' = in
          /\ count' = count - 1
          /\ count # 0
          /\ out' = (out + 1) % BUFFER_SIZE
      BY <1>4 DEF Take, Advance
    <2>2. item = produced[nc + 1]
      <3>1. nc + 1 \in (nc + 1)..np
        BY <1>2, <2>1
      <3>2. buffer[((nc + 1) - 1) % BUFFER_SIZE] = produced[nc + 1]
        BY <3>1, <1>1 DEF RingInv
      <3>3. (nc + 1) - 1 = nc
        BY <1>2
      <3> QED
        BY <3>2, <3>3, <1>1 DEF RingInv
    <2>3. item \in Items
      <3>1. nc + 1 \in 1..np
        BY <1>2, <2>1
      <3> QED
        BY <3>1, <2>2, <1>1 DEF TypeOK
    <2> HIDE DEF item
    <2>4. /\ Len(consumed') = nc + 1
          /\ consumed'[nc + 1] = item
          /\ \A n \in 1..nc : consumed'[n] = consumed[n]
      BY <1>1, <2>1, <2>3 DEF TypeOK
    <2>5. out' = (nc + 1) % BUFFER_SIZE
      BY <1>1, <1>2, <2>1, ModAdd, QueueAssumption DEF RingInv
    <2>6. \A n \in 1..(nc + 1) : consumed'[n] = produced[n]
      BY <1>1, <1>2, <2>2, <2>4 DEF RingInv
    <2>7. \A n \in (nc + 2)..np : buffer[(n - 1) % BUFFER_SIZE] = produced[n]
      BY <1>1, <1>2 DEF RingInv
    <2>8. Len(produced') = Len(consumed') + count'
      BY <1>2, <2>1, <2>4
    <2>9. in' = Len(produced') % BUFFER_SIZE /\ out' = Len(consumed') % BUFFER_SIZE
      BY <1>1, <2>1, <2>4, <2>5 DEF RingInv
    <2>10. \A n \in 1..Len(consumed') : consumed'[n] = produced'[n]
      BY <2>1, <2>4, <2>6
    <2>11. \A n \in (Len(consumed') + 1)..Len(produced') :
             buffer'[(n - 1) % BUFFER_SIZE] = produced'[n]
      BY <1>2, <2>1, <2>4, <2>7
    <2> QED
      BY <2>8, <2>9, <2>10, <2>11 DEF RingInv
  <1>5. CASE UNCHANGED <<buffer, in, out, count, produced, consumed>>
    BY <1>1, <1>5 DEF RingInv
  <1>6. \/ UNCHANGED <<buffer, in, out, count, produced, consumed>>
        \/ \E t \in Threads : Put(t) \/ Take(t)
    BY DEF Next, vars, Producer, Consumer, Joined, Threads, Lock, ProducerMustWait,
       ConsumerMustWait, FutexWait, WakeConsumer, WakeProducer, Wake
  <1> QED
    BY <1>3, <1>4, <1>5, <1>6

\* The inductive invariant holds in every behaviour of the program.
LEMMA IInvHolds == Spec => []IInv
  <1>1. IInv /\ [Next]_vars => IInv'
    BY TypeNext, ControlNext, RingNext DEF IInv
  <1> QED
    BY <1>1, IInvInit, PTL DEF Spec

\* Every reachable state is well typed: the count never leaves
\* 0..BUFFER_SIZE, the indices never leave the array.
THEOREM TypeCorrect == Spec => []TypeOK
  BY IInvHolds, PTL DEF IInv

\* The ring holds, in order, what was produced and not yet consumed.
ContentsInv ==
    /\ Contents \in Seq(Items)
    /\ Len(Contents) = count
    /\ \A n \in 1..count : Contents[n] = produced[Len(consumed) + n]

\* That follows from the ring's history.
LEMMA ContentsFromInv == IInv => ContentsInv
  <1> SUFFICES ASSUME IInv PROVE ContentsInv
    OBVIOUS
  <1> DEFINE np == Len(produced)
             nc == Len(consumed)
  <1>1. TypeOK /\ RingInv
    BY DEF IInv
  <1>2. np \in Nat /\ nc \in Nat /\ np = nc + count /\ count \in 0..BUFFER_SIZE
    BY <1>1 DEF TypeOK, RingInv
  <1>3. ASSUME NEW n \in 1..count PROVE Contents[n] = produced[nc + n]
    <2>1. Contents[n] = buffer[(out + n - 1) % BUFFER_SIZE]
      BY DEF Contents
    <2>2. n - 1 \in Nat /\ nc + (n - 1) = (nc + n) - 1
      BY <1>2
    <2>3. ((nc % BUFFER_SIZE) + (n - 1)) % BUFFER_SIZE = (nc + (n - 1)) % BUFFER_SIZE
      BY <1>2, <2>2, ModAdd, QueueAssumption
    <2>4. out = nc % BUFFER_SIZE /\ out \in Nat
      BY <1>1, QueueAssumption DEF RingInv, TypeOK
    <2>5. out + n - 1 = out + (n - 1)
      BY <2>4
    <2>6. nc + n \in (nc + 1)..np
      BY <1>2
    <2>7. buffer[((nc + n) - 1) % BUFFER_SIZE] = produced[nc + n]
      BY <2>6, <1>1 DEF RingInv
    <2> QED
      BY <2>1, <2>2, <2>3, <2>4, <2>5, <2>7
  <1>4. Contents \in Seq(Items) /\ Len(Contents) = count
    <2>1. \A n \in 1..count : Contents[n] \in Items
      <3> TAKE n \in 1..count
      <3>1. nc + n \in 1..np
        BY <1>2
      <3>2. produced[nc + n] \in Items
        BY <3>1, <1>1 DEF TypeOK
      <3> QED
        BY <3>2, <1>3
    <2> QED
      BY <2>1, <1>2 DEF Contents
  <1> QED
    BY <1>3, <1>4 DEF ContentsInv

\* The ring in terms of its history is the history itself.
LEMMA FifoFromInv == IInv => FifoExact
  <1> SUFFICES ASSUME IInv PROVE FifoExact
    OBVIOUS
  <1> DEFINE np == Len(produced)
             nc == Len(consumed)
  <1>1. TypeOK /\ RingInv
    BY DEF IInv
  <1>2. np \in Nat /\ nc \in Nat /\ np = nc + count /\ count \in 0..BUFFER_SIZE
    BY <1>1 DEF TypeOK, RingInv
  <1>3. \A n \in 1..count : Contents[n] = produced[nc + n]
    BY ContentsFromInv DEF ContentsInv
  <1>4. Contents \in Seq(Items) /\ Len(Contents) = count
    BY ContentsFromInv DEF ContentsInv
  <1>5. produced \in Seq(Items) /\ consumed \in Seq(Items)
    BY <1>1 DEF TypeOK
  <1> HIDE DEF np, nc
  <1>6. /\ consumed \o Contents \in Seq(Items)
        /\ Len(consumed \o Contents) = nc + count
        /\ \A n \in 1..(nc + count) :
             (consumed \o Contents)[n] =
                IF n <= nc THEN consumed[n] ELSE Contents[n - nc]
    <2>1. PICK held : held = Contents
      OBVIOUS
    <2>2. held \in Seq(Items) /\ Len(held) = count
      BY <1>4, <2>1
    <2>3. /\ consumed \o held \in Seq(Items)
          /\ Len(consumed \o held) = nc + count
          /\ \A n \in 1..(nc + count) :
               (consumed \o held)[n] = IF n <= nc THEN consumed[n] ELSE held[n - nc]
      BY <1>5, <2>2, ConcatProperties DEF nc
    <2> QED
      BY <2>1, <2>3
  <1>7. ASSUME NEW n \in 1..np PROVE produced[n] = (consumed \o Contents)[n]
    <2>1. CASE n <= nc
      BY <2>1, <1>1, <1>2, <1>6 DEF RingInv, nc
    <2>2. CASE nc < n
      <3>1. n - nc \in 1..count /\ nc + (n - nc) = n
        BY <2>2, <1>2
      <3>2. Contents[n - nc] = produced[n]
        BY <3>1, <1>3
      <3> QED
        BY <2>2, <3>2, <1>2, <1>6
    <2>3. n <= nc \/ nc < n
      BY <1>2
    <2> QED
      BY <2>1, <2>2, <2>3
  <1>8. produced = consumed \o Contents
    BY <1>2, <1>5, <1>6, <1>7, SeqEqual DEF np
  <1> QED
    BY <1>8 DEF FifoExact

\* Nothing is lost, duplicated or reordered by any interleaving of any
\* number of producers and consumers over a ring of any size.
THEOREM FifoIsExact == Spec => []FifoExact
  BY IInvHolds, FifoFromInv, PTL
-----------------------------------------------------------------------------
\* A put of the program is a put of the abstract queue.
LEMMA PutRefines ==
  ASSUME IInv, IInv', NEW p \in Producers, Put(p)
  PROVE  Fifo!Put(i[p] + 1) /\ i[p] + 1 \in Items
  <1> DEFINE item == i[p] + 1
  <1>1. TypeOK /\ LoopInv /\ RingInv
    BY DEF IInv
  <1>2. /\ Contents \in Seq(Items) /\ Len(Contents) = count
        /\ \A n \in 1..count : Contents[n] = produced[Len(consumed) + n]
    BY ContentsFromInv DEF ContentsInv
  <1>3. /\ Contents' \in Seq(Items) /\ Len(Contents') = count'
        /\ \A n \in 1..count' : Contents'[n] = produced'[Len(consumed') + n]
    <2>1. ContentsInv'
      BY ContentsFromInv, PTL
    <2> QED
      BY <2>1 DEF ContentsInv
  <1>4. /\ count' = count + 1 /\ consumed' = consumed
        /\ produced' = Append(produced, item) /\ count # BUFFER_SIZE
    BY DEF Put
  <1>5. item \in Items
    <2>1. i[p] \in Nat /\ i[p] < ITEMS_TO_PRODUCE
      BY <1>1, QueueAssumption DEF TypeOK, LoopInv, Put, Threads
    <2> QED
      BY <2>1, QueueAssumption DEF Items
  <1>6. Len(produced) = Len(consumed) + count /\ count \in Nat /\ count < BUFFER_SIZE
    BY <1>1, <1>4, QueueAssumption DEF TypeOK, RingInv
  <1>7. produced \in Seq(Items) /\ Len(consumed) \in Nat
    BY <1>1 DEF TypeOK
  <1> HIDE DEF item
  <1>8. Append(Contents, item) \in Seq(Items) /\ Len(Append(Contents, item)) = count + 1
    BY <1>2, <1>5
  <1>9. ASSUME NEW n \in 1..(count + 1) PROVE Contents'[n] = Append(Contents, item)[n]
    <2>1. Contents'[n] = Append(produced, item)[Len(consumed) + n]
      BY <1>3, <1>4
    <2>2. CASE n = count + 1
      BY <2>1, <2>2, <1>2, <1>5, <1>6, <1>7
    <2>3. CASE n # count + 1
      <3>1. n \in 1..count /\ Len(consumed) + n \in 1..Len(produced)
        BY <2>3, <1>6, <1>7
      <3> QED
        BY <2>1, <3>1, <1>2, <1>5, <1>7
    <2> QED
      BY <2>2, <2>3
  <1>10. Contents' = Append(Contents, item)
    BY <1>3, <1>4, <1>8, <1>9, SeqEqual
  <1> QED
    BY <1>2, <1>4, <1>5, <1>6, <1>10 DEF Fifo!Put, item

\* A take of the program is a take of the abstract queue.
LEMMA TakeRefines ==
  ASSUME IInv, IInv', NEW c \in Consumers, Take(c)
  PROVE  Fifo!Take
  <1>1. TypeOK /\ RingInv
    BY DEF IInv
  <1>2. /\ Contents \in Seq(Items) /\ Len(Contents) = count
        /\ \A n \in 1..count : Contents[n] = produced[Len(consumed) + n]
    BY ContentsFromInv DEF ContentsInv
  <1>3. /\ Contents' \in Seq(Items) /\ Len(Contents') = count'
        /\ \A n \in 1..count' : Contents'[n] = produced'[Len(consumed') + n]
    <2>1. ContentsInv'
      BY ContentsFromInv, PTL
    <2> QED
      BY <2>1 DEF ContentsInv
  <1>4. /\ count' = count - 1 /\ produced' = produced /\ count # 0
        /\ consumed' = Append(consumed, buffer[out])
    BY DEF Take
  <1>5. count \in Nat \ {0} /\ Len(consumed) \in Nat /\ Contents # <<>>
    BY <1>1, <1>2, <1>4, QueueAssumption DEF TypeOK
  <1>6. Head(Contents) = buffer[out]
    <2>1. 1 \in 1..count /\ Head(Contents) = Contents[1]
      BY <1>2, <1>5
    <2>2. Contents[1] = buffer[(out + 1 - 1) % BUFFER_SIZE]
      BY <2>1 DEF Contents
    <2>3. out \in Nat /\ out < BUFFER_SIZE /\ out + 1 - 1 = out
      BY <1>1, QueueAssumption DEF TypeOK
    <2>4. out % BUFFER_SIZE = out
      BY <2>3, QueueAssumption
    <2> QED
      BY <2>1, <2>2, <2>3, <2>4
  <1>7. Len(consumed') = Len(consumed) + 1
    <2>1. buffer[out] \in Items
      BY <1>2, <1>5, <1>6
    <2> QED
      BY <2>1, <1>1, <1>4 DEF TypeOK
  <1>8. Contents' = Tail(Contents)
    <2>1. /\ Tail(Contents) \in Seq(Items) /\ Len(Tail(Contents)) = count - 1
          /\ \A n \in 1..(count - 1) : Tail(Contents)[n] = Contents[n + 1]
      BY <1>2, <1>5
    <2>2. ASSUME NEW n \in 1..(count - 1) PROVE Contents'[n] = Tail(Contents)[n]
      <3>1. Contents'[n] = produced[(Len(consumed) + 1) + n]
        BY <1>3, <1>4, <1>7
      <3>2. n + 1 \in 1..count /\ (Len(consumed) + 1) + n = Len(consumed) + (n + 1)
        BY <1>5
      <3> QED
        BY <3>1, <3>2, <2>1, <1>2
    <2> QED
      BY <2>1, <2>2, <1>3, <1>4, SeqEqual
  <1> QED
    BY <1>4, <1>5, <1>6, <1>8 DEF Fifo!Take

\* No other step shows.
LEMMA OthersStutter ==
  ASSUME [Next]_vars
  PROVE  \/ UNCHANGED <<buffer, out, count, consumed>>
         \/ \E p \in Producers : Put(p)
         \/ \E c \in Consumers : Take(c)
  BY DEF Next, vars, Producer, Consumer, Joined, Lock, ProducerMustWait,
     ConsumerMustWait, FutexWait, WakeConsumer, WakeProducer, Wake

\* The ring with its futex words implements the abstract bounded queue, for
\* any number of threads, any size and any number of items: a step of any
\* thread puts one item at the end, takes the first one, or does not show
\* (lines 40-113).
THEOREM QueueImplementsFifo == Spec => FifoSpec
  <1>1. Init => Fifo!Init
    <2> SUFFICES ASSUME Init PROVE Contents = <<>> /\ consumed = <<>>
      BY DEF Fifo!Init
    <2> QED
      BY DEF Init, Contents
  <1>2. IInv /\ IInv' /\ [Next]_vars => [Fifo!Next]_(Fifo!vars)
    <2> SUFFICES ASSUME IInv, IInv', [Next]_vars
                 PROVE  Fifo!Next \/ UNCHANGED <<Contents, consumed>>
      BY DEF Fifo!vars
    <2>1. ASSUME NEW p \in Producers, Put(p) PROVE Fifo!Next
      BY <2>1, PutRefines DEF Fifo!Next
    <2>2. ASSUME NEW c \in Consumers, Take(c) PROVE Fifo!Next
      BY <2>2, TakeRefines DEF Fifo!Next
    <2>3. CASE UNCHANGED <<buffer, out, count, consumed>>
      BY <2>3 DEF Contents
    <2> QED
      BY <2>1, <2>2, <2>3, OthersStutter
  <1> QED
    BY <1>1, <1>2, IInvHolds, PTL DEF Spec, FifoSpec, Fifo!Spec
-----------------------------------------------------------------------------
\* One thread on each side (main starts two).  A word that is 1 while its
\* thread is past the while condition is 1 for a reason that still holds, or
\* the other thread is about to wake it (lines 52-54, 65-71, 90-92, 103-109);
\* and the loop variables count the items.
WordInv(p, c) ==
    /\ pc[p] \in {"wait", "asleep"} /\ not_full = 1 => count = BUFFER_SIZE \/ pc[c] = "wake"
    /\ pc[p] = "asleep" => not_full = 1
    /\ pc[c] \in {"wait", "asleep"} /\ not_empty = 1 => count = 0 \/ pc[p] = "wake"
    /\ pc[c] = "asleep" => not_empty = 1
CountInv(p, c) ==
    /\ Len(produced) = i[p] + (IF pc[p] = "wake" THEN 1 ELSE 0)
    /\ Len(consumed) = i[c] + (IF pc[c] = "wake" THEN 1 ELSE 0)
    /\ \A t \in Threads : pc[t] = "done" => i[t] = ITEMS_TO_PRODUCE

\* Every step keeps the reasons of the words.
LEMMA WordNext ==
  ASSUME NEW p, NEW c, Producers = {p}, Consumers = {c}, IInv, WordInv(p, c), [Next]_vars
  PROVE  WordInv(p, c)'
  <1> USE DEF WordInv
  <1>1. p # c /\ p \in Threads /\ c \in Threads /\ DOMAIN pc = Threads
    BY QueueAssumption DEF Threads, IInv, TypeOK
  <1>2. ASSUME NEW t \in Threads, Lock(t) PROVE WordInv(p, c)'
    BY <1>1, <1>2 DEF Lock
  <1>3. CASE ProducerMustWait(p)
    BY <1>1, <1>3 DEF ProducerMustWait
  <1>4. CASE ConsumerMustWait(c)
    BY <1>1, <1>4 DEF ConsumerMustWait
  <1>5. CASE FutexWait(p, not_full)
    BY <1>1, <1>5 DEF FutexWait
  <1>6. CASE FutexWait(c, not_empty)
    BY <1>1, <1>6 DEF FutexWait
  <1>7. CASE Put(p)
    BY <1>1, <1>7 DEF Put
  <1>8. CASE Take(c)
    BY <1>1, <1>8 DEF Take
  <1>9. CASE WakeConsumer(p)
    <2>1. not_empty' = 0 /\ not_full' = not_full /\ count' = count /\ pc[p] = "wake"
      BY <1>9 DEF WakeConsumer, Wake
    <2>2. pc'[p] \in {"lock", "done"} /\ pc'[c] \in {pc[c], "lock"}
      BY <1>1, <1>9 DEF WakeConsumer, Wake, SleepingConsumers, AfterIteration
    <2>3. pc[c] = "asleep" => pc'[c] = "lock"
      BY <1>1, <1>9 DEF WakeConsumer, Wake, SleepingConsumers, AfterIteration
    <2> QED
      BY <2>1, <2>2, <2>3
  <1>10. CASE WakeProducer(c)
    <2>1. not_full' = 0 /\ not_empty' = not_empty /\ count' = count /\ pc[c] = "wake"
      BY <1>10 DEF WakeProducer, Wake
    <2>2. pc'[c] \in {"lock", "done"} /\ pc'[p] \in {pc[p], "lock"}
      BY <1>1, <1>10 DEF WakeProducer, Wake, SleepingProducers, AfterIteration
    <2>3. pc[p] = "asleep" => pc'[p] = "lock"
      BY <1>1, <1>10 DEF WakeProducer, Wake, SleepingProducers, AfterIteration
    <2> QED
      BY <2>1, <2>2, <2>3
  <1>11. CASE UNCHANGED vars
    BY <1>11 DEF vars
  <1> QED
    BY <1>1, <1>2, <1>3, <1>4, <1>5, <1>6, <1>7, <1>8, <1>9, <1>10, <1>11
    DEF Next, Producer, Consumer, Joined, Threads

\* So it does the counts.
LEMMA CountNext ==
  ASSUME NEW p, NEW c, Producers = {p}, Consumers = {c}, IInv, CountInv(p, c), [Next]_vars
  PROVE  CountInv(p, c)'
  <1> USE DEF CountInv
  <1>1. /\ p # c /\ p \in Threads /\ c \in Threads /\ Threads = {p, c} /\ DOMAIN pc = Threads
        /\ DOMAIN i = Threads /\ \A t \in Threads : i[t] \in Nat
        /\ produced \in Seq(Items) /\ consumed \in Seq(Items)
    <2>1. p # c /\ p \in Threads /\ c \in Threads /\ Threads = {p, c}
      BY QueueAssumption DEF Threads
    <2>2. /\ DOMAIN pc = Threads /\ i \in [Threads -> 0..ITEMS_TO_PRODUCE]
          /\ produced \in Seq(Items) /\ consumed \in Seq(Items)
      BY DEF IInv, TypeOK
    <2>3. DOMAIN i = Threads /\ \A t \in Threads : i[t] \in Nat
      BY <2>2
    <2> QED
      BY <2>1, <2>2, <2>3
  <1>2. ITEMS_TO_PRODUCE \in Nat /\ \A t \in Threads : pc[t] # "done" => i[t] < ITEMS_TO_PRODUCE
    BY QueueAssumption DEF IInv, LoopInv
  <1>3. ASSUME NEW t \in Threads, NEW word, Lock(t) \/ FutexWait(t, word) PROVE CountInv(p, c)'
    BY <1>1, <1>3 DEF Lock, FutexWait
  <1>4. CASE ProducerMustWait(p) \/ ConsumerMustWait(c)
    BY <1>1, <1>4 DEF ProducerMustWait, ConsumerMustWait
  <1>5. CASE Put(p)
    BY <1>1, <1>5 DEF Put
  <1>6. CASE Take(c)
    BY <1>1, <1>6 DEF Take
  <1>7. CASE WakeConsumer(p)
    <2>1. /\ produced' = produced /\ consumed' = consumed /\ pc[p] = "wake"
          /\ i' = [i EXCEPT ![p] = @ + 1]
      BY <1>7 DEF WakeConsumer, Wake
    <2>2. /\ pc'[p] = AfterIteration(p)
          /\ pc'[c] = pc[c] \/ (pc[c] = "asleep" /\ pc'[c] = "lock")
      BY <1>1, <1>7 DEF WakeConsumer, Wake, SleepingConsumers
    <2> QED
      BY <1>1, <1>2, <2>1, <2>2 DEF AfterIteration
  <1>8. CASE WakeProducer(c)
    <2>1. /\ produced' = produced /\ consumed' = consumed /\ pc[c] = "wake"
          /\ i' = [i EXCEPT ![c] = @ + 1]
      BY <1>8 DEF WakeProducer, Wake
    <2>2. /\ pc'[c] = AfterIteration(c)
          /\ pc'[p] = pc[p] \/ (pc[p] = "asleep" /\ pc'[p] = "lock")
      BY <1>1, <1>8 DEF WakeProducer, Wake, SleepingProducers
    <2> QED
      BY <1>1, <1>2, <2>1, <2>2 DEF AfterIteration
  <1>9. CASE UNCHANGED vars
    BY <1>9 DEF vars
  <1> QED
    BY <1>1, <1>3, <1>4, <1>5, <1>6, <1>7, <1>8, <1>9 DEF Next, Producer, Consumer, Joined

\* t sleeps on its word, and other, who would have to wake it, never will.
LeftAsleep(t, other) == pc[t] = "asleep" /\ pc[other] \in {"asleep", "done"}

\* With one producer and one consumer nobody is left asleep: while a thread
\* sleeps on its word, the other one is awake and has not returned (lines
\* 46-72, 84-110).  With two threads on a side all of them can be.
THEOREM NobodyLeftAsleep ==
  ASSUME NEW CONSTANT p, NEW CONSTANT c, Producers = {p}, Consumers = {c}
  PROVE  Spec => [](~LeftAsleep(p, c) /\ ~LeftAsleep(c, p))
  <1> DEFINE Awake == ~LeftAsleep(p, c) /\ ~LeftAsleep(c, p)
  <1>1. Init => WordInv(p, c) /\ CountInv(p, c)
    BY QueueAssumption DEF Init, WordInv, CountInv, Threads
  <1>2. IInv /\ (WordInv(p, c) /\ CountInv(p, c)) /\ [Next]_vars
          => (WordInv(p, c) /\ CountInv(p, c))'
    BY WordNext, CountNext
  <1>3. IInv /\ (WordInv(p, c) /\ CountInv(p, c)) => Awake
    <2> SUFFICES ASSUME IInv, WordInv(p, c), CountInv(p, c) PROVE Awake
      OBVIOUS
    <2>1. /\ p \in Threads /\ c \in Threads /\ i[p] \in Nat /\ i[c] \in Nat /\ count \in Nat
          /\ BUFFER_SIZE \in Nat \ {0} /\ ITEMS_TO_PRODUCE \in Nat
      BY QueueAssumption DEF Threads, IInv, TypeOK
    <2>2. /\ Len(produced) = Len(consumed) + count
          /\ pc[p] # "done" => i[p] < ITEMS_TO_PRODUCE
          /\ pc[c] # "done" => i[c] < ITEMS_TO_PRODUCE
      BY <2>1 DEF IInv, RingInv, LoopInv
    <2>3. ASSUME pc[p] = "asleep", pc[c] \in {"asleep", "done"} PROVE FALSE
      BY <2>1, <2>2, <2>3 DEF WordInv, CountInv
    <2>4. ASSUME pc[c] = "asleep", pc[p] = "done" PROVE FALSE
      <3>1. Len(consumed) = i[c] /\ Len(produced) = i[p] /\ i[p] = ITEMS_TO_PRODUCE
        BY <2>1, <2>4 DEF CountInv
      <3>2. count = 0
        BY <2>4 DEF WordInv
      <3> QED
        BY <2>1, <2>2, <2>4, <3>1, <3>2
    <2> QED
      BY <2>3, <2>4 DEF LeftAsleep
  <1> QED
    BY <1>1, <1>2, <1>3, IInvHolds, PTL DEF Spec
=============================================================================
