-------------------------- MODULE BufferCacheProofs --------------------------
(***************************************************************************)
(* Proofs about the block cache of the module BufferCache, for any set of  *)
(* keys, any hash function and any size of the cache and of the pool.      *)
(***************************************************************************)
EXTENDS BufferCache, SequenceTheorems, TLAPS

\* BuffersConserved, list by list: neither list holds a buffer twice, none
\* is in both, and there is no other.
ListsOK ==
    /\ IsInjective(freelist)
    /\ IsInjective(lru)
    /\ ToSet(freelist) \cap ToSet(lru) = {}
    /\ ToSet(freelist) \cup ToSet(lru) = Buffers

\* t is s without its node at position p.
IsCut(s, p, t) ==
    /\ Len(t) = Len(s) - 1
    /\ \A i \in 1..Len(t) : t[i] = IF i < p THEN s[i] ELSE s[i + 1]

Inv ==
    /\ TypeOK
    /\ ListsOK
    /\ BucketsAlive
    /\ DataMatchesKey
-----------------------------------------------------------------------------
(***************************************************************************)
(* The lists: what is in a sequence, and that it holds nothing twice.      *)
(***************************************************************************)
\* ToSet and IsInjective, by position.
LEMMA ByPosition ==
  ASSUME NEW S, NEW s \in Seq(S)
  PROVE  /\ ToSet(s) \subseteq S
         /\ \A x : x \in ToSet(s) <=> \E i \in 1..Len(s) : s[i] = x
         /\ IsInjective(s) <=> \A i, j \in 1..Len(s) : s[i] = s[j] => i = j
  BY LenProperties DEF ToSet, IsInjective

\* Two lists one after the other.
LEMMA Joined ==
  ASSUME NEW S, NEW s \in Seq(S), NEW t \in Seq(S)
  PROVE  /\ s \o t \in Seq(S)
         /\ ToSet(s \o t) = ToSet(s) \cup ToSet(t)
         /\ IsInjective(s \o t)
              <=> IsInjective(s) /\ IsInjective(t) /\ ToSet(s) \cap ToSet(t) = {}
  <1> DEFINE u == s \o t
             m == Len(s)
             n == Len(t)
  <1>1. /\ u \in Seq(S) /\ m \in Nat /\ n \in Nat /\ Len(u) = m + n
        /\ \A i \in 1..m : u[i] = s[i]
        /\ \A i \in 1..n : u[m + i] = t[i]
        /\ \A i \in 1..(m + n) : i \in 1..m \/ (i - m \in 1..n /\ u[i] = t[i - m])
    BY ConcatProperties
  <1> HIDE DEF u, m, n
  <1>2. /\ \A x : x \in ToSet(s) <=> \E i \in 1..m : s[i] = x
        /\ IsInjective(s) <=> \A i, j \in 1..m : s[i] = s[j] => i = j
    BY ByPosition DEF m
  <1>3. /\ \A x : x \in ToSet(t) <=> \E i \in 1..n : t[i] = x
        /\ IsInjective(t) <=> \A i, j \in 1..n : t[i] = t[j] => i = j
    BY ByPosition DEF n
  <1>4. /\ \A x : x \in ToSet(u) <=> \E i \in 1..(m + n) : u[i] = x
        /\ IsInjective(u) <=> \A i, j \in 1..(m + n) : u[i] = u[j] => i = j
    <2>1. u \in Seq(S) /\ Len(u) = m + n
      BY <1>1
    <2>2. /\ \A x : x \in ToSet(u) <=> \E i \in 1..Len(u) : u[i] = x
          /\ IsInjective(u) <=> \A i, j \in 1..Len(u) : u[i] = u[j] => i = j
      BY <2>1, ByPosition
    <2> QED
      BY <2>1, <2>2
  <1>5. \A i \in 1..m : i \in 1..(m + n)
    BY <1>1
  <1>6. \A i \in 1..n : m + i \in 1..(m + n)
    BY <1>1
  <1>7. ToSet(u) = ToSet(s) \cup ToSet(t)
    <2>1. ASSUME NEW x \in ToSet(u) PROVE x \in ToSet(s) \cup ToSet(t)
      <3>1. PICK i \in 1..(m + n) : u[i] = x
        BY <1>4, <2>1
      <3>2. CASE i \in 1..m
        BY <1>1, <1>2, <3>1, <3>2
      <3>3. CASE i \notin 1..m
        <4>1. i - m \in 1..n /\ t[i - m] = x
          BY <1>1, <3>1, <3>3
        <4> QED
          BY <1>3, <4>1
      <3> QED
        BY <3>2, <3>3
    <2>2. ASSUME NEW x \in ToSet(s) PROVE x \in ToSet(u)
      BY <1>1, <1>2, <1>4, <1>5
    <2>3. ASSUME NEW x \in ToSet(t) PROVE x \in ToSet(u)
      BY <1>1, <1>3, <1>4, <1>6
    <2> QED
      BY <2>1, <2>2, <2>3
  <1>8. ASSUME IsInjective(u)
        PROVE  IsInjective(s) /\ IsInjective(t) /\ ToSet(s) \cap ToSet(t) = {}
    <2>1. IsInjective(s)
      BY <1>1, <1>2, <1>4, <1>5, <1>8
    <2>2. IsInjective(t)
      <3> SUFFICES ASSUME NEW i \in 1..n, NEW j \in 1..n, t[i] = t[j] PROVE i = j
        BY <1>3
      <3>1. m + i = m + j
        BY <1>1, <1>4, <1>6, <1>8
      <3> QED
        BY <1>1, <3>1
    <2>3. ASSUME NEW x \in ToSet(s), x \in ToSet(t) PROVE FALSE
      <3>1. PICK i \in 1..m : s[i] = x
        BY <1>2
      <3>2. PICK j \in 1..n : t[j] = x
        BY <1>3, <2>3
      <3>3. i = m + j
        BY <1>1, <1>4, <1>5, <1>6, <1>8, <3>1, <3>2
      <3> QED
        BY <1>1, <3>3
    <2> QED
      BY <2>1, <2>2, <2>3
  <1>9. ASSUME IsInjective(s), IsInjective(t), ToSet(s) \cap ToSet(t) = {}
        PROVE  IsInjective(u)
    <2> SUFFICES ASSUME NEW i \in 1..(m + n), NEW j \in 1..(m + n), u[i] = u[j] PROVE i = j
      BY <1>4
    <2>1. CASE i \in 1..m /\ j \in 1..m
      BY <1>1, <1>2, <1>9, <2>1
    <2>2. CASE i \notin 1..m /\ j \notin 1..m
      <3>1. i - m = j - m
        BY <1>1, <1>3, <1>9, <2>2
      <3> QED
        BY <1>1, <3>1
    <2>3. CASE i \in 1..m /\ j \notin 1..m
      BY <1>1, <1>2, <1>3, <1>9, <2>3
    <2>4. CASE i \notin 1..m /\ j \in 1..m
      BY <1>1, <1>2, <1>3, <1>9, <2>4
    <2> QED
      BY <2>1, <2>2, <2>3, <2>4
  <1> QED
    BY <1>1, <1>7, <1>8, <1>9 DEF u

\* A list with a new head (addtofront, release_buffer).
LEMMA Pushed ==
  ASSUME NEW S, NEW s \in Seq(S), NEW b \in S, IsInjective(s), b \notin ToSet(s)
  PROVE  /\ <<b>> \o s \in Seq(S)
         /\ Len(<<b>> \o s) = Len(s) + 1
         /\ IsInjective(<<b>> \o s)
         /\ ToSet(<<b>> \o s) = {b} \cup ToSet(s)
  <1> DEFINE head == <<b>>
  <1>1. head \in Seq(S) /\ Len(head) = 1
    OBVIOUS
  <1>2. IsInjective(head) /\ ToSet(head) = {b}
    BY DEF IsInjective, ToSet
  <1> HIDE DEF head
  <1>3. Len(head \o s) = Len(s) + 1
    <2>1. Len(head \o s) = Len(head) + Len(s)
      BY <1>1, ConcatProperties
    <2>2. Len(s) \in Nat
      BY LenProperties
    <2> QED
      BY <1>1, <2>1, <2>2
  <1>4. /\ head \o s \in Seq(S)
        /\ ToSet(head \o s) = ToSet(head) \cup ToSet(s)
        /\ IsInjective(head \o s)
             <=> IsInjective(head) /\ IsInjective(s) /\ ToSet(head) \cap ToSet(s) = {}
    BY <1>1, Joined
  <1> QED
    BY <1>2, <1>3, <1>4 DEF head

\* A list without its node at position p (movetofront, removelru,
\* acquire_buffer).
LEMMA Unlinked ==
  ASSUME NEW S, NEW s \in Seq(S), NEW t \in Seq(S), NEW p \in 1..Len(s),
         IsInjective(s), IsCut(s, p, t)
  PROVE  IsInjective(t) /\ ToSet(t) = ToSet(s) \ {s[p]}
  <1> DEFINE n == Len(s)
             m == Len(t)
  <1>1. n \in Nat /\ m \in Nat /\ n = m + 1 /\ p \in 1..n
    BY LenProperties DEF IsCut
  <1>2. \A i \in 1..m : t[i] = IF i < p THEN s[i] ELSE s[i + 1]
    BY DEF IsCut
  <1>3. \A i, j \in 1..n : s[i] = s[j] => i = j
    BY ByPosition
  <1>4. \A x : x \in ToSet(s) <=> \E i \in 1..n : s[i] = x
    BY ByPosition
  <1>5. /\ \A x : x \in ToSet(t) <=> \E i \in 1..m : t[i] = x
        /\ IsInjective(t) <=> \A i, j \in 1..m : t[i] = t[j] => i = j
    BY ByPosition
  <1> HIDE DEF n, m
  <1>6. \A i \in 1..m : i \in 1..n /\ i + 1 \in 1..n
    BY <1>1
  <1>7. IsInjective(t)
    <2> SUFFICES ASSUME NEW i \in 1..m, NEW j \in 1..m, t[i] = t[j] PROVE i = j
      BY <1>5
    <2>1. CASE i < p /\ j < p
      BY <1>2, <1>3, <1>6, <2>1
    <2>2. CASE ~(i < p) /\ ~(j < p)
      <3>1. i + 1 = j + 1
        BY <1>2, <1>3, <1>6, <2>2
      <3> QED
        BY <3>1
    <2>3. CASE i < p /\ ~(j < p)
      <3>1. i = j + 1
        BY <1>2, <1>3, <1>6, <2>3
      <3> QED
        BY <1>1, <2>3, <3>1
    <2>4. CASE ~(i < p) /\ j < p
      <3>1. i + 1 = j
        BY <1>2, <1>3, <1>6, <2>4
      <3> QED
        BY <1>1, <2>4, <3>1
    <2> QED
      BY <2>1, <2>2, <2>3, <2>4
  <1>8. ASSUME NEW x \in ToSet(t) PROVE x \in ToSet(s) /\ x # s[p]
    <2>1. PICK i \in 1..m : t[i] = x
      BY <1>5, <1>8
    <2>2. CASE i < p
      <3>1. x = s[i] /\ i # p
        BY <1>1, <1>2, <2>1, <2>2
      <3> QED
        BY <1>1, <1>3, <1>4, <1>6, <3>1
    <2>3. CASE ~(i < p)
      <3>1. x = s[i + 1] /\ i + 1 # p
        BY <1>1, <1>2, <2>1, <2>3
      <3> QED
        BY <1>1, <1>3, <1>4, <1>6, <3>1
    <2> QED
      BY <2>2, <2>3
  <1>9. ASSUME NEW x \in ToSet(s), x # s[p] PROVE x \in ToSet(t)
    <2>1. PICK i \in 1..n : s[i] = x
      BY <1>4, <1>9
    <2>2. i # p
      BY <1>9, <2>1
    <2>3. CASE i < p
      <3>1. i \in 1..m
        BY <1>1, <2>3
      <3> QED
        BY <1>2, <1>5, <2>1, <2>3, <3>1
    <2>4. CASE p < i
      <3>1. i - 1 \in 1..m /\ ~(i - 1 < p) /\ (i - 1) + 1 = i
        BY <1>1, <2>4
      <3> QED
        BY <1>2, <1>5, <2>1, <3>1
    <2> QED
      BY <1>1, <2>2, <2>3, <2>4
  <1> QED
    BY <1>7, <1>8, <1>9

\* A list without its first, its last or its p-th node.
LEMMA WithoutHead ==
  ASSUME NEW S, NEW s \in Seq(S), s # <<>>, IsInjective(s)
  PROVE  /\ Head(s) \in ToSet(s)
         /\ Tail(s) \in Seq(S)
         /\ Len(Tail(s)) = Len(s) - 1
         /\ IsInjective(Tail(s))
         /\ ToSet(Tail(s)) = ToSet(s) \ {Head(s)}
  <1>1. Len(s) \in Nat \ {0}
    BY EmptySeq
  <1>2. 1 \in 1..Len(s) /\ Head(s) = s[1]
    BY <1>1
  <1>3. /\ Tail(s) \in Seq(S) /\ Len(Tail(s)) = Len(s) - 1
        /\ \A i \in 1..Len(Tail(s)) : Tail(s)[i] = s[i + 1]
    BY HeadTailProperties
  <1> DEFINE t == Tail(s)
  <1> HIDE DEF t
  <1>4. IsCut(s, 1, t) /\ t \in Seq(S)
    BY <1>3 DEF t, IsCut
  <1>5. IsInjective(t) /\ ToSet(t) = ToSet(s) \ {s[1]}
    BY <1>2, <1>4, Unlinked
  <1>6. s[1] \in ToSet(s)
    BY <1>2, ByPosition
  <1> QED
    BY <1>2, <1>3, <1>5, <1>6 DEF t

LEMMA WithoutLast ==
  ASSUME NEW S, NEW s \in Seq(S), Len(s) > 0, IsInjective(s)
  PROVE  /\ Last(s) \in ToSet(s)
         /\ Front(s) \in Seq(S)
         /\ Len(Front(s)) = Len(s) - 1
         /\ IsInjective(Front(s))
         /\ ToSet(Front(s)) = ToSet(s) \ {Last(s)}
  <1> DEFINE n == Len(s)
             t == Front(s)
  <1>1. n \in Nat \ {0} /\ n \in 1..n /\ \A i \in 1..n : s[i] \in S
    BY LenProperties, ElementOfSeq
  <1>2. /\ t \in Seq(S) /\ Len(t) = n - 1
        /\ \A i \in 1..(n - 1) : t[i] = s[i]
    <2>1. 1 \in Int /\ n - 1 \in Int /\ \A i \in 1..(n - 1) : s[i] \in S
      BY <1>1
    <2> HIDE DEF n
    <2>2. /\ SubSeq(s, 1, n - 1) \in Seq(S)
          /\ Len(SubSeq(s, 1, n - 1)) = IF 1 <= n - 1 THEN (n - 1) - 1 + 1 ELSE 0
          /\ \A i \in 1..((n - 1) - 1 + 1) : SubSeq(s, 1, n - 1)[i] = s[1 + i - 1]
      BY <2>1, SubSeqProperties
    <2>3. t = SubSeq(s, 1, n - 1)
      BY DEF Front, n
    <2> HIDE DEF t
    <2> QED
      BY <1>1, <2>2, <2>3
  <1> HIDE DEF t
  <1>3. IsCut(s, n, t)
    BY <1>1, <1>2 DEF IsCut
  <1>4. IsInjective(t) /\ ToSet(t) = ToSet(s) \ {s[n]}
    BY <1>1, <1>2, <1>3, Unlinked
  <1>5. s[n] \in ToSet(s) /\ s[n] = Last(s)
    BY <1>1, ByPosition DEF Last
  <1> QED
    BY <1>2, <1>4, <1>5 DEF t

LEMMA WithoutAt ==
  ASSUME NEW S, NEW s \in Seq(S), NEW p \in 1..Len(s), IsInjective(s)
  PROVE  /\ RemoveAt(s, p) \in Seq(S)
         /\ Len(RemoveAt(s, p)) = Len(s) - 1
         /\ IsInjective(RemoveAt(s, p))
         /\ ToSet(RemoveAt(s, p)) = ToSet(s) \ {s[p]}
  <1> DEFINE n == Len(s)
             a == SubSeq(s, 1, p - 1)
             b == SubSeq(s, p + 1, n)
             t == a \o b
  <1>1. n \in Nat /\ p \in 1..n /\ \A i \in 1..n : s[i] \in S
    BY LenProperties, ElementOfSeq
  <1> HIDE DEF n
  <1>2. a \in Seq(S) /\ Len(a) = p - 1 /\ \A i \in 1..(p - 1) : a[i] = s[i]
    <2>1. p - 1 \in Int /\ \A i \in 1..(p - 1) : s[i] \in S
      BY <1>1
    <2>2. /\ SubSeq(s, 1, p - 1) \in Seq(S)
          /\ Len(SubSeq(s, 1, p - 1)) = IF 1 <= p - 1 THEN (p - 1) - 1 + 1 ELSE 0
          /\ \A i \in 1..((p - 1) - 1 + 1) : SubSeq(s, 1, p - 1)[i] = s[1 + i - 1]
      BY <2>1, SubSeqProperties
    <2> HIDE DEF a
    <2>3. a = SubSeq(s, 1, p - 1)
      BY DEF a
    <2> QED
      BY <1>1, <2>2, <2>3
  <1>3. b \in Seq(S) /\ Len(b) = n - p /\ \A i \in 1..(n - p) : b[i] = s[p + i]
    <2>1. p + 1 \in Int /\ n \in Int /\ \A i \in (p + 1)..n : s[i] \in S
      BY <1>1
    <2>2. /\ SubSeq(s, p + 1, n) \in Seq(S)
          /\ Len(SubSeq(s, p + 1, n)) = IF p + 1 <= n THEN n - (p + 1) + 1 ELSE 0
          /\ \A i \in 1..(n - (p + 1) + 1) : SubSeq(s, p + 1, n)[i] = s[(p + 1) + i - 1]
      BY <2>1, SubSeqProperties
    <2> HIDE DEF b
    <2>3. b = SubSeq(s, p + 1, n)
      BY DEF b
    <2> QED
      BY <1>1, <2>2, <2>3
  <1> HIDE DEF a, b
  <1>4. /\ t \in Seq(S) /\ Len(t) = Len(a) + Len(b)
        /\ \A i \in 1..(Len(a) + Len(b)) : t[i] = IF i <= Len(a) THEN a[i] ELSE b[i - Len(a)]
    BY <1>2, <1>3, ConcatProperties
  <1>5. t = RemoveAt(s, p)
    BY DEF RemoveAt, a, b, n
  <1> HIDE DEF t
  <1>6. Len(t) = n - 1
    BY <1>1, <1>2, <1>3, <1>4
  <1>7. ASSUME NEW i \in 1..Len(t) PROVE t[i] = IF i < p THEN s[i] ELSE s[i + 1]
    <2>1. CASE i < p
      BY <1>1, <1>2, <1>3, <1>4, <1>6, <2>1
    <2>2. CASE ~(i < p)
      <3>1. i - (p - 1) \in 1..(n - p) /\ p + (i - (p - 1)) = i + 1
        BY <1>1, <1>6, <2>2
      <3>2. t[i] = b[i - (p - 1)]
        BY <1>1, <1>2, <1>3, <1>4, <1>6, <2>2
      <3>3. b[i - (p - 1)] = s[p + (i - (p - 1))]
        BY <1>3, <3>1
      <3> QED
        BY <2>2, <3>1, <3>2, <3>3
    <2> QED
      BY <2>1, <2>2
  <1>8. IsInjective(t) /\ ToSet(t) = ToSet(s) \ {s[p]}
    <2>1. IsCut(s, p, t)
      BY <1>6, <1>7 DEF IsCut, n
    <2> QED
      BY <1>4, <2>1, Unlinked
  <1> QED
    BY <1>4, <1>5, <1>6, <1>8 DEF n

\* A list read backwards (the cleanup of main gives the buffers back from the
\* head on, each to the front of the free list).
LEMMA Backwards ==
  ASSUME NEW S, NEW s \in Seq(S), IsInjective(s)
  PROVE  /\ Reverse(s) \in Seq(S)
         /\ IsInjective(Reverse(s))
         /\ ToSet(Reverse(s)) = ToSet(s)
  <1> DEFINE n == Len(s)
             r == Reverse(s)
  <1>1. n \in Nat /\ \A i \in 1..n : s[i] \in S
    BY LenProperties, ElementOfSeq
  <1> HIDE DEF n
  <1>2. \A i \in 1..n : (n - i) + 1 \in 1..n /\ (n - ((n - i) + 1)) + 1 = i
    BY <1>1
  <1>3. r \in [1..n -> S] /\ \A i \in 1..n : r[i] = s[(n - i) + 1]
    BY <1>1, <1>2 DEF Reverse, n
  <1> HIDE DEF r
  <1>4. r \in Seq(S) /\ Len(r) = n
    BY <1>1, <1>3, SeqDef
  <1>5. /\ \A x : x \in ToSet(r) <=> \E i \in 1..n : r[i] = x
        /\ IsInjective(r) <=> \A i, j \in 1..n : r[i] = r[j] => i = j
    <2>1. /\ \A x : x \in ToSet(r) <=> \E i \in 1..Len(r) : r[i] = x
          /\ IsInjective(r) <=> \A i, j \in 1..Len(r) : r[i] = r[j] => i = j
      BY <1>4, ByPosition
    <2> QED
      BY <1>4, <2>1
  <1>6. /\ \A x : x \in ToSet(s) <=> \E i \in 1..n : s[i] = x
        /\ \A i, j \in 1..n : s[i] = s[j] => i = j
    BY ByPosition DEF n
  <1>7. IsInjective(r)
    <2> SUFFICES ASSUME NEW i \in 1..n, NEW j \in 1..n, r[i] = r[j] PROVE i = j
      BY <1>5
    <2>1. (n - i) + 1 = (n - j) + 1
      BY <1>2, <1>3, <1>6
    <2> QED
      BY <1>1, <2>1
  <1>8. ToSet(r) = ToSet(s)
    <2>1. ASSUME NEW x \in ToSet(r) PROVE x \in ToSet(s)
      BY <1>2, <1>3, <1>5, <1>6
    <2>2. ASSUME NEW x \in ToSet(s) PROVE x \in ToSet(r)
      <3>1. PICK i \in 1..n : s[i] = x
        BY <1>6, <2>2
      <3>2. r[(n - i) + 1] = x
        BY <1>2, <1>3, <3>1
      <3> QED
        BY <1>2, <1>5, <3>2
    <2> QED
      BY <2>1, <2>2
  <1> QED
    BY <1>4, <1>7, <1>8 DEF r
-----------------------------------------------------------------------------
(***************************************************************************)
(* The steps.                                                              *)
(***************************************************************************)
\* Both ways to say that no buffer is lost or shared.
LEMMA ListsConserve == TypeOK => (BuffersConserved <=> ListsOK)
  BY Joined DEF TypeOK, BuffersConserved, ListsOK

\* A hit (lines 217-235) reorders the LRU list and changes nothing else.
LEMMA HitNext ==
  ASSUME Inv, NEW k \in Keys, Hit(k)
  PROVE  Inv'
  <1>1. PICK p \in Found(k) : /\ lru' = MoveToFront(p)
                              /\ returned' = lru[p]
                              /\ UNCHANGED <<freelist, data, key, nodes, running>>
    BY DEF Hit
  <1>2. p \in 1..Len(lru)
    BY DEF Found, Walk
  <1>3. lru \in Seq(Buffers) /\ IsInjective(lru) /\ Len(lru) \in Nat
    BY LenProperties DEF Inv, TypeOK, ListsOK
  <1>4. lru[p] \in Buffers /\ lru[p] \in ToSet(lru)
    BY <1>2, <1>3, ByPosition
  <1> DEFINE rest == RemoveAt(lru, p)
  <1>5. /\ rest \in Seq(Buffers) /\ Len(rest) = Len(lru) - 1
        /\ IsInjective(rest) /\ ToSet(rest) = ToSet(lru) \ {lru[p]}
    BY <1>2, <1>3, WithoutAt
  <1>6. lru' = <<lru[p]>> \o rest
    BY <1>1 DEF MoveToFront
  <1> HIDE DEF rest
  <1>7. /\ lru' \in Seq(Buffers) /\ Len(lru') = Len(rest) + 1
        /\ IsInjective(lru') /\ ToSet(lru') = {lru[p]} \cup ToSet(rest)
    BY <1>4, <1>5, <1>6, Pushed
  <1>8. Len(lru') = Len(lru) /\ ToSet(lru)' = ToSet(lru) /\ IsInjective(lru)'
    BY <1>3, <1>4, <1>5, <1>7
  <1>9. TypeOK'
    BY <1>1, <1>4, <1>7, <1>8 DEF Inv, TypeOK
  <1>10. ListsOK'
    BY <1>1, <1>8 DEF Inv, ListsOK
  <1>11. BucketsAlive'
    BY <1>1, <1>8 DEF Inv, BucketsAlive
  <1>12. DataMatchesKey'
    BY <1>1, <1>8 DEF Inv, DataMatchesKey
  <1> QED
    BY <1>9, <1>10, <1>11, <1>12 DEF Inv

\* A miss with a free buffer (lines 237-313), with the eviction it may cause.
LEMMA LoadNext ==
  ASSUME Inv, NEW k \in Keys, Load(k)
  PROVE  Inv'
  <1> DEFINE buf    == Head(freelist)
             victim == Last(lru)
             kept   == IF Full THEN Front(lru) ELSE lru
             free   == IF Full THEN <<victim>> \o Tail(freelist) ELSE Tail(freelist)
  <1>1. /\ freelist \in Seq(Buffers) /\ lru \in Seq(Buffers) /\ Len(lru) \in Nat
        /\ Len(lru) <= CACHE_SIZE /\ CACHE_SIZE \in Nat \ {0}
        /\ IsInjective(freelist) /\ IsInjective(lru)
        /\ ToSet(freelist) \cap ToSet(lru) = {}
        /\ ToSet(freelist) \cup ToSet(lru) = Buffers
    BY CacheAssumption, LenProperties DEF Inv, TypeOK, ListsOK
  <1>2. freelist # <<>>
    BY DEF Load
  <1>3. /\ buf \in ToSet(freelist) /\ Tail(freelist) \in Seq(Buffers)
        /\ IsInjective(Tail(freelist)) /\ ToSet(Tail(freelist)) = ToSet(freelist) \ {buf}
    BY <1>1, <1>2, WithoutHead
  <1>4. ASSUME Full
        PROVE  /\ victim \in ToSet(lru) /\ Front(lru) \in Seq(Buffers)
               /\ Len(Front(lru)) = Len(lru) - 1 /\ IsInjective(Front(lru))
               /\ ToSet(Front(lru)) = ToSet(lru) \ {victim}
    <2>1. Len(lru) > 0
      BY <1>1, <1>4 DEF Full
    <2> QED
      BY <1>1, <2>1, WithoutLast
  <1> HIDE DEF buf, victim
  <1>5. /\ kept \in Seq(Buffers) /\ IsInjective(kept) /\ Len(kept) < CACHE_SIZE
        /\ Len(kept) \in Nat
        /\ ToSet(kept) = IF Full THEN ToSet(lru) \ {victim} ELSE ToSet(lru)
    <2>1. CASE Full
      BY <1>1, <1>4, <2>1
    <2>2. CASE ~Full
      BY <1>1, <2>2 DEF Full
    <2> QED
      BY <2>1, <2>2
  <1>6. /\ free \in Seq(Buffers) /\ IsInjective(free)
        /\ ToSet(free) = (ToSet(freelist) \ {buf}) \cup (IF Full THEN {victim} ELSE {})
    <2>1. CASE Full
      <3>1. victim \in Buffers /\ victim \notin ToSet(Tail(freelist))
        BY <1>1, <1>3, <1>4, <2>1
      <3>2. /\ <<victim>> \o Tail(freelist) \in Seq(Buffers)
            /\ IsInjective(<<victim>> \o Tail(freelist))
            /\ ToSet(<<victim>> \o Tail(freelist)) = {victim} \cup ToSet(Tail(freelist))
        BY <1>3, <3>1, Pushed
      <3> QED
        BY <1>3, <2>1, <3>2
    <2>2. CASE ~Full
      BY <1>3, <2>2
    <2> QED
      BY <2>1, <2>2
  <1>7. lru' = <<buf>> \o kept /\ freelist' = free /\ returned' = buf /\ running' = running
    BY DEF Load, Released, buf, victim
  <1>8. data' = [(IF Full THEN [data EXCEPT ![victim] = NULL] ELSE data) EXCEPT ![buf] = k]
    BY DEF Load, Wiped, buf, victim
  <1>9. key' = [(IF Full THEN [key EXCEPT ![victim] = NULL] ELSE key) EXCEPT ![buf] = k]
    BY DEF Load, buf, victim
  <1>10. nodes' = [(IF Full THEN BucketsWithout(victim) ELSE nodes) EXCEPT ![hash[k]] = buf]
    BY DEF Load, buf, victim
  <1> HIDE DEF kept, free
  <1>11. buf \in Buffers /\ buf \notin ToSet(kept) /\ buf \notin ToSet(lru)
    BY <1>1, <1>3, <1>5
  <1>12. /\ lru' \in Seq(Buffers) /\ Len(lru') = Len(kept) + 1 /\ IsInjective(lru')
         /\ ToSet(lru') = {buf} \cup ToSet(kept)
    BY <1>5, <1>7, <1>11, Pushed
  <1>13. /\ freelist' \in Seq(Buffers) /\ IsInjective(freelist')
         /\ ToSet(freelist') = (ToSet(freelist) \ {buf}) \cup (IF Full THEN {victim} ELSE {})
    BY <1>6, <1>7
  <1>14. hash[k] \in Buckets /\ hash \in [Keys -> Buckets] /\ NULL \notin Keys
    BY CacheAssumption DEF Buckets
  <1>15. Full => victim \in Buffers /\ victim \in ToSet(lru) /\ victim # buf
    BY <1>1, <1>4, <1>11
  <1>16. /\ data \in [Buffers -> Keys \cup {NULL}] /\ key \in [Buffers -> Keys \cup {NULL}]
         /\ nodes \in [Buckets -> Buffers \cup {NULL}]
    BY DEF Inv, TypeOK
  <1>17. /\ nodes' \in [Buckets -> Buffers \cup {NULL}]
         /\ \A h \in Buckets :
               nodes'[h] = IF h = hash[k] THEN buf
                           ELSE IF Full /\ h = hash[key[victim]] /\ nodes[h] = victim THEN NULL
                           ELSE nodes[h]
    BY <1>10, <1>11, <1>14, <1>16 DEF BucketsWithout
  <1>18. /\ data' \in [Buffers -> Keys \cup {NULL}]
         /\ \A b \in Buffers : data'[b] = IF b = buf THEN k
                                          ELSE IF Full /\ b = victim THEN NULL ELSE data[b]
    BY <1>8, <1>11, <1>15, <1>16
  <1>19. /\ key' \in [Buffers -> Keys \cup {NULL}]
         /\ \A b \in Buffers : key'[b] = IF b = buf THEN k
                                         ELSE IF Full /\ b = victim THEN NULL ELSE key[b]
    BY <1>9, <1>11, <1>15, <1>16
  <1>20. TypeOK'
    <2>1. Len(lru') <= CACHE_SIZE
      BY <1>1, <1>5, <1>12
    <2> QED
      BY <1>7, <1>11, <1>12, <1>13, <1>17, <1>18, <1>19, <2>1 DEF Inv, TypeOK
  <1>21. ListsOK'
    <2>1. ToSet(freelist') \cap ToSet(lru') = {}
      BY <1>1, <1>5, <1>11, <1>12, <1>13, <1>15
    <2>2. ToSet(freelist') \cup ToSet(lru') = Buffers
      BY <1>1, <1>3, <1>5, <1>12, <1>13, <1>15
    <2> QED
      BY <1>12, <1>13, <2>1, <2>2 DEF ListsOK
  <1>22. BucketsAlive'
    <2> SUFFICES ASSUME NEW h \in Buckets, nodes'[h] # NULL
                 PROVE  nodes'[h] \in ToSet(lru') /\ hash[key'[nodes'[h]]] = h
      BY DEF BucketsAlive
    <2>1. CASE h = hash[k]
      BY <1>11, <1>12, <1>17, <1>19, <2>1
    <2>2. CASE h # hash[k]
      <3>1. nodes'[h] = nodes[h] /\ nodes[h] # NULL
        BY <1>17, <2>2
      <3>2. nodes[h] \in ToSet(lru) /\ hash[key[nodes[h]]] = h
        BY <3>1 DEF Inv, BucketsAlive
      <3>3. ~(Full /\ nodes[h] = victim)
        BY <1>17, <2>2, <3>1, <3>2
      <3>4. nodes[h] \in ToSet(kept) /\ nodes[h] # buf /\ nodes[h] \in Buffers
        BY <1>1, <1>5, <1>11, <3>2, <3>3
      <3> QED
        BY <1>12, <1>19, <3>1, <3>2, <3>3, <3>4
    <2> QED
      BY <2>1, <2>2
  <1>23. DataMatchesKey'
    <2>1. ASSUME NEW b \in ToSet(lru') PROVE data'[b] = key'[b] /\ data'[b] \in Keys
      <3>1. CASE b = buf
        BY <1>11, <1>18, <1>19, <3>1
      <3>2. CASE b # buf
        <4>1. b \in ToSet(lru) /\ b \in Buffers /\ ~(Full /\ b = victim)
          BY <1>1, <1>5, <1>12, <2>1, <3>2
        <4>2. data[b] = key[b] /\ data[b] \in Keys
          BY <4>1 DEF Inv, DataMatchesKey
        <4> QED
          BY <1>18, <1>19, <3>2, <4>1, <4>2
      <3> QED
        BY <3>1, <3>2
    <2>2. ASSUME NEW b \in ToSet(freelist') PROVE data'[b] = NULL
      <3>1. CASE Full /\ b = victim
        BY <1>15, <1>18, <3>1
      <3>2. CASE ~(Full /\ b = victim)
        <4>1. b \in ToSet(freelist) /\ b # buf /\ b \in Buffers
          BY <1>1, <1>13, <2>2, <3>2
        <4>2. data[b] = NULL
          BY <4>1 DEF Inv, DataMatchesKey
        <4> QED
          BY <1>18, <3>2, <4>1, <4>2
      <3> QED
        BY <3>1, <3>2
    <2> QED
      BY <2>1, <2>2 DEF DataMatchesKey
  <1> QED
    BY <1>20, <1>21, <1>22, <1>23 DEF Inv

\* The end of main (lines 338-346) gives every cached buffer back, once.
LEMMA CleanupNext ==
  ASSUME Inv, Cleanup
  PROVE  Inv'
  <1>1. /\ freelist \in Seq(Buffers) /\ lru \in Seq(Buffers)
        /\ data \in [Buffers -> Keys \cup {NULL}]
        /\ IsInjective(freelist) /\ IsInjective(lru)
        /\ ToSet(freelist) \cap ToSet(lru) = {}
        /\ ToSet(freelist) \cup ToSet(lru) = Buffers
    BY DEF Inv, TypeOK, ListsOK
  <1> DEFINE back == Reverse(lru)
  <1>2. back \in Seq(Buffers) /\ IsInjective(back) /\ ToSet(back) = ToSet(lru)
    BY <1>1, Backwards
  <1>3. freelist' = back \o freelist
    BY DEF Cleanup
  <1> HIDE DEF back
  <1>4. /\ freelist' \in Seq(Buffers) /\ IsInjective(freelist')
        /\ ToSet(freelist') = Buffers
    <2>1. /\ back \o freelist \in Seq(Buffers)
          /\ ToSet(back \o freelist) = ToSet(back) \cup ToSet(freelist)
          /\ IsInjective(back \o freelist)
               <=> IsInjective(back) /\ IsInjective(freelist)
                   /\ ToSet(back) \cap ToSet(freelist) = {}
      BY <1>1, <1>2, Joined
    <2>2. ToSet(back) \cap ToSet(freelist) = {} /\ ToSet(back) \cup ToSet(freelist) = Buffers
      BY <1>1, <1>2
    <2> QED
      BY <1>1, <1>2, <1>3, <2>1, <2>2
  <1>5. /\ lru' = <<>> /\ returned' = NULL /\ running' = FALSE
        /\ key' = [b \in Buffers |-> NULL] /\ nodes' = [h \in Buckets |-> NULL]
        /\ data' = [b \in Buffers |-> IF b \in ToSet(lru) THEN NULL ELSE data[b]]
    BY DEF Cleanup
  <1>6. /\ lru' \in Seq(Buffers) /\ Len(lru') = 0 /\ ToSet(lru') = {} /\ IsInjective(lru')
    <2>1. /\ <<>> \in Seq(Buffers) /\ Len(<<>>) = 0
          /\ ToSet(<<>>) = {} /\ IsInjective(<<>>)
      BY EmptySeq DEF ToSet, IsInjective
    <2> QED
      BY <1>5, <2>1
  <1>7. TypeOK'
    <2>1. Len(lru') <= CACHE_SIZE
      BY <1>6, CacheAssumption
    <2>2. /\ data' \in [Buffers -> Keys \cup {NULL}] /\ key' \in [Buffers -> Keys \cup {NULL}]
          /\ nodes' \in [Buckets -> Buffers \cup {NULL}]
      BY <1>1, <1>5
    <2> QED
      BY <1>4, <1>5, <1>6, <2>1, <2>2 DEF TypeOK
  <1>8. ListsOK'
    BY <1>4, <1>6 DEF ListsOK
  <1>9. BucketsAlive'
    BY <1>5 DEF BucketsAlive
  <1>10. DataMatchesKey'
    <2>1. ASSUME NEW b \in ToSet(freelist') PROVE data'[b] = NULL
      <3>1. b \in Buffers
        BY <1>4, <2>1
      <3>2. b \notin ToSet(lru) => data[b] = NULL
        BY <1>1, <3>1 DEF Inv, DataMatchesKey
      <3> QED
        BY <1>5, <3>1, <3>2
    <2> QED
      BY <1>6, <2>1 DEF DataMatchesKey
  <1> QED
    BY <1>7, <1>8, <1>9, <1>10 DEF Inv

\* The pool as createbufferpool (lines 64-91) leaves it.
LEMMA InitInv == Init => Inv
  <1> SUFFICES ASSUME Init PROVE Inv
    OBVIOUS
  <1>1. POOL_SIZE \in Nat /\ freelist = [n \in 1..POOL_SIZE |-> n - 1]
    BY CacheAssumption DEF Init
  <1>2. freelist \in Seq(Buffers) /\ Len(freelist) = POOL_SIZE
    <2>1. freelist \in [1..POOL_SIZE -> Buffers]
      BY <1>1 DEF Buffers
    <2> QED
      BY <1>1, <2>1, SeqDef
  <1>3. IsInjective(freelist)
    BY <1>1 DEF IsInjective
  <1>4. ToSet(freelist) = Buffers
    <2>1. \A x \in Buffers : x + 1 \in 1..POOL_SIZE /\ freelist[x + 1] = x
      BY <1>1 DEF Buffers
    <2>2. \A n \in 1..POOL_SIZE : freelist[n] \in Buffers
      BY <1>1 DEF Buffers
    <2>3. ToSet(freelist) = {freelist[n] : n \in 1..POOL_SIZE}
      BY <1>1 DEF ToSet
    <2> QED
      BY <2>1, <2>2, <2>3
  <1>5. /\ lru \in Seq(Buffers) /\ Len(lru) = 0 /\ ToSet(lru) = {} /\ IsInjective(lru)
    <2>1. /\ <<>> \in Seq(Buffers) /\ Len(<<>>) = 0
          /\ ToSet(<<>>) = {} /\ IsInjective(<<>>)
      BY EmptySeq DEF ToSet, IsInjective
    <2> QED
      BY <2>1 DEF Init
  <1>6. TypeOK
    BY <1>2, <1>5, CacheAssumption DEF Init, TypeOK
  <1>7. ListsOK
    BY <1>3, <1>4, <1>5 DEF ListsOK
  <1>8. BucketsAlive /\ DataMatchesKey
    BY <1>4, <1>5 DEF Init, BucketsAlive, DataMatchesKey
  <1> QED
    BY <1>6, <1>7, <1>8 DEF Inv
-----------------------------------------------------------------------------
LEMMA InvHolds == Spec => []Inv
  <1>1. Inv /\ [Next]_vars => Inv'
    <2> SUFFICES ASSUME Inv, [Next]_vars PROVE Inv'
      OBVIOUS
    <2>1. CASE Cleanup
      BY <2>1, CleanupNext
    <2>2. ASSUME NEW k \in Keys, Files(k) PROVE Inv'
      <3>1. CASE Hit(k)
        BY <3>1, HitNext
      <3>2. CASE Load(k)
        BY <3>2, LoadNext
      <3>3. CASE Exhausted(k)
        BY <3>3 DEF Exhausted, Inv, TypeOK, ListsOK, BucketsAlive, DataMatchesKey
      <3> QED
        BY <2>2, <3>1, <3>2, <3>3 DEF Files
    <2>3. CASE UNCHANGED vars
      BY <2>3 DEF vars, Inv, TypeOK, ListsOK, BucketsAlive, DataMatchesKey
    <2> QED
      BY <2>1, <2>2, <2>3 DEF Next, Exited
  <1> QED
    BY <1>1, InitInv, PTL DEF Spec

\* Every reachable state is well typed; the cache never holds more nodes than
\* its capacity (line 255).
THEOREM TypeCorrect == Spec => []TypeOK
  BY InvHolds, PTL DEF Inv

\* Whatever is asked for in whatever order, no buffer is leaked, freed twice
\* or owned by two nodes, the cleanup of main included.
THEOREM BuffersAreConserved == Spec => []BuffersConserved
  <1>1. Inv => BuffersConserved
    BY ListsConserve DEF Inv
  <1> QED
    BY <1>1, InvHolds, PTL

\* Eviction leaves no bucket with a pointer to the node it frees (lines
\* 260-267), although it looks at one bucket only.
THEOREM BucketsStayAlive == Spec => []BucketsAlive
  BY InvHolds, PTL DEF Inv

\* The buffer of a node holds the block of the node's key, and a buffer that
\* acquire_buffer may hand out is wiped.
THEOREM ReadsTheRightBlock == Spec => []DataMatchesKey
  BY InvHolds, PTL DEF Inv
=============================================================================
