--------------------------- MODULE ProcessesProofs ---------------------------
(***************************************************************************)
(* Proofs about the programs of the module MCProcesses, for every value of *)
(* the constants.  A program that is not the one started stands still, so  *)
(* each is proved about on its own, from its own steps.                    *)
(***************************************************************************)
EXTENDS MCProcesses, SequenceTheorems, FiniteSetTheorems, NaturalsInduction,
        WellFoundedInduction, TLAPS

\* A step of the collection is a step of each program, or leaves it alone.
LEMMA OneProgramMoves ==
  ASSUME [Next]_vars
  PROVE  /\ [Copy!Next]_copyVars
         /\ [Transfer!Next]_transferVars
         /\ [Merge!Next]_mergeVars
         /\ [Mini!Next]_miniVars
         /\ [Jobs!Next]_jobVars
         /\ [Filter!Next]_filterVars
         /\ [Words!Next]_wordVars
         /\ [Counters!Next]_countVars
  BY DEF Next, vars
-----------------------------------------------------------------------------
(***************************************************************************)
(* The search of src/filtering.c.                                          *)
(***************************************************************************)
\* What the loop of binarysearch keeps: below left nothing matches, above
\* right everything does, and result is the index behind right unless
\* nothing has matched yet.
Matching == {n \in Filter!Indices : Filter!Matches(records[n])}

Agreed == searching # "linear" => printed = {records[n].id : n \in Matching}

Narrowed ==
    searching \in {"search", "done"} =>
        /\ \A n, m \in Filter!Indices : n < m => records[n].age <= records[m].age
        /\ \A n \in Filter!Indices : n < left => ~Filter!Matches(records[n])
        /\ \A n \in Filter!Indices : n > right => Filter!Matches(records[n])
        /\ left <= right + 1
        /\ result = -1 => right = num_records - 1
        /\ result # -1 => result = right + 1
        /\ searching = "done" => left > right

FilterInv == Filter!TypeOK /\ Agreed /\ Narrowed

\* The middle index lies between the ends, so every access is in the table
\* and every iteration narrows the range (line 50).
LEMMA MidInside ==
    ASSUME left \in Int, right \in Int, left <= right
    PROVE  Filter!mid \in Int /\ left <= Filter!mid /\ Filter!mid <= right
  BY DEF Filter!mid

\* The initial state satisfies the invariant.
LEMMA FilterInit == ASSUME Filter!SizesOK, Filter!Init PROVE FilterInv
  <1>1. records \in [Filter!Indices -> Filter!Record]
    BY DEF Filter!Init, Filter!Record, Filter!Indices, Filter!SizesOK
  <1> QED
    BY <1>1 DEF Filter!Init, FilterInv, Filter!TypeOK, Agreed, Narrowed, Filter!SizesOK

\* Every step keeps the types.
LEMMA FilterTypes == ASSUME Filter!SizesOK, FilterInv, [Filter!Next]_filterVars PROVE Filter!TypeOK'
  <1> USE DEF Filter!SizesOK, Filter!Indices
  <1>1. CASE Filter!linearsearch
    BY <1>1 DEF Filter!linearsearch, FilterInv, Filter!TypeOK
  <1>2. CASE Filter!SortByAge
    <2>1. PICK f \in [Filter!Indices -> Filter!Indices] :
            records' = [n \in Filter!Indices |-> records[f[n]]]
      BY <1>2 DEF Filter!SortByAge, Filter!Permuted
    <2>2. records' \in [Filter!Indices -> Filter!Record]
      BY <2>1 DEF FilterInv, Filter!TypeOK
    <2> QED
      BY <1>2, <2>2 DEF Filter!SortByAge, Filter!TypeOK
  <1>3. CASE Filter!binarysearch
    <2>1. Filter!mid \in left..right
      BY <1>3, MidInside DEF Filter!binarysearch, FilterInv, Filter!TypeOK
    <2> QED
      BY <1>3, <2>1 DEF Filter!binarysearch, FilterInv, Filter!TypeOK
  <1>4. CASE Filter!Finish
    BY <1>4 DEF Filter!Finish, FilterInv, Filter!TypeOK
  <1>5. CASE UNCHANGED filterVars
    BY <1>5 DEF filterVars, FilterInv, Filter!TypeOK
  <1> QED
    BY <1>1, <1>2, <1>3, <1>4, <1>5 DEF Filter!Next

\* The sort keeps the records, so what the linear search printed stays the
\* set of matching ids.
LEMMA FilterAgrees == ASSUME Filter!SizesOK, FilterInv, [Filter!Next]_filterVars PROVE Agreed'
  <1>1. CASE Filter!linearsearch
    BY <1>1 DEF Filter!linearsearch, Agreed, Matching, Filter!Matches
  <1>2. CASE Filter!SortByAge
    <2>1. PICK f \in Filter!Permuted : records' = [n \in Filter!Indices |-> records[f[n]]]
      BY <1>2 DEF Filter!SortByAge
    <2>2. printed = {records[n].id : n \in Matching}
      BY <1>2 DEF Filter!SortByAge, FilterInv, Agreed
    <2>3. {records'[n].id : n \in Matching'} = {records[n].id : n \in Matching}
      <3>1. ASSUME NEW n \in Matching' PROVE \E m \in Matching : records[m].id = records'[n].id
        BY <2>1 DEF Matching, Filter!Matches, Filter!Permuted
      <3>2. ASSUME NEW m \in Matching PROVE \E n \in Matching' : records'[n].id = records[m].id
        BY <2>1 DEF Matching, Filter!Matches, Filter!Permuted
      <3> QED
        BY <3>1, <3>2
    <2> QED
      BY <1>2, <2>2, <2>3 DEF Filter!SortByAge, Agreed
  <1>3. CASE Filter!binarysearch
    BY <1>3 DEF Filter!binarysearch, FilterInv, Agreed, Matching, Filter!Matches
  <1>4. CASE Filter!Finish
    BY <1>4 DEF Filter!Finish, FilterInv, Agreed, Matching, Filter!Matches
  <1>5. CASE UNCHANGED filterVars
    BY <1>5 DEF filterVars, FilterInv, Agreed, Matching, Filter!Matches
  <1> QED
    BY <1>1, <1>2, <1>3, <1>4, <1>5 DEF Filter!Next

\* Every iteration keeps the two halves separated.
LEMMA FilterNarrows == ASSUME Filter!SizesOK, FilterInv, [Filter!Next]_filterVars PROVE Narrowed'
  <1> USE DEF Filter!SizesOK, Filter!Indices
  <1>1. CASE Filter!linearsearch
    BY <1>1 DEF Filter!linearsearch, Narrowed
  <1>2. CASE Filter!SortByAge
    <2>1. PICK f \in Filter!Permuted :
            /\ \A n, m \in Filter!Indices : n < m => records[f[n]].age <= records[f[m]].age
            /\ records' = [n \in Filter!Indices |-> records[f[n]]]
      BY <1>2 DEF Filter!SortByAge
    <2>2. \A n, m \in Filter!Indices : n < m => records'[n].age <= records'[m].age
      BY <2>1
    <2>3. left' = 0 /\ right' = num_records - 1 /\ result' = -1 /\ searching' = "search"
      BY <1>2 DEF Filter!SortByAge
    <2> QED
      BY <2>2, <2>3 DEF Narrowed
  <1>3. CASE Filter!binarysearch
    <2>1. Filter!mid \in left..right /\ Filter!mid \in Filter!Indices
      BY <1>3, MidInside DEF Filter!binarysearch, FilterInv, Filter!TypeOK
    <2>2. \A n \in Filter!Indices : records[n].age \in Int
      BY DEF FilterInv, Filter!TypeOK, Filter!Record
    <2>3. CASE Filter!Matches(records[Filter!mid])
      <3>1. \A n \in Filter!Indices : n > Filter!mid - 1 => Filter!Matches(records[n])
        BY <1>3, <2>1, <2>2, <2>3 DEF Filter!binarysearch, FilterInv, Narrowed, Filter!Matches
      <3> QED
        BY <1>3, <2>1, <2>3, <3>1 DEF Filter!binarysearch, FilterInv, Narrowed, Filter!TypeOK, Filter!Matches
    <2>4. CASE ~Filter!Matches(records[Filter!mid])
      <3>1. \A n \in Filter!Indices : n < Filter!mid + 1 => ~Filter!Matches(records[n])
        BY <1>3, <2>1, <2>2, <2>4 DEF Filter!binarysearch, FilterInv, Narrowed, Filter!Matches
      <3> QED
        BY <1>3, <2>1, <2>4, <3>1 DEF Filter!binarysearch, FilterInv, Narrowed, Filter!TypeOK, Filter!Matches
    <2> QED
      BY <2>3, <2>4
  <1>4. CASE Filter!Finish
    BY <1>4 DEF Filter!Finish, FilterInv, Narrowed, Filter!Matches
  <1>5. CASE UNCHANGED filterVars
    BY <1>5 DEF filterVars, FilterInv, Narrowed, Filter!Matches
  <1> QED
    BY <1>1, <1>2, <1>3, <1>4, <1>5 DEF Filter!Next

\* What the invariant says once the loop has ended.
LEMMA FilterGivesFirst == ASSUME Filter!SizesOK, FilterInv PROVE Filter!FirstFound
  <1> DEFINE from == IF result = -1 THEN num_records ELSE result
  <1> SUFFICES ASSUME searching = "done"
               PROVE  printed = {records[n].id : n \in {n \in Filter!Indices : n >= from}}
    BY DEF Filter!FirstFound
  <1>1. \A n \in Filter!Indices : Filter!Matches(records[n]) <=> n >= from
    BY DEF FilterInv, Narrowed, Filter!TypeOK, Filter!SizesOK, Filter!Indices
  <1>2. Matching = {n \in Filter!Indices : n >= from}
    BY <1>1 DEF Matching
  <1> QED
    BY <1>2 DEF FilterInv, Agreed

\* The binary search returns the first of the records that the linear search
\* printed, for every table, filter and order of records of the same age.
THEOREM SearchIsFirst == Spec => []FirstFound
  <1>1. Filter!SizesOK
    BY ConstantsAssumption
  <1>2. Init => FilterInv
    BY <1>1, FilterInit DEF Init
  <1>3. FilterInv /\ [Next]_vars => FilterInv'
    BY <1>1, OneProgramMoves, FilterTypes, FilterAgrees, FilterNarrows DEF FilterInv
  <1>4. FilterInv => FirstFound
    BY <1>1, FilterGivesFirst DEF FirstFound
  <1> QED
    BY <1>2, <1>3, <1>4, PTL DEF Spec
-----------------------------------------------------------------------------
(***************************************************************************)
(* The file copy of src/file-copy.c.                                       *)
(***************************************************************************)
\* dst holds the first bytes of the source and buf the ones read last; what
\* is between them was read before and is written.
CopyInv ==
    /\ Copy!TypeOK
    /\ size \in Nat
    /\ written <= Len(buf)
    /\ Len(dst) = offset - Len(buf) + written
    /\ \A b \in 1..Len(dst) : dst[b] = b
    /\ \A b \in 1..Len(buf) : buf[b] = offset - Len(buf) + b
    /\ copying = "read" => written = 0
    /\ copying \in {"sizes", "compare", "verified"} => offset = size /\ buf = <<>>
    /\ copying # "mismatch"

\* A step of read_all (lines 10-28).
LEMMA CopyReads ==
  ASSUME CopyInv, BUF \in Nat \ {0},
         NEW n \in 1..Copy!Least(BUF - Len(buf), size - offset), Copy!ReadSome(n)
  PROVE  CopyInv'
  <1> DEFINE part == SubSeq(Copy!Source, offset + 1, offset + n)
  <1>1. /\ size \in Nat /\ offset \in 0..size /\ buf \in Seq(1..size) /\ dst \in Seq(1..size)
        /\ Len(buf) \in Nat /\ Len(dst) \in Nat /\ Len(buf) <= BUF
    BY DEF CopyInv, Copy!TypeOK
  <1>2. n \in Nat /\ n >= 1 /\ n <= BUF - Len(buf) /\ n <= size - offset
    BY <1>1 DEF Copy!Least
  <1>3. part \in Seq(1..size) /\ Len(part) = n /\ \A b \in 1..n : part[b] = offset + b
    <2>1. offset + 1 \in Int /\ offset + n \in Int
      BY <1>1, <1>2
    <2>2. \A b \in (offset + 1)..(offset + n) : Copy!Source[b] = b /\ Copy!Source[b] \in 1..size
      BY <1>1, <1>2 DEF Copy!Source
    <2>3. /\ part \in Seq(1..size)
          /\ Len(part) = IF offset + 1 <= offset + n THEN (offset + n) - (offset + 1) + 1 ELSE 0
          /\ \A b \in 1..((offset + n) - (offset + 1) + 1) :
                part[b] = Copy!Source[(offset + 1) + b - 1]
      BY <2>1, <2>2, SubSeqProperties
    <2> HIDE DEF part
    <2>4. (offset + n) - (offset + 1) + 1 = n /\ offset + 1 <= offset + n
      BY <1>1, <1>2
    <2>5. ASSUME NEW b \in 1..n PROVE part[b] = offset + b
      <3>1. (offset + 1) + b - 1 = offset + b /\ offset + b \in (offset + 1)..(offset + n)
        BY <1>1, <1>2
      <3> QED
        BY <2>2, <2>3, <2>4, <3>1
    <2> QED
      BY <2>3, <2>4, <2>5
  <1>4. /\ buf' = buf \o part /\ offset' = offset + n /\ copying = "read"
        /\ copying' \in {"read", "write"}
        /\ size' = size /\ written' = written /\ dst' = dst
    BY DEF Copy!ReadSome
  <1> HIDE DEF part
  <1>5. /\ buf' \in Seq(1..size) /\ Len(buf') = Len(buf) + n
        /\ \A b \in 1..(Len(buf) + n) :
              buf'[b] = IF b <= Len(buf) THEN buf[b] ELSE part[b - Len(buf)]
    BY <1>1, <1>3, <1>4, ConcatProperties
  <1>6. Copy!TypeOK'
    BY <1>1, <1>2, <1>4, <1>5 DEF CopyInv, Copy!TypeOK
  <1>7. written = 0 /\ Len(dst) = offset - Len(buf) + written
    BY <1>4 DEF CopyInv
  <1>8. ASSUME NEW b \in 1..Len(buf') PROVE buf'[b] = offset' - Len(buf') + b
    <2>1. offset' - Len(buf') = offset - Len(buf)
      BY <1>1, <1>2, <1>4, <1>5
    <2>2. CASE b <= Len(buf)
      <3>1. b \in 1..Len(buf) /\ b \in 1..(Len(buf) + n)
        BY <1>1, <1>2, <2>2
      <3>2. buf'[b] = buf[b]
        BY <1>5, <2>2, <3>1
      <3>3. buf[b] = offset - Len(buf) + b
        BY <3>1 DEF CopyInv
      <3> QED
        BY <2>1, <3>2, <3>3
    <2>3. CASE ~(b <= Len(buf))
      <3>1. b - Len(buf) \in 1..n
        BY <1>1, <1>2, <1>5, <2>3
      <3>2. buf'[b] = offset + (b - Len(buf))
        BY <1>1, <1>2, <1>3, <1>5, <2>3, <3>1
      <3> QED
        BY <1>1, <1>2, <2>1, <3>1, <3>2
    <2> QED
      BY <2>2, <2>3
  <1>9. Len(dst') = offset' - Len(buf') + written' /\ written' <= Len(buf')
    BY <1>1, <1>2, <1>4, <1>5, <1>7
  <1> QED
    BY <1>1, <1>4, <1>6, <1>7, <1>8, <1>9 DEF CopyInv

\* A step of write_all (lines 30-47).
LEMMA CopyWrites ==
  ASSUME CopyInv, NEW n \in 1..(Len(buf) - written), Copy!WriteSome(n)
  PROVE  CopyInv'
  <1> DEFINE out1 == SubSeq(buf, written + 1, written + n)
  <1>1. /\ size \in Nat /\ offset \in 0..size /\ buf \in Seq(1..size) /\ dst \in Seq(1..size)
        /\ Len(buf) \in Nat /\ Len(dst) \in Nat /\ Len(buf) <= BUF /\ written \in Nat
        /\ written <= Len(buf) /\ Len(dst) = offset - Len(buf) + written
        /\ \A b \in 1..Len(dst) : dst[b] = b
        /\ \A b \in 1..Len(buf) : buf[b] = offset - Len(buf) + b
    BY DEF CopyInv, Copy!TypeOK
  <1>2. n \in Nat /\ n >= 1 /\ written + n <= Len(buf)
    BY <1>1
  <1>3. /\ out1 \in Seq(1..size) /\ Len(out1) = n
        /\ \A b \in 1..n : out1[b] = Len(dst) + b
    <2>1. written + 1 \in Int /\ written + n \in Int
      BY <1>1, <1>2
    <2>2. \A b \in (written + 1)..(written + n) : buf[b] \in 1..size
      BY <1>1, <1>2, ElementOfSeq
    <2>3. /\ out1 \in Seq(1..size)
          /\ Len(out1) = IF written + 1 <= written + n
                           THEN (written + n) - (written + 1) + 1 ELSE 0
          /\ \A b \in 1..((written + n) - (written + 1) + 1) : out1[b] = buf[(written + 1) + b - 1]
      BY <2>1, <2>2, SubSeqProperties
    <2> HIDE DEF out1
    <2>4. (written + n) - (written + 1) + 1 = n /\ written + 1 <= written + n
      BY <1>1, <1>2
    <2>5. ASSUME NEW b \in 1..n PROVE out1[b] = Len(dst) + b
      <3>1. (written + 1) + b - 1 = written + b /\ written + b \in 1..Len(buf)
        BY <1>1, <1>2
      <3>2. out1[b] = buf[written + b]
        BY <2>3, <2>4, <3>1
      <3> QED
        BY <1>1, <3>1, <3>2
    <2> QED
      BY <2>3, <2>4, <2>5
  <1>4. /\ dst' = dst \o out1 /\ copying = "write"
        /\ IF written + n = Len(buf) THEN copying' = "read" /\ buf' = <<>> /\ written' = 0
           ELSE written' = written + n /\ copying' = copying /\ buf' = buf
        /\ size' = size /\ offset' = offset
    BY DEF Copy!WriteSome
  <1> HIDE DEF out1
  <1>5. /\ dst' \in Seq(1..size) /\ Len(dst') = Len(dst) + n
        /\ \A b \in 1..(Len(dst) + n) :
              dst'[b] = IF b <= Len(dst) THEN dst[b] ELSE out1[b - Len(dst)]
    <2>1. dst \in Seq(1..size) /\ out1 \in Seq(1..size) /\ Len(out1) = n /\ dst' = dst \o out1
      BY <1>1, <1>3, <1>4
    <2> QED
      BY <2>1, ConcatProperties
  <1>6. ASSUME NEW b \in 1..Len(dst') PROVE dst'[b] = b
    <2>1. CASE b <= Len(dst)
      <3>1. b \in 1..Len(dst) /\ b \in 1..(Len(dst) + n)
        BY <1>1, <1>2, <2>1
      <3>2. dst'[b] = dst[b]
        BY <1>5, <2>1, <3>1
      <3> QED
        BY <1>1, <3>1, <3>2
    <2>2. CASE ~(b <= Len(dst))
      <3>1. b - Len(dst) \in 1..n
        BY <1>1, <1>2, <1>5, <2>2
      <3>2. dst'[b] = Len(dst) + (b - Len(dst))
        BY <1>1, <1>2, <1>3, <1>5, <2>2, <3>1
      <3> QED
        BY <1>1, <1>2, <3>1, <3>2
    <2> QED
      BY <2>1, <2>2
  <1>7. CASE written + n = Len(buf)
    <2>1. buf' = <<>> /\ written' = 0 /\ copying' = "read"
      BY <1>4, <1>7
    <2>2. buf' \in Seq(1..size) /\ Len(buf') = 0
      BY <2>1, EmptySeq
    <2>3. Len(dst') = offset' - Len(buf') + written'
      <3>1. /\ offset' = offset /\ Len(dst') = Len(dst) + n /\ Len(buf') = 0 /\ written' = 0
            /\ Len(dst) = offset - Len(buf) + written /\ written + n = Len(buf)
        BY <1>1, <1>4, <1>5, <1>7, <2>1, <2>2
      <3>2. {offset, Len(dst), Len(buf), written, n} \subseteq Int
        BY <1>1, <1>2
      <3> QED
        BY <3>1, <3>2
    <2>4. Copy!TypeOK'
      <3>1. BUF \in Nat
        BY ConstantsAssumption
      <3>2. size' = size /\ size \in Sizes /\ offset' = offset
        BY <1>4 DEF CopyInv, Copy!TypeOK
      <3>3. dst' \in Seq(1..size) /\ buf' \in Seq(1..size)
        BY <1>5, <2>2
      <3>4. 0 <= BUF /\ Len(buf') = 0 /\ written' \in 0..BUF
        BY <2>1, <2>2, <3>1
      <3> QED
        BY <1>1, <2>1, <3>2, <3>3, <3>4 DEF Copy!TypeOK
    <2> QED
      BY <1>1, <1>4, <1>6, <2>1, <2>2, <2>3, <2>4 DEF CopyInv
  <1>8. CASE written + n # Len(buf)
    <2>1. buf' = buf /\ written' = written + n /\ copying' = "write"
      BY <1>4, <1>8
    <2>2. Len(dst') = offset' - Len(buf') + written'
      <3>1. /\ offset' = offset /\ Len(dst') = Len(dst) + n /\ Len(buf') = Len(buf)
            /\ written' = written + n /\ Len(dst) = offset - Len(buf) + written
        BY <1>1, <1>4, <1>5, <2>1
      <3>2. {offset, Len(dst), Len(buf), written, n} \subseteq Int
        BY <1>1, <1>2
      <3> QED
        BY <3>1, <3>2
    <2>3. Copy!TypeOK'
      <3>1. BUF \in Nat
        BY ConstantsAssumption
      <3>2. size' = size /\ size \in Sizes /\ offset' = offset
        BY <1>4 DEF CopyInv, Copy!TypeOK
      <3>3. dst' \in Seq(1..size) /\ buf' \in Seq(1..size) /\ Len(buf') <= BUF
        BY <1>1, <1>5, <2>1
      <3>4. written' \in 0..BUF
        BY <1>1, <1>2, <2>1, <3>1
      <3> QED
        BY <1>1, <2>1, <3>2, <3>3, <3>4 DEF Copy!TypeOK
    <2> QED
      BY <1>1, <1>2, <1>4, <1>6, <2>1, <2>2, <2>3 DEF CopyInv
  <1> QED
    BY <1>7, <1>8

LEMMA CopyNext == CopyInv /\ [Copy!Next]_copyVars => CopyInv'
  <1> SUFFICES ASSUME CopyInv, [Copy!Next]_copyVars PROVE CopyInv'
    OBVIOUS
  <1>1. BUF \in Nat \ {0}
    BY ConstantsAssumption
  <1>2. ASSUME NEW n \in 1..Copy!Least(BUF - Len(buf), size - offset), Copy!ReadSome(n)
        PROVE  CopyInv'
    BY <1>1, <1>2, CopyReads
  <1>3. ASSUME NEW n \in 1..(Len(buf) - written), Copy!WriteSome(n) PROVE CopyInv'
    BY <1>3, CopyWrites
  <1>4. CASE Copy!ReadEnd
    <2>1. written = 0 /\ copying' \in {"sizes", "write"} /\ (copying' = "sizes" => buf = <<>>)
      BY <1>4 DEF Copy!ReadEnd, CopyInv
    <2> QED
      BY <1>4, <2>1 DEF Copy!ReadEnd, CopyInv, Copy!TypeOK
  <1>5. CASE Copy!Fail
    BY <1>5 DEF Copy!Fail, CopyInv, Copy!TypeOK
  <1>6. CASE Copy!CompareSizes
    <2>1. buf = <<>> /\ offset = size /\ copying = "sizes"
      BY <1>6 DEF Copy!CompareSizes, CopyInv
    <2>2. Len(buf) = 0
      BY <2>1
    <2>3. written = 0 /\ Len(dst) = size
      BY <2>1, <2>2 DEF CopyInv, Copy!TypeOK
    <2> QED
      BY <1>6, <2>1, <2>3 DEF Copy!CompareSizes, CopyInv, Copy!TypeOK
  <1>7. CASE Copy!CompareBytes
    BY <1>7 DEF Copy!CompareBytes, CopyInv, Copy!TypeOK
  <1>8. CASE UNCHANGED copyVars
    BY <1>8 DEF copyVars, CopyInv, Copy!TypeOK
  <1> QED
    BY <1>2, <1>3, <1>4, <1>5, <1>6, <1>7, <1>8 DEF Copy!Next

LEMMA CopyInit == Init => CopyInv
  <1> SUFFICES ASSUME Init PROVE CopyInv
    OBVIOUS
  <1>1. /\ size \in Sizes /\ copying = "read" /\ offset = 0 /\ buf = <<>> /\ written = 0
        /\ dst = <<>>
    BY DEF Init, Copy!Init
  <1>2. size \in Nat /\ BUF \in Nat
    BY <1>1, ConstantsAssumption
  <1>3. /\ buf \in Seq(1..size) /\ dst \in Seq(1..size) /\ Len(buf) = 0 /\ Len(dst) = 0
    BY <1>1, EmptySeq
  <1>4. Copy!TypeOK
    BY <1>1, <1>2, <1>3 DEF Copy!TypeOK
  <1>5. Len(dst) = offset - Len(buf) + written /\ written <= Len(buf)
    <2>1. offset = 0 /\ written = 0 /\ Len(buf) = 0 /\ Len(dst) = 0
      BY <1>1, <1>3
    <2> QED
      BY <2>1
  <1>6. (\A b \in 1..Len(dst) : dst[b] = b) /\ \A b \in 1..Len(buf) : buf[b] = offset - Len(buf) + b
    BY <1>3
  <1> QED
    BY <1>1, <1>2, <1>3, <1>4, <1>5, <1>6 DEF CopyInv

LEMMA CopyGivesExact == CopyInv => Copy!CopyExact
  <1> SUFFICES ASSUME CopyInv PROVE Copy!CopyExact
    OBVIOUS
  <1> DEFINE src  == Copy!Source
             rest == SubSeq(buf, written + 1, Len(buf))
             all  == dst \o rest
             read == SubSeq(src, 1, offset)
  <1>1. /\ size \in Nat /\ offset \in 0..size /\ buf \in Seq(1..size) /\ dst \in Seq(1..size)
        /\ Len(buf) \in Nat /\ Len(dst) \in Nat /\ written \in Nat
        /\ written <= Len(buf) /\ Len(dst) = offset - Len(buf) + written
        /\ \A b \in 1..Len(dst) : dst[b] = b
        /\ \A b \in 1..Len(buf) : buf[b] = offset - Len(buf) + b
    BY DEF CopyInv, Copy!TypeOK
  <1>2. src \in Seq(1..size) /\ Len(src) = size /\ \A b \in 1..size : src[b] = b
    <2>1. src \in [1..size -> 1..size] /\ \A b \in 1..size : src[b] = b
      BY <1>1 DEF Copy!Source
    <2> HIDE DEF src
    <2> QED
      BY <1>1, <2>1, SeqDef
  <1> HIDE DEF src
  <1>3. /\ read \in Seq(1..size) /\ Len(read) = offset /\ \A b \in 1..offset : read[b] = b
    <2>1. offset \in Int /\ \A b \in 1..offset : src[b] \in 1..size
      BY <1>1, <1>2
    <2>2. /\ read \in Seq(1..size) /\ Len(read) = IF 1 <= offset THEN offset - 1 + 1 ELSE 0
          /\ \A b \in 1..(offset - 1 + 1) : read[b] = src[1 + b - 1]
      BY <2>1, SubSeqProperties
    <2> HIDE DEF read
    <2> QED
      BY <1>1, <1>2, <2>2
  <1>4. /\ rest \in Seq(1..size) /\ Len(rest) = Len(buf) - written
        /\ \A b \in 1..(Len(buf) - written) : rest[b] = buf[written + b]
    <2>1. written + 1 \in Int /\ Len(buf) \in Int
          /\ \A b \in (written + 1)..Len(buf) : buf[b] \in 1..size
      BY <1>1, ElementOfSeq
    <2>2. /\ rest \in Seq(1..size)
          /\ Len(rest) = IF written + 1 <= Len(buf) THEN Len(buf) - (written + 1) + 1 ELSE 0
          /\ \A b \in 1..(Len(buf) - (written + 1) + 1) : rest[b] = buf[(written + 1) + b - 1]
      BY <2>1, SubSeqProperties
    <2> HIDE DEF rest
    <2> QED
      BY <1>1, <2>2
  <1> HIDE DEF read, rest
  <1>5. /\ all \in Seq(1..size) /\ Len(all) = Len(dst) + Len(rest)
        /\ \A b \in 1..(Len(dst) + Len(rest)) :
              all[b] = IF b <= Len(dst) THEN dst[b] ELSE rest[b - Len(dst)]
    BY <1>1, <1>4, ConcatProperties
  <1> HIDE DEF all
  <1>6. Len(all) = offset
    BY <1>1, <1>4, <1>5
  <1>7. ASSUME NEW b \in 1..Len(all) PROVE all[b] = b
    <2>1. CASE b <= Len(dst)
      <3>1. b \in 1..Len(dst)
        BY <1>1, <2>1
      <3>2. all[b] = dst[b]
        BY <1>5, <2>1
      <3> QED
        BY <1>1, <3>1, <3>2
    <2>2. CASE ~(b <= Len(dst))
      <3>1. b - Len(dst) \in 1..(Len(buf) - written) /\ b <= offset
        BY <1>1, <1>4, <1>5, <1>6, <2>2
      <3>2. all[b] = rest[b - Len(dst)]
        BY <1>5, <2>2
      <3>3. rest[b - Len(dst)] = buf[written + (b - Len(dst))]
        BY <1>4, <3>1
      <3>4. written + (b - Len(dst)) \in 1..Len(buf)
        BY <1>1, <3>1
      <3>5. buf[written + (b - Len(dst))] = offset - Len(buf) + (written + (b - Len(dst)))
        BY <1>1, <3>4
      <3> QED
        BY <1>1, <3>1, <3>2, <3>3, <3>5
    <2> QED
      BY <2>1, <2>2
  <1>8. all = read
    <2>1. Len(all) = Len(read) /\ \A b \in 1..Len(all) : all[b] = read[b]
      BY <1>3, <1>6, <1>7
    <2> QED
      BY <1>3, <1>5, <2>1, SeqEqual
  <1>9. ASSUME copying \in {"compare", "verified"} PROVE dst = src
    <2>1. buf = <<>> /\ offset = size
      BY <1>9 DEF CopyInv
    <2>2. Len(dst) = size
      <3>1. Len(buf) = 0
        BY <2>1
      <3> QED
        BY <1>1, <2>1, <3>1
    <2>3. Len(dst) = Len(src) /\ \A b \in 1..Len(dst) : dst[b] = src[b]
      BY <1>1, <1>2, <2>2
    <2> QED
      BY <1>1, <1>2, <2>3, SeqEqual
  <1> QED
    BY <1>8, <1>9 DEF Copy!CopyExact, CopyInv, all, read, rest, src
-----------------------------------------------------------------------------
(***************************************************************************)
(* The transfer of src/file-transfer.                                      *)
(***************************************************************************)
\* The first n elements of a sequence, and the others.
LEMMA Taken ==
  ASSUME NEW S, NEW s \in Seq(S), NEW n \in 0..Len(s)
  PROVE  /\ SubSeq(s, 1, n) \in Seq(S) /\ Len(SubSeq(s, 1, n)) = n
         /\ \A b \in 1..n : SubSeq(s, 1, n)[b] = s[b]
  <1>1. Len(s) \in Nat /\ n \in Nat /\ \A b \in 1..n : s[b] \in S
    BY LenProperties, ElementOfSeq
  <1>2. /\ SubSeq(s, 1, n) \in Seq(S)
        /\ Len(SubSeq(s, 1, n)) = IF 1 <= n THEN n - 1 + 1 ELSE 0
        /\ \A b \in 1..(n - 1 + 1) : SubSeq(s, 1, n)[b] = s[1 + b - 1]
    BY <1>1, SubSeqProperties
  <1> DEFINE t == SubSeq(s, 1, n)
  <1> HIDE DEF t
  <1>3. /\ t \in Seq(S) /\ Len(t) = IF 1 <= n THEN n - 1 + 1 ELSE 0
        /\ \A b \in 1..(n - 1 + 1) : t[b] = s[1 + b - 1]
    BY <1>2 DEF t
  <1>4. t \in Seq(S) /\ Len(t) = n /\ \A b \in 1..n : t[b] = s[b]
    BY <1>1, <1>3
  <1> QED
    BY <1>4 DEF t

LEMMA Dropped ==
  ASSUME NEW S, NEW s \in Seq(S), NEW n \in 0..Len(s)
  PROVE  /\ SubSeq(s, n + 1, Len(s)) \in Seq(S) /\ Len(SubSeq(s, n + 1, Len(s))) = Len(s) - n
         /\ \A b \in 1..(Len(s) - n) : SubSeq(s, n + 1, Len(s))[b] = s[n + b]
  <1>1. Len(s) \in Nat /\ n \in Nat /\ n + 1 \in Int /\ \A b \in (n + 1)..Len(s) : s[b] \in S
    BY LenProperties, ElementOfSeq
  <1> DEFINE l == Len(s)
             t == SubSeq(s, n + 1, l)
  <1>2. /\ t \in Seq(S) /\ Len(t) = IF n + 1 <= l THEN l - (n + 1) + 1 ELSE 0
        /\ \A b \in 1..(l - (n + 1) + 1) : t[b] = s[(n + 1) + b - 1]
    BY <1>1, SubSeqProperties
  <1>3. l \in Nat /\ n \in Nat /\ n <= l
    BY <1>1
  <1> HIDE DEF t, l
  <1>4. t \in Seq(S) /\ Len(t) = l - n /\ \A b \in 1..(l - n) : t[b] = s[n + b]
    BY <1>2, <1>3
  <1> QED
    BY <1>4 DEF t, l

\* If f is what t holds behind position r, and g what it holds behind that,
\* so are the two together.
LEMMA StreamGrows ==
  ASSUME NEW S, NEW f \in Seq(S), NEW g \in Seq(S), NEW t, NEW r \in Nat,
         \A b \in 1..Len(f) : f[b] = t[r + b],
         \A b \in 1..Len(g) : g[b] = t[r + Len(f) + b]
  PROVE  /\ f \o g \in Seq(S) /\ Len(f \o g) = Len(f) + Len(g)
         /\ \A b \in 1..(Len(f) + Len(g)) : (f \o g)[b] = t[r + b]
  <1>1. Len(f) \in Nat /\ Len(g) \in Nat
    BY LenProperties
  <1>2. /\ f \o g \in Seq(S) /\ Len(f \o g) = Len(f) + Len(g)
        /\ \A b \in 1..(Len(f) + Len(g)) : (f \o g)[b] = IF b <= Len(f) THEN f[b] ELSE g[b - Len(f)]
    BY ConcatProperties
  <1>3. ASSUME NEW b \in 1..(Len(f) + Len(g)) PROVE (f \o g)[b] = t[r + b]
    <2>1. CASE b <= Len(f)
      <3>1. b \in 1..Len(f)
        BY <1>1, <2>1
      <3>2. (f \o g)[b] = f[b]
        BY <1>2, <2>1
      <3> QED
        BY <3>1, <3>2
    <2>2. CASE ~(b <= Len(f))
      <3>1. b - Len(f) \in 1..Len(g) /\ r + Len(f) + (b - Len(f)) = r + b
        BY <1>1, <2>2
      <3>2. (f \o g)[b] = g[b - Len(f)]
        BY <1>2, <2>2
      <3>3. g[b - Len(f)] = t[r + Len(f) + (b - Len(f))]
        BY <3>1
      <3> QED
        BY <3>1, <3>2, <3>3
    <2> QED
      BY <2>1, <2>2
  <1> QED
    BY <1>2, <1>3

\* The characters of files and marker, and what a buffer holds at first.
Chars == STRING \cup {"E", "O", "F", "0", "?"}

\* All that the sender writes, and how much of it is written.
Stream == file \o Transfer!Marker
Sent   == IF sender = "waiting" THEN Len(Stream) ELSE sent

\* What the receiver has is a beginning of the stream, and what is in the
\* FIFO comes behind it, up to what the sender has written.
TransferInv ==
    /\ Transfer!TypeOK
    /\ file \in Seq(Chars) /\ fifo1 \in Seq(Chars) /\ chunk \in Seq(Chars)
    /\ received \in Seq(Chars)
    /\ Len(received) <= Len(Stream)
    /\ \A b \in 1..Len(received) : received[b] = Stream[b]
    /\ receiver \in {"opening", "reading"} /\ sender # "dead" =>
         /\ Len(received) + Len(fifo1) = Sent
         /\ \A b \in 1..Len(fifo1) : fifo1[b] = Stream[Len(received) + b]
    /\ receiver \in {"opening", "reading"} /\ sender = "dead" => fifo1 = <<>>
    /\ sender \in {"opening", "named"} => sent = 0
    /\ sender = "waiting" => sent = Len(file)
    /\ sender = "done" => receiver \in {"done", "dead"}
    /\ "E" \notin Transfer!Range(file) =>
         (receiver = "done" \/ (receiver = "answering" /\ sender # "dead") => received = file)

LEMMA MarkerFacts ==
  /\ Transfer!Marker \in Seq(Chars) /\ Len(Transfer!Marker) = 4
  /\ Transfer!Marker[1] = "E" /\ \A b \in 2..4 : Transfer!Marker[b] # "E"
  <1> DEFINE m == Transfer!Marker
  <1>1. m \in Seq(Chars) /\ Len(m) = 4
    <2>1. Len(m) = 4
      BY DEF Transfer!Marker
    <2>2. m \in Seq(Chars)
      BY DEF Transfer!Marker, Chars
    <2> QED
      BY <2>1, <2>2
  <1>2. m[1] = "E" /\ m[2] = "O" /\ m[3] = "F" /\ m[4] = "0"
    BY DEF Transfer!Marker
  <1> HIDE DEF m
  <1>3. "O" # "E" /\ "F" # "E" /\ "0" # "E"
    OBVIOUS
  <1>4. m[2] # "E" /\ m[3] # "E" /\ m[4] # "E"
    BY <1>2, <1>3
  <1>5. ASSUME NEW b \in 2..4 PROVE m[b] # "E"
    <2>1. b = 2 \/ b = 3 \/ b = 4
      OBVIOUS
    <2> QED
      BY <1>4, <2>1
  <1> QED
    BY <1>1, <1>2, <1>5 DEF m

LEMMA StreamFacts ==
  ASSUME file \in Seq(Chars)
  PROVE  /\ Stream \in Seq(Chars) /\ Len(Stream) = Len(file) + 4 /\ Len(file) \in Nat
         /\ \A b \in 1..Len(file) : Stream[b] = file[b]
         /\ \A b \in 1..4 : Stream[Len(file) + b] = Transfer!Marker[b]
  <1> DEFINE m == Transfer!Marker
  <1>1. m \in Seq(Chars) /\ Len(m) = 4 /\ Len(file) \in Nat
    BY MarkerFacts, LenProperties
  <1>2. Stream = file \o m
    BY DEF Stream
  <1> HIDE DEF m
  <1>3. /\ Stream \in Seq(Chars) /\ Len(Stream) = Len(file) + Len(m)
        /\ \A b \in 1..(Len(file) + Len(m)) :
              Stream[b] = IF b <= Len(file) THEN file[b] ELSE m[b - Len(file)]
    BY <1>1, <1>2, ConcatProperties
  <1>4. ASSUME NEW b \in 1..Len(file) PROVE Stream[b] = file[b]
    BY <1>1, <1>3
  <1>5. ASSUME NEW b \in 1..4 PROVE Stream[Len(file) + b] = m[b]
    <2>1. Len(file) + b \in 1..(Len(file) + Len(m)) /\ ~(Len(file) + b <= Len(file))
      BY <1>1
    <2>2. (Len(file) + b) - Len(file) = b
      BY <1>1
    <2> QED
      BY <1>3, <2>1, <2>2
  <1> QED
    BY <1>1, <1>3, <1>4, <1>5 DEF m

LEMMA TransferFacts ==
  ASSUME TransferInv
  PROVE  /\ Len(file) \in Nat /\ Len(fifo1) \in Nat /\ Len(received) \in Nat
         /\ sent \in Nat /\ sent <= Len(file) /\ Len(Stream) = Len(file) + 4
         /\ Stream \in Seq(Chars) /\ Sent \in Nat /\ Sent <= Len(file) + 4
  <1>1. file \in Seq(Chars) /\ fifo1 \in Seq(Chars) /\ received \in Seq(Chars) /\ sent \in 0..Len(file)
    BY DEF TransferInv, Transfer!TypeOK
  <1>2. Len(file) \in Nat /\ Len(fifo1) \in Nat /\ Len(received) \in Nat
    BY <1>1, LenProperties
  <1>3. Len(Stream) = Len(file) + 4 /\ Stream \in Seq(Chars)
    BY <1>1, StreamFacts
  <1> QED
    BY <1>1, <1>2, <1>3 DEF Sent

\* What a write adds to the FIFO continues the stream there.
LEMMA TransferWrites ==
  ASSUME TransferInv, receiver \in {"opening", "reading"}, sender = "sending",
         NEW g \in Seq(Chars), \A b \in 1..Len(g) : g[b] = Stream[sent + b]
  PROVE  /\ fifo1 \o g \in Seq(Chars)
         /\ Len(received) + Len(fifo1 \o g) = sent + Len(g)
         /\ \A b \in 1..Len(fifo1 \o g) : (fifo1 \o g)[b] = Stream[Len(received) + b]
  <1>1. /\ fifo1 \in Seq(Chars) /\ Len(received) + Len(fifo1) = sent
        /\ \A b \in 1..Len(fifo1) : fifo1[b] = Stream[Len(received) + b]
    BY DEF TransferInv, Sent
  <1>2. Len(received) \in Nat /\ Len(fifo1) \in Nat /\ Len(g) \in Nat
    BY TransferFacts, LenProperties
  <1>3. \A b \in 1..Len(g) : g[b] = Stream[Len(received) + Len(fifo1) + b]
    BY <1>1
  <1> DEFINE t == Stream
             r == Len(received)
  <1> HIDE DEF t, r
  <1>4. /\ fifo1 \o g \in Seq(Chars) /\ Len(fifo1 \o g) = Len(fifo1) + Len(g)
        /\ \A b \in 1..(Len(fifo1) + Len(g)) : (fifo1 \o g)[b] = t[r + b]
    <2>1. r \in Nat /\ \A b \in 1..Len(fifo1) : fifo1[b] = t[r + b]
      BY <1>1, <1>2 DEF t, r
    <2>2. \A b \in 1..Len(g) : g[b] = t[r + Len(fifo1) + b]
      BY <1>3 DEF t, r
    <2> QED
      BY <1>1, <2>1, <2>2, StreamGrows
  <1>5. Len(received) + (Len(fifo1) + Len(g)) = sent + Len(g)
    BY <1>1, <1>2
  <1> QED
    BY <1>4, <1>5 DEF t, r

\* A step of the sender (sender.c lines 32-42).
LEMMA TransferSends ==
  ASSUME TransferInv, MAX \in Nat, MAX >= 3, Transfer!SendChunk
  PROVE  TransferInv'
  <1>1. /\ sender = "sending" /\ file' = file /\ opened' = opened /\ receiver' = receiver
        /\ chunk' = chunk /\ received' = received
    BY DEF Transfer!SendChunk
  <1>2. Stream' = Stream
    BY <1>1 DEF Stream, Transfer!Marker
  <1>3. CASE receiver \in {"done", "dead"}
    <2>1. sender' = "dead" /\ fifo1' = fifo1 /\ sent' = sent
      BY <1>3 DEF Transfer!SendChunk
    <2> QED
      BY <1>1, <1>2, <1>3, <2>1 DEF TransferInv, Transfer!TypeOK
  <1>4. CASE receiver \notin {"done", "dead"} /\ Transfer!ToSend = <<>>
    <2>1. sender' = "waiting" /\ fifo1' = fifo1 \o Transfer!Marker /\ sent' = sent
      BY <1>4 DEF Transfer!SendChunk
    <2>2. sent = Len(file)
      <3>1. file \in Seq(Chars) /\ sent \in 0..Len(file)
        BY DEF TransferInv, Transfer!TypeOK
      <3>2. Len(Transfer!ToSend) = Len(file) - sent
        BY <3>1, Dropped DEF Transfer!ToSend
      <3>3. Len(Transfer!ToSend) = 0
        BY <1>4
      <3> QED
        BY <3>2, <3>3, TransferFacts
    <2> DEFINE g == Transfer!Marker
    <2>3. /\ g \in Seq(Chars) /\ Len(g) = 4
          /\ \A b \in 1..Len(g) : g[b] = Stream[sent + b]
      BY <2>2, MarkerFacts, StreamFacts DEF TransferInv
    <2>4. fifo1' = fifo1 \o g
      BY <2>1
    <2> HIDE DEF g
    <2>5. Len(Stream) = Len(file) + 4
      BY TransferFacts
    <2>6. CASE receiver = "answering"
      <3>1. fifo1' \in Seq(Chars)
        BY <2>3, <2>4, ConcatProperties DEF TransferInv
      <3> QED
        BY <1>1, <1>2, <2>1, <2>2, <2>6, <3>1 DEF TransferInv, Transfer!TypeOK
    <2>7. CASE receiver \in {"opening", "reading"}
      <3>1. /\ fifo1' \in Seq(Chars) /\ Len(received) + Len(fifo1') = sent + Len(g)
            /\ \A b \in 1..Len(fifo1') : fifo1'[b] = Stream[Len(received) + b]
        BY <1>1, <2>3, <2>4, <2>7, TransferWrites
      <3>2. Len(received) + Len(fifo1') = Sent'
        BY <1>2, <2>1, <2>2, <2>3, <2>5, <3>1 DEF Sent
      <3> QED
        BY <1>1, <1>2, <2>1, <2>2, <2>7, <3>1, <3>2 DEF TransferInv, Transfer!TypeOK
    <2> QED
      BY <1>4, <2>6, <2>7 DEF TransferInv, Transfer!TypeOK
  <1>5. CASE receiver \notin {"done", "dead"} /\ Transfer!ToSend # <<>>
    <2> DEFINE left1 == Transfer!ToSend
               n     == IF Len(left1) < MAX THEN Len(left1) ELSE MAX
               g     == SubSeq(left1, 1, n)
    <2>1. sender' = sender /\ fifo1' = fifo1 \o g /\ sent' = sent + n
      BY <1>5 DEF Transfer!SendChunk
    <2>2. /\ left1 \in Seq(Chars) /\ Len(left1) = Len(file) - sent
          /\ \A b \in 1..(Len(file) - sent) : left1[b] = file[sent + b]
      <3>1. file \in Seq(Chars) /\ sent \in 0..Len(file)
        BY DEF TransferInv, Transfer!TypeOK
      <3> QED
        BY <3>1, Dropped DEF Transfer!ToSend
    <2> HIDE DEF left1
    <2>3. n \in 0..Len(left1) /\ n \in Nat /\ sent + n <= Len(file)
      BY <2>2, TransferFacts
    <2> HIDE DEF n
    <2>4. g \in Seq(Chars) /\ Len(g) = n /\ \A b \in 1..n : g[b] = left1[b]
      BY <2>2, <2>3, Taken
    <2> HIDE DEF g
    <2>5. ASSUME NEW b \in 1..Len(g) PROVE g[b] = Stream[sent + b]
      <3>1. b \in 1..n /\ b \in 1..(Len(file) - sent) /\ sent + b \in 1..Len(file)
        BY <2>3, <2>4, <2>2, TransferFacts
      <3>2. g[b] = file[sent + b]
        BY <2>2, <2>4, <3>1
      <3>3. Stream[sent + b] = file[sent + b]
        BY <3>1, StreamFacts DEF TransferInv
      <3> QED
        BY <3>2, <3>3
    <2>6. sent' \in 0..Len(file)
      BY <2>1, <2>3, TransferFacts
    <2>7. CASE receiver = "answering"
      <3>1. fifo1' \in Seq(Chars)
        BY <2>1, <2>4, ConcatProperties DEF TransferInv
      <3> QED
        BY <1>1, <1>2, <2>1, <2>6, <2>7, <3>1 DEF TransferInv, Transfer!TypeOK
    <2>8. CASE receiver \in {"opening", "reading"}
      <3>1. /\ fifo1' \in Seq(Chars) /\ Len(received) + Len(fifo1') = sent + Len(g)
            /\ \A b \in 1..Len(fifo1') : fifo1'[b] = Stream[Len(received) + b]
        BY <1>1, <2>1, <2>4, <2>5, <2>8, TransferWrites
      <3>2. Len(received) + Len(fifo1') = Sent'
        BY <1>1, <2>1, <2>4, <3>1 DEF Sent
      <3> QED
        BY <1>1, <1>2, <2>1, <2>6, <2>8, <3>1, <3>2 DEF TransferInv, Transfer!TypeOK
    <2> QED
      BY <1>5, <2>7, <2>8 DEF TransferInv, Transfer!TypeOK
  <1> QED
    BY <1>3, <1>4, <1>5

\* What a read leaves in the buffer begins with what it got.
LEMMA TransferBuffers ==
  ASSUME NEW S, NEW g \in Seq(S), NEW c \in Seq(S), NEW n \in 1..Len(c), Len(g) = n
  PROVE  /\ g \o SubSeq(c, n + 1, Len(c)) \in Seq(S)
         /\ Len(g \o SubSeq(c, n + 1, Len(c))) = Len(c)
         /\ (g \o SubSeq(c, n + 1, Len(c)))[1] = g[1]
  <1> DEFINE d == SubSeq(c, n + 1, Len(c))
  <1>1. Len(c) \in Nat /\ n \in 0..Len(c)
    BY LenProperties
  <1>2. d \in Seq(S) /\ Len(d) = Len(c) - n
    BY <1>1, Dropped
  <1> HIDE DEF d
  <1>3. /\ g \o d \in Seq(S) /\ Len(g \o d) = Len(g) + Len(d)
        /\ \A b \in 1..(Len(g) + Len(d)) : (g \o d)[b] = IF b <= Len(g) THEN g[b] ELSE d[b - Len(g)]
    BY <1>2, ConcatProperties
  <1>4. Len(g) + Len(d) = Len(c) /\ 1 \in 1..(Len(g) + Len(d)) /\ 1 <= Len(g)
    BY <1>1, <1>2
  <1> QED
    BY <1>3, <1>4 DEF d

\* If the stream goes on with the first byte of the marker, and the file has
\* no such byte, all of the file has come.
LEMMA MarkerComesLast ==
  ASSUME TransferInv, receiver = "reading", sender # "dead", Len(fifo1) >= 1,
         fifo1[1] = "E", "E" \notin Transfer!Range(file)
  PROVE  received = file
  <1>1. /\ Len(file) \in Nat /\ Len(fifo1) \in Nat /\ Len(received) \in Nat /\ Sent \in Nat
        /\ Sent <= Len(file) + 4
    BY TransferFacts
  <1>2. Len(received) + Len(fifo1) = Sent
    BY DEF TransferInv
  <1>3. Stream[Len(received) + 1] = "E"
    <2>1. 1 \in 1..Len(fifo1)
      BY <1>1
    <2> QED
      BY <2>1 DEF TransferInv
  <1>4. /\ file \in Seq(Chars) /\ received \in Seq(Chars)
        /\ \A b \in 1..Len(received) : received[b] = Stream[b]
    BY DEF TransferInv
  <1>5. ~(Len(received) < Len(file))
    <2>1. SUFFICES ASSUME Len(received) < Len(file) PROVE FALSE
      OBVIOUS
    <2>2. Len(received) + 1 \in 1..Len(file)
      BY <1>1, <2>1
    <2>3. file[Len(received) + 1] = "E"
      BY <1>3, <1>4, <2>2, StreamFacts
    <2>4. DOMAIN file = 1..Len(file)
      BY <1>4
    <2> QED
      BY <2>2, <2>3, <2>4 DEF Transfer!Range
  <1>6. ~(Len(received) > Len(file))
    <2>1. SUFFICES ASSUME Len(received) > Len(file) PROVE FALSE
      OBVIOUS
    <2> DEFINE b == Len(received) + 1 - Len(file)
    <2>2. b \in 2..4 /\ b \in 1..4 /\ Len(file) + b = Len(received) + 1
      BY <1>1, <1>2, <2>1
    <2> HIDE DEF b
    <2>3. Stream[Len(file) + b] = Transfer!Marker[b]
      BY <1>4, <2>2, StreamFacts
    <2> QED
      BY <1>3, <2>2, <2>3, MarkerFacts
  <1>7. Len(received) = Len(file)
    BY <1>1, <1>5, <1>6
  <1>8. \A b \in 1..Len(received) : received[b] = file[b]
    BY <1>4, <1>7, StreamFacts
  <1> QED
    BY <1>4, <1>7, <1>8, SeqEqual

\* A read of the receiver (receiver.c lines 28-37).
LEMMA TransferReceives ==
  ASSUME TransferInv, MAX \in Nat, MAX >= 3, Transfer!Receive
  PROVE  TransferInv'
  <1> DEFINE n == IF Len(fifo1) < MAX THEN Len(fifo1) ELSE MAX
             g == SubSeq(fifo1, 1, n)
             d == SubSeq(fifo1, n + 1, Len(fifo1))
  <1>1. /\ receiver = "reading" /\ fifo1 # <<>> /\ fifo1' = d
        /\ chunk' = g \o SubSeq(chunk, n + 1, MAX)
        /\ file' = file /\ opened' = opened /\ sender' = sender /\ sent' = sent
        /\ \/ SubSeq(chunk', 1, 3) = SubSeq(Transfer!Marker, 1, 3)
               /\ receiver' = "answering" /\ received' = received
           \/ received' = received \o g /\ receiver' = receiver
    BY DEF Transfer!Receive, Transfer!Keep
  <1>2. Stream' = Stream /\ Sent' = Sent
    BY <1>1 DEF Stream, Sent, Transfer!Marker
  <1>3. sender # "dead"
    BY <1>1 DEF TransferInv
  <1>4. /\ fifo1 \in Seq(Chars) /\ chunk \in Seq(Chars) /\ received \in Seq(Chars)
        /\ Len(chunk) = MAX /\ Len(received) + Len(fifo1) = Sent
        /\ \A b \in 1..Len(fifo1) : fifo1[b] = Stream[Len(received) + b]
        /\ \A b \in 1..Len(received) : received[b] = Stream[b]
        /\ Len(received) <= Len(Stream)
    BY <1>1, <1>3 DEF TransferInv, Transfer!TypeOK
  <1>5. /\ Len(fifo1) \in Nat /\ Len(received) \in Nat /\ Sent \in Nat /\ Sent <= Len(Stream)
        /\ Len(Stream) \in Nat
    BY TransferFacts
  <1>6. Len(fifo1) # 0
    BY <1>1, <1>4, EmptySeq
  <1>7. n \in 1..Len(fifo1) /\ n \in 0..Len(fifo1) /\ n \in 1..MAX /\ n \in Nat
    BY <1>5, <1>6
  <1> HIDE DEF n
  <1>8. g \in Seq(Chars) /\ Len(g) = n /\ \A b \in 1..n : g[b] = fifo1[b]
    BY <1>4, <1>7, Taken
  <1>9. d \in Seq(Chars) /\ Len(d) = Len(fifo1) - n /\ \A b \in 1..(Len(fifo1) - n) : d[b] = fifo1[n + b]
    BY <1>4, <1>7, Dropped
  <1> HIDE DEF g, d
  <1>10. chunk' \in Seq(Chars) /\ Len(chunk') = MAX /\ chunk'[1] = g[1]
    <2>1. chunk' = g \o SubSeq(chunk, n + 1, Len(chunk)) /\ n \in 1..Len(chunk)
      BY <1>1, <1>4, <1>7
    <2>2. g \in Seq(Chars) /\ chunk \in Seq(Chars) /\ Len(g) = n
      BY <1>4, <1>8
    <2>3. /\ g \o SubSeq(chunk, n + 1, Len(chunk)) \in Seq(Chars)
          /\ Len(g \o SubSeq(chunk, n + 1, Len(chunk))) = Len(chunk)
          /\ (g \o SubSeq(chunk, n + 1, Len(chunk)))[1] = g[1]
      BY <2>1, <2>2, TransferBuffers
    <2> QED
      BY <1>4, <2>1, <2>3
  <1>11. Transfer!TypeOK'
    BY <1>1, <1>10 DEF TransferInv, Transfer!TypeOK
  <1>12. CASE /\ SubSeq(chunk', 1, 3) = SubSeq(Transfer!Marker, 1, 3)
              /\ receiver' = "answering" /\ received' = received
    <2>1. fifo1[1] = "E"
      <3>1. 3 \in 0..Len(chunk') /\ 3 \in 0..Len(Transfer!Marker) /\ 1 \in 1..3 /\ 1 \in 1..n
        BY <1>7, <1>10, MarkerFacts
      <3>2. SubSeq(chunk', 1, 3)[1] = chunk'[1]
        BY <1>10, <3>1, Taken
      <3>3. SubSeq(Transfer!Marker, 1, 3)[1] = Transfer!Marker[1]
        BY <3>1, MarkerFacts, Taken
      <3> QED
        BY <1>8, <1>10, <1>12, <3>1, <3>2, <3>3, MarkerFacts
    <2>2. "E" \notin Transfer!Range(file) => received = file
      BY <1>1, <1>3, <1>5, <1>6, <2>1, MarkerComesLast
    <2>3. Transfer!Range(file)' = Transfer!Range(file)
      BY <1>1 DEF Transfer!Range
    <2> QED
      BY <1>1, <1>2, <1>3, <1>9, <1>10, <1>11, <1>12, <2>2, <2>3 DEF TransferInv
  <1>13. CASE received' = received \o g /\ receiver' = receiver
    <2>1. ASSUME NEW b \in 1..Len(g) PROVE g[b] = Stream[Len(received) + b]
      <3>1. b \in 1..n /\ b \in 1..Len(fifo1)
        BY <1>5, <1>7, <1>8
      <3> QED
        BY <1>4, <1>8, <3>1
    <2>2. /\ received' \in Seq(Chars) /\ Len(received') = Len(received) + n
          /\ \A b \in 1..(Len(received) + n) : received'[b] = Stream[b]
      <3> DEFINE t == Stream
                 z == 0
      <3>1. z \in Nat /\ \A b \in 1..Len(received) : received[b] = t[z + b]
        BY <1>4
      <3>2. \A b \in 1..Len(g) : g[b] = t[z + Len(received) + b]
        BY <1>5, <2>1
      <3> HIDE DEF t, z
      <3>3. /\ received \o g \in Seq(Chars) /\ Len(received \o g) = Len(received) + Len(g)
            /\ \A b \in 1..(Len(received) + Len(g)) : (received \o g)[b] = t[z + b]
        <4>1. received \in Seq(Chars) /\ g \in Seq(Chars)
          BY <1>4, <1>8
        <4> QED
          BY <3>1, <3>2, <4>1, StreamGrows
      <3>4. \A b \in 1..(Len(received) + Len(g)) : z + b = b
        BY <1>5, <1>7, <1>8 DEF z
      <3> QED
        BY <1>8, <1>13, <3>3, <3>4 DEF t
    <2>3. Len(received') + Len(fifo1') = Sent' /\ Len(received') <= Len(Stream')
      <3>1. /\ Len(received') = Len(received) + n /\ Len(fifo1') = Len(fifo1) - n
            /\ Sent' = Sent /\ Len(Stream') = Len(Stream) /\ Len(received) + Len(fifo1) = Sent
            /\ n <= Len(fifo1)
        BY <1>1, <1>2, <1>4, <1>7, <1>9, <2>2
      <3> QED
        BY <1>5, <1>7, <3>1
    <2>4. ASSUME NEW b \in 1..Len(fifo1') PROVE fifo1'[b] = Stream'[Len(received') + b]
      <3>1. b \in 1..(Len(fifo1) - n) /\ n + b \in 1..Len(fifo1)
        BY <1>1, <1>5, <1>7, <1>9
      <3>2. fifo1'[b] = Stream[Len(received) + (n + b)]
        BY <1>1, <1>4, <1>9, <3>1
      <3>3. Len(received) + (n + b) = Len(received') + b
        BY <1>5, <1>7, <2>2, <3>1
      <3> QED
        BY <1>2, <3>2, <3>3
    <2>5. \A b \in 1..Len(received') : received'[b] = Stream'[b]
      BY <1>2, <2>2
    <2> QED
      BY <1>1, <1>3, <1>9, <1>10, <1>11, <1>13, <2>2, <2>3, <2>4, <2>5 DEF TransferInv
  <1> QED
    BY <1>1, <1>12, <1>13

\* What is left: files that do not open, and the answer.
LEMMA TransferNext ==
  ASSUME TransferInv, MAX \in Nat, MAX >= 3, [Transfer!Next]_transferVars
  PROVE  TransferInv'
  <1>1. CASE UNCHANGED transferVars
    BY <1>1 DEF TransferInv, Transfer!TypeOK, transferVars, Stream, Sent, Transfer!Marker,
       Transfer!Range
  <1>2. CASE Transfer!OpenFifo
    <2>1. opened' \in 0..2
      BY <1>2 DEF Transfer!OpenFifo, TransferInv, Transfer!TypeOK
    <2> QED
      BY <1>2, <2>1 DEF TransferInv, Transfer!TypeOK, Transfer!OpenFifo, Stream, Sent,
         Transfer!Marker, Transfer!Range
  <1>3. CASE Transfer!SenderStarts
    <2>1. /\ sender = "named" /\ sender' \in {"sending", "dead"}
          /\ UNCHANGED <<file, opened, receiver, sent, fifo1, chunk, received>>
      BY <1>3 DEF Transfer!SenderStarts
    <2>2. Stream' = Stream /\ Transfer!Range(file)' = Transfer!Range(file)
      BY <2>1 DEF Stream, Transfer!Marker, Transfer!Range
    <2>3. Sent = sent /\ (sender' = "sending" => Sent' = sent)
      BY <2>1 DEF Sent
    <2>4. receiver \in {"opening", "reading"} => fifo1 = <<>>
      <3>1. SUFFICES ASSUME receiver \in {"opening", "reading"} PROVE fifo1 = <<>>
        OBVIOUS
      <3>2. Len(received) + Len(fifo1) = 0 /\ fifo1 \in Seq(Chars)
        BY <2>1, <2>3, <3>1 DEF TransferInv
      <3>3. Len(fifo1) = 0
        BY <3>2, TransferFacts
      <3> QED
        BY <3>2, <3>3, EmptySeq
    <2> QED
      BY <2>1, <2>2, <2>3, <2>4 DEF TransferInv, Transfer!TypeOK
  <1>4. CASE Transfer!ReceiverStarts
    BY <1>4 DEF TransferInv, Transfer!TypeOK, Transfer!ReceiverStarts, Stream, Sent,
       Transfer!Marker, Transfer!Range
  <1>5. CASE Transfer!ReceiveEnd
    BY <1>5 DEF TransferInv, Transfer!TypeOK, Transfer!ReceiveEnd, Stream, Sent,
       Transfer!Marker, Transfer!Range
  <1>6. CASE Transfer!Answer
    BY <1>6 DEF TransferInv, Transfer!TypeOK, Transfer!Answer, Stream, Sent,
       Transfer!Marker, Transfer!Range
  <1>7. CASE Transfer!GetAnswer
    BY <1>7 DEF TransferInv, Transfer!TypeOK, Transfer!GetAnswer, Stream, Sent,
       Transfer!Marker, Transfer!Range
  <1>8. CASE Transfer!TypeName
    BY <1>8 DEF TransferInv, Transfer!TypeOK, Transfer!TypeName, Transfer!Prompting, Stream, Sent,
       Transfer!Marker, Transfer!Range
  <1> QED
    BY <1>1, <1>2, <1>3, <1>4, <1>5, <1>6, <1>7, <1>8, TransferSends, TransferReceives
       DEF Transfer!Next, Transfer!Processes

LEMMA TransferInit == Init => TransferInv
  <1> SUFFICES ASSUME Init PROVE TransferInv
    OBVIOUS
  <1>1. /\ file \in FilesToSend /\ opened = 0 /\ sender = "opening" /\ receiver = "opening"
        /\ sent = 0 /\ fifo1 = <<>> /\ chunk = [b \in 1..MAX |-> "?"] /\ received = <<>>
    BY DEF Init, Transfer!Init
  <1>2. file \in Seq(Chars)
    BY <1>1, ConstantsAssumption, SeqMonotonic DEF Chars
  <1>3. chunk \in Seq(Chars) /\ Len(chunk) = MAX
    <2>1. MAX \in Nat /\ "?" \in Chars
      BY ConstantsAssumption DEF Chars
    <2> QED
      BY <1>1, <2>1
  <1>4. Len(Stream) = Len(file) + 4 /\ Len(file) \in Nat
    BY <1>2, StreamFacts
  <1>5. Len(fifo1) = 0 /\ Len(received) = 0 /\ fifo1 \in Seq(Chars) /\ received \in Seq(Chars)
    BY <1>1
  <1>6. Sent = 0 /\ Len(received) <= Len(Stream) /\ 1..0 = {} /\ sent \in 0..Len(file)
    BY <1>1, <1>4, <1>5 DEF Sent
  <1>7. Transfer!TypeOK
    <2>1. opened \in 0..2
      BY <1>1
    <2>2. file \in FilesToSend /\ Len(chunk) = MAX /\ sent \in 0..Len(file)
      BY <1>1, <1>3, <1>6
    <2>3. sender = "opening" /\ receiver = "opening"
      BY <1>1
    <2> QED
      BY <2>1, <2>2, <2>3 DEF Transfer!TypeOK
  <1>8. Len(received) + Len(fifo1) = Sent
    BY <1>5, <1>6
  <1> QED
    BY <1>1, <1>2, <1>3, <1>5, <1>6, <1>7, <1>8 DEF TransferInv

\* The same as StreamGrows from the beginning of the stream.
LEMMA BeginningGrows ==
  ASSUME NEW S, NEW f \in Seq(S), NEW g \in Seq(S), NEW t,
         \A b \in 1..Len(f) : f[b] = t[b],
         \A b \in 1..Len(g) : g[b] = t[Len(f) + b]
  PROVE  /\ f \o g \in Seq(S) /\ Len(f \o g) = Len(f) + Len(g)
         /\ \A b \in 1..Len(f \o g) : (f \o g)[b] = t[b]
  <1> DEFINE z == 0
  <1>1. Len(f) \in Nat /\ Len(g) \in Nat
    BY LenProperties
  <1>2. z \in Nat /\ \A b \in 1..(Len(f) + Len(g)) : z + b = b
    BY <1>1
  <1>3. \A b \in 1..Len(f) : f[b] = t[z + b]
    BY <1>1
  <1>4. \A b \in 1..Len(g) : g[b] = t[z + Len(f) + b]
    BY <1>1
  <1> HIDE DEF z
  <1>5. /\ f \o g \in Seq(S) /\ Len(f \o g) = Len(f) + Len(g)
        /\ \A b \in 1..(Len(f) + Len(g)) : (f \o g)[b] = t[z + b]
    BY <1>2, <1>3, <1>4, StreamGrows
  <1> QED
    BY <1>2, <1>5

LEMMA TransferGivesExact == TransferInv => Transfer!TransferExact
  <1> SUFFICES ASSUME TransferInv PROVE Transfer!TransferExact
    OBVIOUS
  <1> DEFINE t    == Stream
             rest == Transfer!ToSend
             mark == IF sender = "waiting" THEN <<>> ELSE Transfer!Marker
  <1>1. /\ file \in Seq(Chars) /\ fifo1 \in Seq(Chars) /\ received \in Seq(Chars)
        /\ \A b \in 1..Len(received) : received[b] = Stream[b]
        /\ Len(received) <= Len(Stream) /\ sent \in 0..Len(file)
    BY DEF TransferInv, Transfer!TypeOK
  <1>2. /\ Len(file) \in Nat /\ Len(received) \in Nat /\ Len(fifo1) \in Nat /\ sent \in Nat
        /\ sent <= Len(file) /\ Len(t) = Len(file) + 4 /\ t \in Seq(Chars)
    BY TransferFacts
  <1>3. ASSUME receiver = "reading", sender # "dead"
        PROVE  received \o fifo1 \o rest \o mark = t
    <2>1. /\ Len(received) + Len(fifo1) = Sent
          /\ \A b \in 1..Len(fifo1) : fifo1[b] = t[Len(received) + b]
          /\ sender # "done" /\ (sender = "waiting" => sent = Len(file))
      BY <1>3 DEF TransferInv
    <2>2. /\ rest \in Seq(Chars) /\ Len(rest) = Len(file) - sent
          /\ \A b \in 1..(Len(file) - sent) : rest[b] = file[sent + b]
      BY <1>1, Dropped DEF Transfer!ToSend
    <2>3. mark \in Seq(Chars) /\ Len(mark) = IF sender = "waiting" THEN 0 ELSE 4
      <3>1. CASE sender = "waiting"
        <4>1. mark = <<>>
          BY <3>1
        <4> QED
          BY <3>1, <4>1
      <3>2. CASE sender # "waiting"
        BY <3>2, MarkerFacts
      <3> QED
        BY <3>1, <3>2
    <2>4. \A b \in 1..Len(received) : received[b] = t[b]
      BY <1>1
    <2>5. ASSUME NEW b \in 1..Len(rest) PROVE rest[b] = t[Sent + b]
      <3>1. b \in 1..(Len(file) - sent) /\ sent + b \in 1..Len(file) /\ sent # Len(file)
        BY <1>2, <2>2
      <3>2. Sent = sent
        BY <2>1, <3>1 DEF Sent
      <3>3. Stream[sent + b] = file[sent + b]
        BY <1>1, <3>1, StreamFacts
      <3> QED
        BY <2>2, <3>1, <3>2, <3>3
    <2>6. ASSUME NEW b \in 1..Len(mark) PROVE mark[b] = t[Sent + Len(rest) + b]
      <3>1. sender # "waiting" /\ mark = Transfer!Marker /\ b \in 1..4
        BY <2>3
      <3>2. Sent = sent /\ Sent + Len(rest) = Len(file)
        BY <1>2, <2>2, <3>1 DEF Sent
      <3>3. Stream[Len(file) + b] = Transfer!Marker[b]
        BY <1>1, <3>1, StreamFacts
      <3> QED
        BY <3>1, <3>2, <3>3
    <2>7. Sent + Len(rest) + Len(mark) = Len(t)
      <3>1. Sent = IF sender = "waiting" THEN Len(t) ELSE sent
        BY DEF Sent
      <3> HIDE DEF t, rest, mark
      <3>2. /\ Len(rest) = Len(file) - sent /\ (sender = "waiting" => sent = Len(file))
            /\ Len(mark) = IF sender = "waiting" THEN 0 ELSE 4
        BY <2>1, <2>2, <2>3
      <3>3. /\ Len(file) \in Nat /\ sent \in Nat /\ Len(t) = Len(file) + 4
        BY <1>2
      <3> QED
        BY <3>1, <3>2, <3>3
    <2> DEFINE f == received \o fifo1
               h == f \o rest
               k == h \o mark
    <2> HIDE DEF t, rest, mark
    <2>8. f \in Seq(Chars) /\ Len(f) = Sent /\ \A b \in 1..Len(f) : f[b] = t[b]
      BY <1>1, <2>1, <2>4, BeginningGrows
    <2> HIDE DEF f
    <2>9. h \in Seq(Chars) /\ Len(h) = Sent + Len(rest) /\ \A b \in 1..Len(h) : h[b] = t[b]
      <3>1. \A b \in 1..Len(rest) : rest[b] = t[Len(f) + b]
        BY <2>5, <2>8
      <3>2. rest \in Seq(Chars) /\ f \in Seq(Chars) /\ \A b \in 1..Len(f) : f[b] = t[b]
        BY <2>2, <2>8
      <3>3. h \in Seq(Chars) /\ Len(h) = Len(f) + Len(rest) /\ \A b \in 1..Len(h) : h[b] = t[b]
        BY <3>1, <3>2, BeginningGrows
      <3> QED
        BY <2>8, <3>3
    <2> HIDE DEF h
    <2>10. k \in Seq(Chars) /\ Len(k) = Len(t) /\ \A b \in 1..Len(k) : k[b] = t[b]
      <3>1. \A b \in 1..Len(mark) : mark[b] = t[Len(h) + b]
        BY <2>6, <2>9
      <3>2. mark \in Seq(Chars) /\ h \in Seq(Chars) /\ \A b \in 1..Len(h) : h[b] = t[b]
        BY <2>3, <2>9
      <3>3. k \in Seq(Chars) /\ Len(k) = Len(h) + Len(mark) /\ \A b \in 1..Len(k) : k[b] = t[b]
        BY <3>1, <3>2, BeginningGrows
      <3> QED
        BY <2>7, <2>9, <3>3
    <2> HIDE DEF k
    <2>11. k = t
      BY <1>2, <2>10, SeqEqual
    <2> QED
      BY <2>11 DEF f, h, k
  <1>4. SubSeq(received, 1, Len(received)) = SubSeq(t, 1, Len(received))
    <2> HIDE DEF t
    <2> DEFINE l == Len(received)
               u == SubSeq(received, 1, l)
               v == SubSeq(t, 1, l)
    <2>1. l \in 0..Len(received) /\ l \in 0..Len(t) /\ l \in Nat
      BY <1>1, <1>2 DEF t
    <2>2. \A b \in 1..l : received[b] = t[b]
      BY <1>1 DEF t
    <2> HIDE DEF l
    <2>3. u \in Seq(Chars) /\ Len(u) = l /\ \A b \in 1..l : u[b] = received[b]
      BY <1>1, <2>1, Taken
    <2>4. v \in Seq(Chars) /\ Len(v) = l /\ \A b \in 1..l : v[b] = t[b]
      BY <1>2, <2>1, Taken
    <2> HIDE DEF u, v
    <2>5. u = v
      BY <2>2, <2>3, <2>4, SeqEqual
    <2> QED
      BY <2>5 DEF u, v, l
  <1>5. receiver = "done" /\ "E" \notin Transfer!Range(file) => received = file
    BY DEF TransferInv
  <1> QED
    BY <1>1, <1>3, <1>4, <1>5 DEF Transfer!TransferExact, Transfer!IsPrefix, Stream

\* Copy and transfer keep every byte in order, whatever the reads and writes
\* return, for files, buffers and chunks of every size; and a file without
\* the first byte of the marker has come whole when the receiver says so.
THEOREM StreamsAreExact == Spec => []StreamsExact
  <1>1. Init => CopyInv /\ TransferInv
    BY CopyInit, TransferInit
  <1>2. CopyInv /\ TransferInv /\ [Next]_vars => (CopyInv /\ TransferInv)'
    BY OneProgramMoves, CopyNext, TransferNext, ConstantsAssumption
  <1>3. CopyInv /\ TransferInv => StreamsExact
    BY CopyGivesExact, TransferGivesExact DEF StreamsExact
  <1> QED
    BY <1>1, <1>2, <1>3, PTL DEF Spec
-----------------------------------------------------------------------------
(***************************************************************************)
(* The mini server of src/miniserver/server.c.                             *)
(***************************************************************************)
LEMMA MiniCounts == \A S : Mini!Cardinality(S) = Cardinality(S)
  BY DEF Mini!Cardinality, Cardinality

\* The handlers that are alive, or dead and not reaped.
Live == Mini!Busy \cup Mini!Zombies

\* Between fork and waitpid there may be one handler more than the peak, but
\* then there is a zombie to reap.  Every connection has its own messages,
\* and a handler that has ended has answered, or the client was gone.
MiniData ==
    /\ Mini!TypeOK /\ waits \in BOOLEAN
    /\ message \in [Clients -> Clients \cup {None}]
    /\ echo \in [Clients -> Clients \cup {None}]
    /\ got \in [Clients -> Clients \cup {None}]
    /\ \A c \in Clients :
         /\ {message[c], echo[c], got[c], socket[c]} \subseteq {None, c}
         /\ handler[c] = "reading" => socket[c] = c
         /\ conn[c] \in {"none", "backlog", "accepted"} => handler[c] = "none"
         /\ peer[c] = "new" => conn[c] = "none"
         /\ handler[c] \in {"zombie", "reaped"} => echo[c] = c \/ peer[c] = "gone"
         /\ handler[c] = "zombie" => mode = "fork"
    /\ waits => ~Mini!Dispatching /\ mode = "fork"

MiniCount ==
    /\ peak \in Nat
    /\ Cardinality(Mini!Busy) <= peak
    /\ Cardinality(Live) <= peak + (IF waits THEN 1 ELSE 0)

LEMMA MiniDataNext ==
  ASSUME MiniData, [Mini!Next]_miniVars
  PROVE  MiniData'
  <1>0. None \notin Clients
    BY ConstantsAssumption
  <1>1. CASE UNCHANGED miniVars
    BY <1>1 DEF MiniData, Mini!TypeOK, Mini!Dispatching, miniVars
  <1>2. ASSUME NEW c \in Clients, Mini!Connect(c) PROVE MiniData'
    BY <1>0, <1>2 DEF MiniData, Mini!TypeOK, Mini!Dispatching, Mini!Connect
  <1>3. ASSUME NEW c \in Clients, Mini!SendMessage(c) PROVE MiniData'
    BY <1>0, <1>3 DEF MiniData, Mini!TypeOK, Mini!Dispatching, Mini!SendMessage
  <1>4. ASSUME NEW c \in Clients, Mini!Receive(c) PROVE MiniData'
    BY <1>0, <1>4 DEF MiniData, Mini!TypeOK, Mini!Dispatching, Mini!Receive
  <1>5. ASSUME NEW c \in Clients, Mini!Leave(c) PROVE MiniData'
    BY <1>0, <1>5 DEF MiniData, Mini!TypeOK, Mini!Dispatching, Mini!Leave
  <1>6. ASSUME NEW c \in Clients, Mini!Accept(c) PROVE MiniData'
    BY <1>0, <1>6 DEF MiniData, Mini!TypeOK, Mini!Dispatching, Mini!Accept, Mini!clientVars
  <1>7. ASSUME NEW c \in Clients, Mini!DispatchFork(c) PROVE MiniData'
    BY <1>0, <1>7 DEF MiniData, Mini!TypeOK, Mini!Dispatching, Mini!DispatchFork, Mini!NewHandler,
       Mini!clientVars
  <1>8. ASSUME NEW c \in Clients, Mini!DispatchThread(c) PROVE MiniData'
    <2>1. /\ client_sock = c /\ conn[c] = "accepted" /\ mode = "thread"
          /\ conn' = [conn EXCEPT ![c] = "open"]
          /\ handler' = [handler EXCEPT ![c] = "started"] \/ handler' = handler
          /\ UNCHANGED <<mode, client_sock, waits, socket, message, echo, peer, got>>
      BY <1>8 DEF Mini!Dispatching, Mini!DispatchThread, Mini!NewHandler, Mini!clientVars
    <2>2. peer[c] # "new" /\ waits = FALSE
      BY <2>1 DEF MiniData
    <2>3. Mini!TypeOK'
      BY <2>1 DEF MiniData, Mini!TypeOK
    <2>4. CASE handler' = handler
      BY <2>1, <2>2, <2>3, <2>4 DEF MiniData, Mini!TypeOK
    <2>5. CASE handler' = [handler EXCEPT ![c] = "started"]
      BY <2>1, <2>2, <2>3, <2>5 DEF MiniData, Mini!TypeOK
    <2> QED
      BY <2>1, <2>4, <2>5
  <1>9. ASSUME NEW c \in Clients, Mini!DispatchNone(c) PROVE MiniData'
    BY <1>0, <1>9 DEF MiniData, Mini!TypeOK, Mini!Dispatching, Mini!DispatchNone, Mini!clientVars
  <1>10. ASSUME Mini!Reap PROVE MiniData'
    BY <1>0, <1>10 DEF MiniData, Mini!TypeOK, Mini!Dispatching, Mini!Reap, Mini!ReapOne,
       Mini!Zombies, Mini!clientVars
  <1>11. ASSUME NEW c \in Clients, Mini!StartThread(c) PROVE MiniData'
    BY <1>0, <1>11 DEF MiniData, Mini!TypeOK, Mini!Dispatching, Mini!StartThread, Mini!Argument,
       Mini!clientVars
  <1>12. ASSUME NEW c \in Clients, Mini!Handle(c) PROVE MiniData'
    <2>1. socket[c] = c /\ message[c] \in {None, c} /\ (message[c] = c \/ peer[c] = "gone")
      BY <1>12 DEF MiniData, Mini!Handle
    <2>2. /\ echo' = [echo EXCEPT ![c] = message[c]]
          /\ message' = [message EXCEPT ![c] = None]
          /\ conn' = [conn EXCEPT ![c] = "closed"]
          /\ handler' = [handler EXCEPT ![c] = IF mode = "fork" THEN "zombie" ELSE "reaped"]
          /\ UNCHANGED <<mode, client_sock, waits, socket, peer, got>>
      BY <1>12, <2>1 DEF Mini!Handle, Mini!clientVars
    <2>3. Mini!TypeOK' /\ peer[c] # "new" /\ handler[c] = "reading"
      BY <1>12, <2>2 DEF MiniData, Mini!TypeOK, Mini!Handle
    <2>4. /\ echo' \in [Clients -> Clients \cup {None}] /\ echo'[c] = message[c]
          /\ message' \in [Clients -> Clients \cup {None}] /\ message'[c] = None
          /\ handler'[c] \in {"zombie", "reaped"} /\ (handler'[c] = "zombie" => mode = "fork")
          /\ conn'[c] = "closed"
          /\ \A d \in Clients \ {c} : /\ echo'[d] = echo[d] /\ message'[d] = message[d]
                                     /\ handler'[d] = handler[d] /\ conn'[d] = conn[d]
      BY <2>1, <2>2 DEF MiniData, Mini!TypeOK
    <2>5. waits' => ~Mini!Dispatching'
      BY <2>2 DEF MiniData, Mini!TypeOK, Mini!Dispatching
    <2>6. ASSUME NEW d \in Clients
          PROVE  /\ {message[d], echo[d], got[d], socket[d]}' \subseteq {None, d}
                 /\ handler'[d] = "reading" => socket'[d] = d
                 /\ conn'[d] \in {"none", "backlog", "accepted"} => handler'[d] = "none"
                 /\ peer'[d] = "new" => conn'[d] = "none"
                 /\ handler'[d] \in {"zombie", "reaped"} => echo'[d] = d \/ peer'[d] = "gone"
                 /\ handler'[d] = "zombie" => mode' = "fork"
      <3>1. CASE d = c
        BY <2>1, <2>2, <2>3, <2>4, <3>1 DEF MiniData
      <3>2. CASE d # c
        BY <2>2, <2>4, <3>2 DEF MiniData
      <3> QED
        BY <3>1, <3>2
    <2> QED
      BY <2>2, <2>3, <2>4, <2>5, <2>6 DEF MiniData
  <1> QED
    BY <1>1, <1>2, <1>3, <1>4, <1>5, <1>6, <1>7, <1>8, <1>9, <1>10, <1>11, <1>12
       DEF Mini!Next, Mini!Server, Mini!Handler

LEMMA MiniFinite ==
  /\ IsFiniteSet(Mini!Busy) /\ IsFiniteSet(Live)
  /\ Cardinality(Mini!Busy) \in Nat /\ Cardinality(Live) \in Nat
  /\ Cardinality(Mini!Busy) <= Cardinality(Live)
  <1>1. IsFiniteSet(Clients)
    BY ConstantsAssumption
  <1>2. Live \subseteq Clients /\ Mini!Busy \subseteq Live
    BY DEF Live, Mini!Busy, Mini!Zombies
  <1>3. IsFiniteSet(Live)
    BY <1>1, <1>2, FS_Subset
  <1>4. IsFiniteSet(Mini!Busy) /\ Cardinality(Mini!Busy) <= Cardinality(Live)
    BY <1>2, <1>3, FS_Subset
  <1> QED
    BY <1>3, <1>4, FS_CardinalityType

\* A new handler: the peak follows the handlers that are alive.
LEMMA MiniCountMore ==
  ASSUME MiniData, MiniData', MiniCount, NEW c \in Clients, NEW state \in {"started", "reading"},
         handler[c] = "none", waits = FALSE, waits' \in BOOLEAN,
         waits' = FALSE => Mini!Zombies = {}, Mini!NewHandler(c, state)
  PROVE  MiniCount'
  <1>1. handler' = [handler EXCEPT ![c] = state]
    BY DEF Mini!NewHandler
  <1>2. Mini!Busy' = Mini!Busy \cup {c} /\ Live' = Live \cup {c} /\ c \notin Live /\ c \notin Mini!Busy
    BY <1>1 DEF Live, Mini!Busy, Mini!Zombies, MiniData, Mini!TypeOK
  <1> DEFINE b == Cardinality(Mini!Busy)
             l == Cardinality(Live)
  <1>3. Cardinality(Mini!Busy)' = b + 1 /\ Cardinality(Live)' = l + 1
    BY <1>2, MiniFinite, FS_AddElement
  <1>4. b \in Nat /\ l \in Nat /\ peak \in Nat /\ b <= peak /\ l <= peak
    BY MiniFinite DEF MiniCount
  <1>5. peak' = IF b < peak THEN peak ELSE b + 1
    BY MiniCounts DEF Mini!NewHandler
  <1>6. waits' = FALSE => l = b
    BY DEF Live
  <1> HIDE DEF b, l
  <1>7. peak' \in Nat /\ b + 1 <= peak' /\ l + 1 <= peak' + (IF waits' THEN 1 ELSE 0)
    <2>1. CASE waits'
      BY <1>4, <1>5, <2>1
    <2>2. CASE ~waits'
      BY <1>4, <1>5, <1>6, <2>2
    <2> QED
      BY <2>1, <2>2
  <1> QED
    BY <1>3, <1>7 DEF MiniCount

\* Steps that leave no handler more than there was.
LEMMA MiniCountLess ==
  ASSUME MiniCount, MiniData, peak' = peak, waits' = waits \/ waits' = TRUE,
         Mini!Busy' \subseteq Mini!Busy, Live' \subseteq Live
  PROVE  MiniCount'
  <1>1. Cardinality(Mini!Busy') <= Cardinality(Mini!Busy) /\ Cardinality(Live') <= Cardinality(Live)
    BY MiniFinite, FS_Subset
  <1>2. Cardinality(Mini!Busy') \in Nat /\ Cardinality(Live') \in Nat
    BY MiniFinite, FS_Subset, FS_CardinalityType
  <1>3. Cardinality(Mini!Busy') = Cardinality(Mini!Busy)' /\ Cardinality(Live') = Cardinality(Live)'
    OBVIOUS
  <1> DEFINE b == Cardinality(Mini!Busy)
             l == Cardinality(Live)
             d == Cardinality(Mini!Busy')
             m == Cardinality(Live')
  <1>4. /\ b \in Nat /\ l \in Nat /\ peak \in Nat /\ b <= peak /\ l <= peak + (IF waits THEN 1 ELSE 0)
        /\ d \in Nat /\ m \in Nat /\ d <= b /\ m <= l
    BY <1>1, <1>2, MiniFinite DEF MiniCount
  <1>5. waits \in BOOLEAN
    BY DEF MiniData
  <1> HIDE DEF b, l, d, m
  <1>6. d <= peak /\ m <= peak + (IF waits' THEN 1 ELSE 0)
    <2>1. CASE waits
      <3>1. waits' = TRUE /\ waits = TRUE
        BY <1>5, <2>1
      <3>2. d <= peak /\ m <= peak + 1
        BY <1>4, <3>1
      <3> QED
        BY <3>1, <3>2
    <2>2. CASE ~waits
      <3>1. d <= peak /\ m <= peak /\ peak <= peak + 1
        BY <1>4, <2>2
      <3> QED
        BY <1>4, <3>1
    <2> QED
      BY <2>1, <2>2
  <1> QED
    BY <1>3, <1>4, <1>6 DEF MiniCount, d, m

LEMMA MiniCountNext ==
  ASSUME MiniData, MiniData', MiniCount, [Mini!Next]_miniVars
  PROVE  MiniCount'
  <1>1. CASE UNCHANGED miniVars
    BY <1>1 DEF MiniCount, Live, Mini!Busy, Mini!Zombies, miniVars
  <1>2. ASSUME NEW c \in Clients,
               Mini!Connect(c) \/ Mini!SendMessage(c) \/ Mini!Receive(c) \/ Mini!Leave(c)
                 \/ Mini!Accept(c) \/ Mini!DispatchNone(c)
        PROVE  MiniCount'
    <2>1. UNCHANGED <<handler, peak, waits>>
      BY <1>2 DEF Mini!Connect, Mini!SendMessage, Mini!Receive, Mini!Leave, Mini!Accept,
         Mini!DispatchNone
    <2> QED
      BY <2>1 DEF MiniCount, Live, Mini!Busy, Mini!Zombies
  <1>3. ASSUME NEW c \in Clients, Mini!DispatchFork(c) PROVE MiniCount'
    <2>1. Mini!Dispatching /\ client_sock = c /\ waits' = TRUE
      BY <1>3 DEF Mini!DispatchFork
    <2>2. waits = FALSE /\ handler[c] = "none"
      BY <2>1 DEF MiniData, Mini!Dispatching
    <2>3. CASE Mini!NewHandler(c, "reading")
      BY <2>1, <2>2, <2>3, MiniCountMore
    <2>4. CASE UNCHANGED <<handler, peak>>
      <3>1. Mini!Busy' = Mini!Busy /\ Live' = Live
        BY <2>4 DEF Live, Mini!Busy, Mini!Zombies
      <3> QED
        BY <2>1, <2>4, <3>1, MiniCountLess
    <2> QED
      BY <1>3, <2>3, <2>4 DEF Mini!DispatchFork
  <1>4. ASSUME NEW c \in Clients, Mini!DispatchThread(c) PROVE MiniCount'
    <2>1. Mini!Dispatching /\ client_sock = c /\ waits' = waits /\ mode = "thread"
      BY <1>4 DEF Mini!DispatchThread
    <2>2. waits = FALSE /\ handler[c] = "none" /\ Mini!Zombies = {}
      BY <2>1 DEF MiniData, Mini!Dispatching, Mini!Zombies
    <2>3. CASE Mini!NewHandler(c, "started")
      BY <2>1, <2>2, <2>3, MiniCountMore
    <2>4. CASE UNCHANGED <<handler, peak>>
      BY <2>1, <2>4 DEF MiniCount, Live, Mini!Busy, Mini!Zombies
    <2> QED
      BY <1>4, <2>3, <2>4 DEF Mini!DispatchThread
  <1>5. ASSUME Mini!Reap PROVE MiniCount'
    <2>1. waits /\ waits' = FALSE /\ peak' = peak /\ Mini!ReapOne
      BY <1>5 DEF Mini!Reap
    <2>2. CASE Mini!Zombies = {} /\ handler' = handler
      <3>1. Mini!Busy' = Mini!Busy /\ Live' = Mini!Busy
        BY <2>2 DEF Live, Mini!Busy, Mini!Zombies
      <3>2. peak \in Nat /\ Cardinality(Mini!Busy) <= peak /\ Cardinality(Mini!Busy) \in Nat
        BY MiniFinite DEF MiniCount
      <3> QED
        BY <2>1, <3>1, <3>2 DEF MiniCount
    <2>3. ASSUME NEW z \in Mini!Zombies, handler' = [handler EXCEPT ![z] = "reaped"]
          PROVE  MiniCount'
      <3>1. Mini!Busy' = Mini!Busy /\ Live' = Live \ {z} /\ z \in Live
        BY <2>3 DEF Live, Mini!Busy, Mini!Zombies, MiniData, Mini!TypeOK
      <3>2. Cardinality(Live)' = Cardinality(Live) - 1
        BY <3>1, MiniFinite, FS_RemoveElement
      <3>3. /\ peak \in Nat /\ Cardinality(Mini!Busy) <= peak
            /\ Cardinality(Live) \in Nat /\ Cardinality(Live) <= peak + 1
        BY <2>1, MiniFinite DEF MiniCount
      <3>4. Cardinality(Live)' <= peak + 0
        BY <3>2, <3>3
      <3> QED
        BY <2>1, <3>1, <3>3, <3>4 DEF MiniCount
    <2> QED
      BY <2>1, <2>2, <2>3 DEF Mini!ReapOne
  <1>6. ASSUME NEW c \in Clients, Mini!StartThread(c) PROVE MiniCount'
    <2>1. Mini!Busy' = Mini!Busy /\ Live' = Live /\ UNCHANGED <<peak, waits>>
      BY <1>6 DEF Mini!StartThread, Live, Mini!Busy, Mini!Zombies, MiniData, Mini!TypeOK
    <2> QED
      BY <2>1, MiniCountLess
  <1>7. ASSUME NEW c \in Clients, Mini!Handle(c) PROVE MiniCount'
    <2>1. /\ handler[c] = "reading" /\ UNCHANGED <<peak, waits>>
          /\ handler' = [handler EXCEPT ![c] = IF mode = "fork" THEN "zombie" ELSE "reaped"]
      BY <1>7 DEF Mini!Handle
    <2>2. Mini!Busy' \subseteq Mini!Busy /\ Live' \subseteq Live
      BY <2>1 DEF Live, Mini!Busy, Mini!Zombies, MiniData, Mini!TypeOK
    <2> QED
      BY <2>1, <2>2, MiniCountLess
  <1> QED
    BY <1>1, <1>2, <1>3, <1>4, <1>5, <1>6, <1>7 DEF Mini!Next, Mini!Server, Mini!Handler

LEMMA MiniInit == Init => MiniData /\ MiniCount
  <1> SUFFICES ASSUME Init PROVE MiniData /\ MiniCount
    OBVIOUS
  <1>1. Mini!Init
    BY DEF Init
  <1>2. MiniData
    BY <1>1 DEF Mini!Init, MiniData, Mini!TypeOK, Mini!Dispatching
  <1>3. Mini!Busy = {} /\ Live = {}
    BY <1>1 DEF Mini!Init, Live, Mini!Busy, Mini!Zombies
  <1>4. Cardinality(Mini!Busy) = 0 /\ Cardinality(Live) = 0 /\ peak = 0 /\ waits = FALSE
    BY <1>1, <1>3, FS_EmptySet DEF Mini!Init
  <1> QED
    BY <1>2, <1>4 DEF MiniCount

LEMMA MiniGivesKeepUp == MiniData /\ MiniCount => HandlersKeepUp
  <1> SUFFICES ASSUME MiniData, MiniCount PROVE Mini!HandlersKeepUp
    BY DEF HandlersKeepUp
  <1>1. ~waits => Mini!Cardinality(Mini!Busy \cup Mini!Zombies) <= peak
    BY MiniCounts DEF MiniCount, Live
  <1>2. \A c \in Clients : got[c] \in {None, c} /\ socket[c] \in {None, c}
    BY DEF MiniData
  <1> QED
    BY <1>1, <1>2 DEF Mini!HandlersKeepUp, MiniData

\* One waitpid per accepted connection is enough for any number of clients:
\* the handlers alive and the zombies never outnumber the most that were
\* alive at once, and every client is answered with its own message.
THEOREM HandlersDoKeepUp == Spec => []HandlersKeepUp
  <1>1. MiniData /\ MiniCount /\ [Next]_vars => (MiniData /\ MiniCount)'
    BY OneProgramMoves, MiniDataNext, MiniCountNext
  <1> QED
    BY <1>1, MiniInit, MiniGivesKeepUp, PTL DEF Spec
-----------------------------------------------------------------------------
(***************************************************************************)
(* The job controller of src/signal-based-job-controller.c.                *)
(***************************************************************************)
\* A handler that runs, and those a process is in.
Frame      == [sig : Jobs!Signals, step : Nat \ {0}]
Entries(h) == {h[n] : n \in DOMAIN h}

LEMMA FramePushed ==
  ASSUME NEW h \in Seq(Frame), NEW r \in Frame
  PROVE  <<r>> \o h \in Seq(Frame) /\ Entries(<<r>> \o h) = {r} \cup Entries(h)
  <1> DEFINE k == <<r>> \o h
  <1>1. <<r>> \in Seq(Frame) /\ Len(<<r>>) = 1 /\ <<r>>[1] = r
    OBVIOUS
  <1>2. /\ k \in Seq(Frame) /\ Len(k) = 1 + Len(h)
        /\ \A n \in 1..(1 + Len(h)) : k[n] = IF n <= 1 THEN <<r>>[n] ELSE h[n - 1]
    BY <1>1, ConcatProperties
  <1> HIDE DEF k
  <1>3. Len(h) \in Nat /\ DOMAIN h = 1..Len(h) /\ DOMAIN k = 1..(1 + Len(h))
    BY <1>2, LenProperties
  <1>4. k[1] = r /\ 1 \in DOMAIN k
    BY <1>1, <1>2, <1>3
  <1>5. ASSUME NEW n \in DOMAIN h PROVE n + 1 \in DOMAIN k /\ k[n + 1] = h[n]
    <2>1. n + 1 \in 1..(1 + Len(h)) /\ ~(n + 1 <= 1) /\ (n + 1) - 1 = n
      BY <1>3
    <2> QED
      BY <1>2, <1>3, <2>1
  <1>6. ASSUME NEW n \in DOMAIN k PROVE n = 1 \/ (n - 1 \in DOMAIN h /\ k[n] = h[n - 1])
    BY <1>2, <1>3
  <1>7. Entries(k) = {r} \cup Entries(h)
    BY <1>4, <1>5, <1>6 DEF Entries
  <1> QED
    BY <1>2, <1>7 DEF k

LEMMA FramePopped ==
  ASSUME NEW h \in Seq(Frame), h # <<>>
  PROVE  /\ Tail(h) \in Seq(Frame) /\ Head(h) \in Frame
         /\ Entries(h) = {Head(h)} \cup Entries(Tail(h))
  <1>1. /\ Head(h) \in Frame /\ Tail(h) \in Seq(Frame) /\ Len(Tail(h)) = Len(h) - 1
        /\ \A n \in 1..Len(Tail(h)) : Tail(h)[n] = h[n + 1]
    BY HeadTailProperties
  <1>2. Len(h) \in Nat /\ Len(h) # 0 /\ DOMAIN h = 1..Len(h) /\ Head(h) = h[1]
    BY EmptySeq, LenProperties
  <1> DEFINE k == Tail(h)
             a == Head(h)
  <1>3. DOMAIN k = 1..(Len(h) - 1) /\ \A n \in 1..(Len(h) - 1) : k[n] = h[n + 1]
    BY <1>1, LenProperties
  <1> HIDE DEF k, a
  <1>4. ASSUME NEW n \in DOMAIN k PROVE n + 1 \in DOMAIN h /\ k[n] = h[n + 1]
    BY <1>2, <1>3
  <1>5. ASSUME NEW n \in DOMAIN h PROVE n = 1 \/ (n - 1 \in DOMAIN k /\ k[n - 1] = h[n])
    <2>1. CASE n # 1
      <3>1. n - 1 \in 1..(Len(h) - 1) /\ (n - 1) + 1 = n
        BY <1>2, <2>1
      <3> QED
        BY <1>3, <3>1
    <2> QED
      BY <2>1
  <1>6. 1 \in DOMAIN h /\ h[1] = a
    BY <1>2 DEF a
  <1>7. Entries(h) = {a} \cup Entries(k)
    BY <1>4, <1>5, <1>6 DEF Entries
  <1> QED
    BY <1>1, <1>7 DEF k, a

LEMMA FrameAdvanced ==
  ASSUME NEW h \in Seq(Frame), h # <<>>
  PROVE  LET k == [h EXCEPT ![1].step = @ + 1]
             r == [sig |-> Head(h).sig, step |-> Head(h).step + 1]
         IN  k \in Seq(Frame) /\ r \in Frame /\ Entries(k) = {r} \cup Entries(Tail(h))
  <1> DEFINE k == [h EXCEPT ![1].step = @ + 1]
             r == [sig |-> Head(h).sig, step |-> Head(h).step + 1]
  <1>1. Len(h) \in Nat /\ Len(h) # 0 /\ DOMAIN h = 1..Len(h) /\ Head(h) = h[1] /\ h[1] \in Frame
    BY EmptySeq, LenProperties, HeadTailProperties
  <1>2. [h[1] EXCEPT !.step = @ + 1] = r /\ r \in Frame
    BY <1>1 DEF Frame
  <1>3. k = [h EXCEPT ![1] = r]
    BY <1>1, <1>2
  <1> HIDE DEF k, r
  <1>4. k \in Seq(Frame) /\ Len(k) = Len(h) /\ k[1] = r /\ \A n \in 1..Len(h) : n # 1 => k[n] = h[n]
    BY <1>1, <1>2, <1>3
  <1>5. k # <<>>
    <2>1. Len(k) # 0
      BY <1>1, <1>4
    <2> QED
      BY <2>1
  <1>6. Head(k) = r
    BY <1>4, <1>5, HeadTailProperties
  <1>7. Tail(k) = Tail(h)
    <2>1. /\ Tail(k) \in Seq(Frame) /\ Len(Tail(k)) = Len(h) - 1
          /\ \A n \in 1..(Len(h) - 1) : Tail(k)[n] = k[n + 1]
      BY <1>4, <1>5, HeadTailProperties
    <2>2. /\ Tail(h) \in Seq(Frame) /\ Len(Tail(h)) = Len(h) - 1
          /\ \A n \in 1..(Len(h) - 1) : Tail(h)[n] = h[n + 1]
      BY HeadTailProperties
    <2>3. ASSUME NEW n \in 1..(Len(h) - 1) PROVE k[n + 1] = h[n + 1]
      <3>1. n + 1 \in 1..Len(h) /\ n + 1 # 1
        BY <1>1
      <3> QED
        BY <1>4, <3>1
    <2> DEFINE u == Tail(k)
               v == Tail(h)
    <2>4. /\ u \in Seq(Frame) /\ v \in Seq(Frame) /\ Len(u) = Len(v)
          /\ \A n \in 1..Len(u) : u[n] = v[n]
      BY <2>1, <2>2, <2>3
    <2> HIDE DEF u, v
    <2>5. u = v
      BY <2>4, SeqEqual
    <2> QED
      BY <2>5 DEF u, v
  <1>8. Entries(k) = {r} \cup Entries(Tail(h))
    BY <1>4, <1>5, <1>6, <1>7, FramePopped
  <1> QED
    BY <1>2, <1>4, <1>8 DEF k, r

JobTypes ==
    /\ Jobs!TypeOK
    /\ handlers \in [Jobs!Processes -> Seq(Frame)]
    /\ interrupted \in BOOLEAN
    /\ status[0] \in {"running", "stopped", "dead"}

\* The array holds the children forked so far, the last one perhaps not yet.
JobArray ==
    \A c \in Jobs!Children :
        /\ status[c] = "none" <=> c > forked
        /\ c < forked => children[0][c] = c
        /\ c = forked => children[0][c] \in {0, c}
        /\ c > forked => children[0][c] = 0

\* A handler of SIGTERM in the controller has told the children up to its
\* step, and in its second loop reaped them.
Told(e)  == e.sig = "SIGTERM" =>
              \A c \in Jobs!Children : c < e.step => Jobs!Terminating(c)
Waited(e) == e.sig = "SIGTERM" =>
               \A c \in Jobs!Children :
                 c <= forked /\ NUM_CHILDREN + c < e.step => status[c] = "reaped"

JobTells ==
    /\ \A e \in Entries(handlers[0]) : Told(e) /\ (~interrupted => Waited(e))
    /\ status[0] = "dead" =>
         /\ \A c \in Jobs!Children : Jobs!Terminating(c)
         /\ ~interrupted => \A c \in Jobs!Children : status[c] \in {"none", "dead", "reaped"}

JobInv == JobTypes /\ JobArray /\ JobTells

\* Terminating, said with the handlers as a set.
LEMMA JobTerminating ==
  ASSUME NEW p
  PROVE  Jobs!Terminating(p) <=>
           \/ status[p] \in {"none", "dead", "reaped"}
           \/ "SIGTERM" \in pending[p]
           \/ \E e \in Entries(handlers[p]) : e.sig = "SIGTERM"
  BY DEF Jobs!Terminating, Entries

LEMMA JobNumbers ==
  /\ NUM_CHILDREN \in Nat /\ NUM_CHILDREN # 0
  /\ Jobs!Children = 1..NUM_CHILDREN /\ Jobs!Processes = 0..NUM_CHILDREN
  /\ 0 \in Jobs!Processes /\ 0 \notin Jobs!Children /\ Jobs!Children \subseteq Jobs!Processes
  BY ConstantsAssumption DEF Jobs!Children, Jobs!Processes

LEMMA JobFrames ==
  ASSUME JobTypes, NEW p \in Jobs!Processes, handlers[p] # <<>>
  PROVE  /\ Jobs!Current(p) \in Frame /\ Jobs!Advance(p) \in Seq(Frame)
         /\ Tail(handlers[p]) \in Seq(Frame)
         /\ Entries(handlers[p]) = {Jobs!Current(p)} \cup Entries(Tail(handlers[p]))
         /\ Entries(Jobs!Advance(p)) =
              {[sig |-> Jobs!Current(p).sig, step |-> Jobs!Current(p).step + 1]}
                \cup Entries(Tail(handlers[p]))
  <1>1. handlers[p] \in Seq(Frame)
    BY DEF JobTypes
  <1> QED
    BY <1>1, FramePopped, FrameAdvanced DEF Jobs!Current, Jobs!Advance

\* A signal changes nobody who is not alive and takes nothing from anybody.
LEMMA JobSend ==
  ASSUME JobTypes, NEW to, NEW sig, Jobs!Send(to, sig)
  PROVE  /\ status' \in [Jobs!Processes -> {"none", "running", "stopped", "dead", "reaped"}]
         /\ pending' \in [Jobs!Processes -> SUBSET Jobs!Signals]
         /\ \A p \in Jobs!Processes :
              /\ status[p] \in {"none", "dead", "reaped"} => status'[p] = status[p]
              /\ status[p] \in {"running", "stopped"} => status'[p] \in {"running", "stopped"}
              /\ pending[p] \subseteq pending'[p]
              /\ sig = "SIGTERM" /\ p \in to =>
                   status'[p] \in {"none", "dead", "reaped"} \/ "SIGTERM" \in pending'[p]
  BY DEF JobTypes, Jobs!TypeOK, Jobs!Send, Jobs!Alive, Jobs!Signals

LEMMA JobTypesNext ==
  ASSUME JobTypes, JobArray, [Jobs!Next]_jobVars
  PROVE  JobTypes'
  <1>1. CASE UNCHANGED jobVars
    BY <1>1 DEF JobTypes, Jobs!TypeOK, jobVars
  <1>2. CASE Jobs!Fork
    <2>1. forked + 1 \in Jobs!Children /\ forked + 1 \in Jobs!Processes /\ forked + 1 # 0
          /\ forked + 1 \in 0..NUM_CHILDREN
      BY <1>2, JobNumbers DEF Jobs!Fork, JobTypes, Jobs!TypeOK
    <2> QED
      BY <1>2, <2>1, JobNumbers DEF Jobs!Fork, JobTypes, Jobs!TypeOK
  <1>3. CASE Jobs!StorePid
    BY <1>3, JobNumbers DEF Jobs!StorePid, JobTypes, Jobs!TypeOK
  <1>4. CASE Jobs!UserSends
    <2>1. PICK to, sig : Jobs!Send(to, sig)
      BY <1>4 DEF Jobs!UserSends
    <2>2. UNCHANGED <<children, forked, handlers, interrupted>>
      BY <1>4 DEF Jobs!UserSends
    <2> QED
      BY <2>1, <2>2, JobSend, JobNumbers DEF JobTypes, Jobs!TypeOK
  <1>5. ASSUME NEW p \in Jobs!Processes, NEW sig \in Jobs!Signals, Jobs!Deliver(p, sig)
        PROVE  JobTypes'
    <2> DEFINE r == [sig |-> sig, step |-> 1]
    <2>1. r \in Frame /\ handlers[p] \in Seq(Frame)
      <3>1. r \in Frame
        BY DEF Frame
      <3> QED
        BY <3>1 DEF JobTypes
    <2>2. /\ pending' = [pending EXCEPT ![p] = @ \ {sig}] /\ interrupted' \in BOOLEAN
          /\ UNCHANGED <<status, children, forked>>
      BY <1>5 DEF Jobs!Deliver, JobTypes
    <2>3. CASE handlers' = [handlers EXCEPT ![p] = <<r>> \o @]
      <3>1. <<r>> \o handlers[p] \in Seq(Frame)
        BY <2>1, FramePushed
      <3> QED
        BY <2>2, <2>3, <3>1 DEF JobTypes, Jobs!TypeOK
    <2>4. CASE Jobs!Blocked(p) /\ handlers' = [handlers EXCEPT ![p] = <<r>> \o Jobs!Advance(p)]
      <3>1. <<r>> \o Jobs!Advance(p) \in Seq(Frame)
        BY <2>1, <2>4, JobFrames, FramePushed DEF Jobs!Blocked, Jobs!InWaitpid, Jobs!InHandler
      <3> QED
        BY <2>2, <2>4, <3>1 DEF JobTypes, Jobs!TypeOK
    <2> QED
      BY <1>5, <2>3, <2>4 DEF Jobs!Deliver
  <1>6. ASSUME NEW p \in Jobs!Processes, Jobs!RelaySignal(p) PROVE JobTypes'
    <2>1. PICK to, sig : Jobs!Send(to, sig)
      BY <1>6 DEF Jobs!RelaySignal
    <2>2. /\ handlers[p] # <<>> /\ handlers' = [handlers EXCEPT ![p] = Jobs!Advance(p)]
          /\ UNCHANGED <<children, forked, interrupted>>
      BY <1>6 DEF Jobs!RelaySignal, Jobs!InHandler
    <2>3. Jobs!Advance(p) \in Seq(Frame)
      BY <2>2, JobFrames
    <2> QED
      BY <2>1, <2>2, <2>3, JobSend, JobNumbers DEF JobTypes, Jobs!TypeOK
  <1>7. ASSUME NEW p \in Jobs!Processes, Jobs!Return(p) PROVE JobTypes'
    <2>1. /\ handlers[p] # <<>> /\ handlers' = [handlers EXCEPT ![p] = Tail(handlers[p])]
          /\ UNCHANGED <<status, children, forked, pending, interrupted>>
      BY <1>7 DEF Jobs!Return, Jobs!InHandler
    <2>2. Tail(handlers[p]) \in Seq(Frame)
      BY <2>1, JobFrames
    <2> QED
      BY <2>1, <2>2 DEF JobTypes, Jobs!TypeOK
  <1>8. ASSUME NEW p \in Jobs!Processes, Jobs!Wait(p) PROVE JobTypes'
    <2>1. /\ handlers[p] # <<>> /\ handlers' = [handlers EXCEPT ![p] = Jobs!Advance(p)]
          /\ UNCHANGED <<children, forked, pending, interrupted>>
      BY <1>8 DEF Jobs!Wait, Jobs!InWaitpid, Jobs!InHandler
    <2>2. Jobs!Advance(p) \in Seq(Frame)
      BY <2>1, JobFrames
    <2>3. status' = status \/ \E c \in Jobs!Awaited(p) : status' = [status EXCEPT ![c] = "reaped"]
      BY <1>8 DEF Jobs!Wait
    <2>4. 0 \notin Jobs!Awaited(p)
      BY DEF Jobs!Awaited
    <2> QED
      BY <2>1, <2>2, <2>3, <2>4, JobNumbers DEF JobTypes, Jobs!TypeOK
  <1>9. ASSUME NEW p \in Jobs!Processes, Jobs!Exit(p) PROVE JobTypes'
    <2>1. PICK D :
            /\ status' = [q \in Jobs!Processes |-> IF q \in D THEN "dead" ELSE status[q]]
            /\ pending' = [q \in Jobs!Processes |-> IF q \in D THEN {} ELSE pending[q]]
            /\ handlers' = [q \in Jobs!Processes |-> IF q \in D THEN <<>> ELSE handlers[q]]
            /\ UNCHANGED <<children, forked, interrupted>>
      BY <1>9 DEF Jobs!Exit
    <2>2. <<>> \in Seq(Frame)
      OBVIOUS
    <2> QED
      BY <2>1, <2>2, JobNumbers DEF JobTypes, Jobs!TypeOK
  <1> QED
    BY <1>1, <1>2, <1>3, <1>4, <1>5, <1>6, <1>7, <1>8, <1>9
       DEF Jobs!Next, Jobs!Main, Jobs!Process, Jobs!handle_signal

LEMMA JobArrayNext ==
  ASSUME JobTypes, JobArray, [Jobs!Next]_jobVars
  PROVE  JobArray'
  <1>0. forked \in 0..NUM_CHILDREN /\ forked \in Int
    BY JobNumbers DEF JobTypes, Jobs!TypeOK
  <1>1. CASE UNCHANGED jobVars
    BY <1>1 DEF JobArray, jobVars
  <1>2. CASE Jobs!Fork
    <2>1. /\ forked \in Jobs!Stored \cup {0} /\ forked' = forked + 1
          /\ status' = [status EXCEPT ![forked + 1] = "running"]
          /\ children' = [children EXCEPT ![forked + 1] = children[0]]
          /\ forked + 1 \in Jobs!Children /\ forked + 1 # 0
      BY <1>0, <1>2, JobNumbers DEF Jobs!Fork
    <2>2. children'[0] = children[0]
      BY <2>1, JobNumbers DEF JobTypes, Jobs!TypeOK
    <2>3. ASSUME NEW c \in Jobs!Children
          PROVE  /\ status'[c] = "none" <=> c > forked'
                 /\ c < forked' => children'[0][c] = c
                 /\ c = forked' => children'[0][c] \in {0, c}
                 /\ c > forked' => children'[0][c] = 0
      <3>0. c \in Int /\ c \in Jobs!Processes /\ c # 0
        BY JobNumbers
      <3>1. status'[c] = IF c = forked + 1 THEN "running" ELSE status[c]
        BY <2>1, <3>0 DEF JobTypes, Jobs!TypeOK
      <3>2. status'[c] = "none" <=> c > forked'
        BY <1>0, <2>1, <3>0, <3>1 DEF JobArray
      <3>3. c = forked => children[0][c] = c
        BY <2>1, <3>0 DEF JobArray, Jobs!Stored
      <3> QED
        BY <1>0, <2>1, <2>2, <3>0, <3>2, <3>3 DEF JobArray
    <2> QED
      BY <2>3 DEF JobArray
  <1>3. CASE Jobs!StorePid
    <2>1. /\ children' = [children EXCEPT ![0][forked] = forked] /\ forked # 0
          /\ UNCHANGED <<status, forked>>
      BY <1>3 DEF Jobs!StorePid
    <2>2. children'[0] = [children[0] EXCEPT ![forked] = forked]
      BY <2>1, JobNumbers DEF JobTypes, Jobs!TypeOK
    <2>3. \A c \in Jobs!Children : children'[0][c] = IF c = forked THEN forked ELSE children[0][c]
      BY <2>2, JobNumbers DEF JobTypes, Jobs!TypeOK
    <2> QED
      BY <1>0, <2>1, <2>3, JobNumbers DEF JobArray
  <1>4. ASSUME UNCHANGED <<children, forked>>,
               \A c \in Jobs!Children : status'[c] = "none" <=> status[c] = "none"
        PROVE  JobArray'
    BY <1>4 DEF JobArray
  <1>5. ASSUME UNCHANGED <<children, forked>>, NEW to, NEW sig, Jobs!Send(to, sig) PROVE JobArray'
    <2>1. \A c \in Jobs!Children : status'[c] = "none" <=> status[c] = "none"
      BY <1>5, JobSend, JobNumbers DEF JobTypes, Jobs!TypeOK
    <2> QED
      BY <1>4, <1>5, <2>1
  <1>6. CASE Jobs!UserSends
    <2>1. PICK to, sig : Jobs!Send(to, sig)
      BY <1>6 DEF Jobs!UserSends
    <2> QED
      BY <1>5, <1>6, <2>1 DEF Jobs!UserSends
  <1>7. ASSUME NEW p \in Jobs!Processes, Jobs!RelaySignal(p) PROVE JobArray'
    <2>1. PICK to, sig : Jobs!Send(to, sig)
      BY <1>7 DEF Jobs!RelaySignal
    <2> QED
      BY <1>5, <1>7, <2>1 DEF Jobs!RelaySignal
  <1>8. ASSUME NEW p \in Jobs!Processes, NEW sig, Jobs!Deliver(p, sig) \/ Jobs!Return(p)
        PROVE  JobArray'
    BY <1>4, <1>8 DEF Jobs!Deliver, Jobs!Return
  <1>9. ASSUME NEW p \in Jobs!Processes, Jobs!Wait(p) PROVE JobArray'
    <2>1. \A c \in Jobs!Children : status'[c] = "none" <=> status[c] = "none"
      BY <1>9, JobNumbers DEF Jobs!Wait, Jobs!Awaited, JobTypes, Jobs!TypeOK
    <2> QED
      BY <1>4, <1>9, <2>1 DEF Jobs!Wait
  <1>10. ASSUME NEW p \in Jobs!Processes, Jobs!Exit(p) PROVE JobArray'
    <2>1. status[p] # "none"
      BY <1>10 DEF Jobs!Exit, Jobs!InHandler
    <2>2. \A c \in Jobs!Children : status'[c] = "none" <=> status[c] = "none"
      BY <1>10, <2>1, JobNumbers DEF Jobs!Exit, Jobs!Alive
    <2> QED
      BY <1>4, <1>10, <2>2 DEF Jobs!Exit
  <1> QED
    BY <1>1, <1>2, <1>3, <1>6, <1>7, <1>8, <1>9, <1>10
       DEF Jobs!Next, Jobs!Main, Jobs!Process, Jobs!handle_signal

\* Who is terminating stays so and who is reaped stays so, when nobody forks.
Stays(c) == /\ Jobs!Terminating(c) => Jobs!Terminating(c)'
            /\ status[c] = "reaped" => status'[c] = "reaped"
            /\ status[c] \in {"none", "dead", "reaped"} => status'[c] \in {"none", "dead", "reaped"}

LEMMA JobStaysSent ==
  ASSUME JobTypes, NEW c \in Jobs!Children, NEW to, NEW sig, Jobs!Send(to, sig),
         Entries(handlers'[c]) = Entries(handlers[c]) \/
           \E e, f : e.sig = f.sig /\ \E E : /\ Entries(handlers[c]) = {e} \cup E
                                            /\ Entries(handlers'[c]) = {f} \cup E
  PROVE  Stays(c)
  <1>1. c \in Jobs!Processes
    BY JobNumbers
  <1>2. /\ status[c] \in {"none", "dead", "reaped"} => status'[c] = status[c]
        /\ pending[c] \subseteq pending'[c]
    BY <1>1, JobSend
  <1>3. (\E e \in Entries(handlers[c]) : e.sig = "SIGTERM")
          => \E e \in Entries(handlers'[c]) : e.sig = "SIGTERM"
    OBVIOUS
  <1>4. Jobs!Terminating(c) => Jobs!Terminating(c)'
    BY <1>2, <1>3, JobTerminating DEF Jobs!Terminating, Entries
  <1> QED
    BY <1>2, <1>4 DEF Stays

LEMMA JobStays ==
  ASSUME JobTypes, [Jobs!Next]_jobVars, ~Jobs!Fork, NEW c \in Jobs!Children
  PROVE  Stays(c)
  <1>0. c \in Jobs!Processes /\ c # 0 /\ handlers[c] \in Seq(Frame)
    BY JobNumbers DEF JobTypes
  <1>1. CASE UNCHANGED jobVars \/ Jobs!StorePid
    BY <1>1 DEF Stays, Jobs!Terminating, jobVars, Jobs!StorePid
  <1>2. CASE Jobs!UserSends
    <2>1. PICK to, sig : Jobs!Send(to, sig)
      BY <1>2 DEF Jobs!UserSends
    <2> QED
      BY <1>2, <2>1, JobStaysSent DEF Jobs!UserSends
  <1>3. ASSUME NEW p \in Jobs!Processes, NEW sig \in Jobs!Signals, Jobs!Deliver(p, sig)
        PROVE  Stays(c)
    <2> DEFINE r == [sig |-> sig, step |-> 1]
    <2>1. status' = status /\ pending' = [pending EXCEPT ![p] = @ \ {sig}]
      BY <1>3 DEF Jobs!Deliver
    <2>2. r \in Frame /\ r.sig = sig
      BY DEF Frame
    <2>3. CASE p # c
      <3>1. handlers'[c] = handlers[c] /\ pending'[c] = pending[c]
        BY <1>0, <1>3, <2>1, <2>3 DEF Jobs!Deliver, JobTypes, Jobs!TypeOK
      <3> QED
        BY <2>1, <3>1 DEF Stays, Jobs!Terminating
    <2>4. CASE p = c /\ handlers' = [handlers EXCEPT ![p] = <<r>> \o @]
      <3>1. Entries(handlers'[c]) = {r} \cup Entries(handlers[c])
        BY <1>0, <2>2, <2>4, FramePushed DEF JobTypes
      <3>2. pending'[c] = pending[c] \ {sig}
        BY <1>0, <2>1, <2>4 DEF JobTypes, Jobs!TypeOK
      <3>3. Jobs!Terminating(c) => \/ status'[c] \in {"none", "dead", "reaped"}
                                  \/ "SIGTERM" \in pending'[c]
                                  \/ \E e \in Entries(handlers'[c]) : e.sig = "SIGTERM"
        BY <2>1, <2>2, <3>1, <3>2, JobTerminating
      <3>4. Jobs!Terminating(c) => Jobs!Terminating(c)'
        BY <3>3 DEF Jobs!Terminating, Entries
      <3> QED
        BY <2>1, <3>4 DEF Stays
    <2>5. CASE p = c /\ Jobs!Blocked(p)
      BY <1>0, <2>5 DEF Jobs!Blocked, Jobs!Awaited
    <2> QED
      BY <1>3, <2>3, <2>4, <2>5 DEF Jobs!Deliver
  <1>4. ASSUME NEW p \in Jobs!Processes, Jobs!RelaySignal(p) PROVE Stays(c)
    <2>1. PICK to, sig : Jobs!Send(to, sig)
      BY <1>4 DEF Jobs!RelaySignal
    <2>2. handlers[p] # <<>> /\ handlers' = [handlers EXCEPT ![p] = Jobs!Advance(p)]
      BY <1>4 DEF Jobs!RelaySignal, Jobs!InHandler
    <2>3. CASE p # c
      <3>1. handlers'[c] = handlers[c]
        BY <1>0, <2>2, <2>3 DEF JobTypes
      <3> QED
        BY <2>1, <3>1, JobStaysSent
    <2>4. CASE p = c
      <3> DEFINE e == Jobs!Current(c)
                 f == [sig |-> e.sig, step |-> e.step + 1]
                 E == Entries(Tail(handlers[c]))
      <3>1. handlers'[c] = Jobs!Advance(c)
        BY <1>0, <2>2, <2>4 DEF JobTypes
      <3>2. Entries(handlers[c]) = {e} \cup E /\ Entries(handlers'[c]) = {f} \cup E
        BY <1>0, <2>2, <2>4, <3>1, JobFrames
      <3>3. f.sig = e.sig
        OBVIOUS
      <3> HIDE DEF e, f, E
      <3> QED
        BY <2>1, <3>2, <3>3, JobStaysSent
    <2> QED
      BY <2>3, <2>4
  <1>5. ASSUME NEW p \in Jobs!Processes, Jobs!Return(p) PROVE Stays(c)
    <2>1. /\ handlers[p] # <<>> /\ handlers' = [handlers EXCEPT ![p] = Tail(handlers[p])]
          /\ Jobs!Current(p).sig # "SIGTERM" /\ UNCHANGED <<status, pending>>
      BY <1>5 DEF Jobs!Return, Jobs!InHandler
    <2>2. CASE p # c
      <3>1. handlers'[c] = handlers[c]
        BY <1>0, <2>1, <2>2 DEF JobTypes
      <3> QED
        BY <2>1, <3>1 DEF Stays, Jobs!Terminating
    <2>3. CASE p = c
      <3>1. handlers'[c] = Tail(handlers[c])
        BY <1>0, <2>1, <2>3 DEF JobTypes
      <3>2. Entries(handlers[c]) = {Jobs!Current(c)} \cup Entries(handlers'[c])
        BY <1>0, <2>1, <2>3, <3>1, JobFrames
      <3>3. (\E e \in Entries(handlers[c]) : e.sig = "SIGTERM")
              => \E e \in Entries(handlers'[c]) : e.sig = "SIGTERM"
        BY <2>1, <2>3, <3>2
      <3>4. Jobs!Terminating(c) => Jobs!Terminating(c)'
        BY <2>1, <3>3, JobTerminating DEF Jobs!Terminating, Entries
      <3> QED
        BY <2>1, <3>4 DEF Stays
    <2> QED
      BY <2>2, <2>3
  <1>6. ASSUME NEW p \in Jobs!Processes, Jobs!Wait(p) PROVE Stays(c)
    <2>1. /\ handlers[p] # <<>> /\ handlers' = [handlers EXCEPT ![p] = Jobs!Advance(p)]
          /\ pending' = pending
      BY <1>6 DEF Jobs!Wait, Jobs!InWaitpid, Jobs!InHandler
    <2>2. status'[c] = status[c] \/ (status[c] = "dead" /\ status'[c] = "reaped")
      BY <1>0, <1>6 DEF Jobs!Wait, JobTypes, Jobs!TypeOK
    <2>3. (\E e \in Entries(handlers[c]) : e.sig = "SIGTERM")
            => \E e \in Entries(handlers'[c]) : e.sig = "SIGTERM"
      <3>1. CASE p # c
        <4>1. handlers'[c] = handlers[c]
          BY <1>0, <2>1, <3>1 DEF JobTypes
        <4> QED
          BY <4>1
      <3>2. CASE p = c
        <4> DEFINE e == Jobs!Current(c)
                   f == [sig |-> e.sig, step |-> e.step + 1]
                   E == Entries(Tail(handlers[c]))
        <4>1. handlers'[c] = Jobs!Advance(c)
          BY <1>0, <2>1, <3>2 DEF JobTypes
        <4>2. Entries(handlers[c]) = {e} \cup E /\ Entries(handlers'[c]) = {f} \cup E
          BY <1>0, <2>1, <3>2, <4>1, JobFrames
        <4>3. f.sig = e.sig
          OBVIOUS
        <4> HIDE DEF e, f, E
        <4> QED
          BY <4>2, <4>3
      <3> QED
        BY <3>1, <3>2
    <2>4. Jobs!Terminating(c) => Jobs!Terminating(c)'
      BY <2>1, <2>2, <2>3, JobTerminating DEF Jobs!Terminating, Entries
    <2> QED
      BY <2>2, <2>4 DEF Stays
  <1>7. ASSUME NEW p \in Jobs!Processes, Jobs!Exit(p) PROVE Stays(c)
    <2> DEFINE D == (IF p = 0 /\ \E k \in Jobs!Children : status[k] = "stopped" THEN Jobs!Alive ELSE {})
                       \cup {p}
    <2>1. /\ status' = [q \in Jobs!Processes |-> IF q \in D THEN "dead" ELSE status[q]]
          /\ pending' = [q \in Jobs!Processes |-> IF q \in D THEN {} ELSE pending[q]]
          /\ handlers' = [q \in Jobs!Processes |-> IF q \in D THEN <<>> ELSE handlers[q]]
      BY <1>7 DEF Jobs!Exit
    <2>2. \A q \in D : status[q] \in {"running", "stopped"}
      BY <1>7 DEF Jobs!Exit, Jobs!Alive, Jobs!InHandler
    <2> HIDE DEF D
    <2> QED
      BY <1>0, <2>1, <2>2 DEF Stays, Jobs!Terminating
  <1> QED
    BY <1>1, <1>2, <1>3, <1>4, <1>5, <1>6, <1>7
       DEF Jobs!Next, Jobs!Main, Jobs!Process, Jobs!handle_signal

\* What a frame of the controller stands for stays true.
LEMMA JobKept ==
  ASSUME JobTypes, [Jobs!Next]_jobVars, ~Jobs!Fork, NEW e
  PROVE  /\ Told(e) => Told(e)'
         /\ forked' = forked /\ (Waited(e) => Waited(e)')
  <1>1. \A c \in Jobs!Children : Stays(c)
    BY JobStays
  <1>2. forked' = forked
    BY DEF Jobs!Next, Jobs!Main, Jobs!Process, Jobs!handle_signal, jobVars, Jobs!StorePid,
       Jobs!UserSends, Jobs!Deliver, Jobs!RelaySignal, Jobs!Return, Jobs!Wait, Jobs!Exit
  <1> QED
    BY <1>1, <1>2 DEF Stays, Told, Waited

\* Once the controller is dead nothing gets lost, and nobody comes to life.
LEMMA JobAfterwards ==
  ASSUME JobInv, [Jobs!Next]_jobVars, ~Jobs!Fork, status[0] = "dead",
         interrupted' = FALSE => interrupted = FALSE
  PROVE  /\ \A c \in Jobs!Children : Jobs!Terminating(c)'
         /\ ~interrupted' => \A c \in Jobs!Children : status'[c] \in {"none", "dead", "reaped"}
  <1>1. \A c \in Jobs!Children : Stays(c)
    BY JobStays DEF JobInv
  <1> QED
    BY <1>1 DEF Stays, JobInv, JobTells, JobTypes

\* Steps after which the controller is in the same handlers, or in one more
\* or fewer, at the beginning of the new one.
LEMMA JobTellsSame ==
  ASSUME JobInv, JobTypes', [Jobs!Next]_jobVars, ~Jobs!Fork, interrupted' = FALSE => interrupted = FALSE,
         NEW N, Entries(handlers'[0]) \subseteq Entries(handlers[0]) \cup N,
         \A e \in N : Told(e)' /\ (~interrupted' => Waited(e)'),
         status'[0] = "dead" => status[0] = "dead"
  PROVE  JobTells'
  <1>1. \A e \in Entries(handlers[0]) : Told(e) /\ (~interrupted => Waited(e))
    BY DEF JobInv, JobTells
  <1>2. \A e \in Entries(handlers[0]) : Told(e)' /\ (~interrupted' => Waited(e)')
    BY <1>1, JobKept DEF JobInv, JobTypes
  <1>3. \A e \in Entries(handlers'[0]) : Told(e)' /\ (~interrupted' => Waited(e)')
    BY <1>2
  <1>4. status'[0] = "dead" =>
          /\ \A c \in Jobs!Children : Jobs!Terminating(c)'
          /\ ~interrupted' => \A c \in Jobs!Children : status'[c] \in {"none", "dead", "reaped"}
    BY JobAfterwards
  <1> QED
    BY <1>3, <1>4 DEF JobTells

LEMMA JobTellsNoMore ==
  ASSUME JobInv, JobTypes', [Jobs!Next]_jobVars, ~Jobs!Fork, interrupted' = FALSE => interrupted = FALSE,
         Entries(handlers'[0]) \subseteq Entries(handlers[0]),
         status'[0] = "dead" => status[0] = "dead"
  PROVE  JobTells'
  <1> DEFINE N == {}
  <1>1. Entries(handlers'[0]) \subseteq Entries(handlers[0]) \cup N
    OBVIOUS
  <1>2. \A e \in N : Told(e)' /\ (~interrupted' => Waited(e)')
    OBVIOUS
  <1> HIDE DEF N
  <1> QED
    BY <1>1, <1>2, JobTellsSame

LEMMA JobTellsRelay ==
  ASSUME JobInv, JobTypes', [Jobs!Next]_jobVars, ~Jobs!Fork,
         NEW p \in Jobs!Processes, Jobs!RelaySignal(p)
  PROVE  JobTells'
  <1>0. JobTypes /\ JobArray /\ JobTells
    BY DEF JobInv
  <1>1. /\ handlers[p] # <<>> /\ handlers' = [handlers EXCEPT ![p] = Jobs!Advance(p)]
        /\ Jobs!Current(p).step <= NUM_CHILDREN
        /\ Jobs!Send(Jobs!Targets(children[p][Jobs!Current(p).step]), Jobs!Relayed[Jobs!Current(p).sig])
        /\ UNCHANGED <<children, forked, interrupted>>
    BY DEF Jobs!RelaySignal, Jobs!InHandler
  <1>2. status'[0] = "dead" => status[0] = "dead"
    BY <1>0, <1>1, JobSend, JobNumbers DEF JobTypes
  <1>3. CASE p # 0
    <2>1. handlers'[0] = handlers[0]
      BY <1>0, <1>1, <1>3, JobNumbers DEF JobTypes
    <2> QED
      BY <1>1, <1>2, <2>1, JobTellsNoMore
  <1>4. CASE p = 0
    <2>0. PICK e, E : e = Jobs!Current(0) /\ E = Entries(Tail(handlers[0]))
      OBVIOUS
    <2> DEFINE f == [sig |-> e.sig, step |-> e.step + 1]
    <2>1. handlers'[0] = Jobs!Advance(0)
      BY <1>0, <1>1, <1>4, JobNumbers DEF JobTypes
    <2>2. /\ Entries(handlers[0]) = {e} \cup E /\ Entries(handlers'[0]) = {f} \cup E
          /\ e \in Frame
      BY <1>0, <1>1, <1>4, <2>0, <2>1, JobFrames, JobNumbers
    <2>3. e.step \in Nat /\ e.step # 0 /\ e.step <= NUM_CHILDREN /\ e.step \in Jobs!Children
      BY <1>1, <1>4, <2>0, <2>2, JobNumbers DEF Frame
    <2>4. f.sig = e.sig /\ f.step = e.step + 1
      OBVIOUS
    <2>5. Told(e)
      BY <1>0, <2>2 DEF JobTells
    <2>6. Jobs!Send(Jobs!Targets(children[0][e.step]), Jobs!Relayed[e.sig])
      BY <1>1, <1>4, <2>0
    <2> HIDE DEF f
    <2>7. Told(f)'
      <3> SUFFICES ASSUME e.sig = "SIGTERM", NEW c \in Jobs!Children, c < e.step + 1
                   PROVE  Jobs!Terminating(c)'
        BY <2>4 DEF Told
      <3>1. CASE c < e.step
        <4>1. Jobs!Terminating(c)
          BY <2>5, <3>1 DEF Told
        <4> QED
          BY <1>0, <4>1, JobStays DEF Stays
      <3>2. CASE ~(c < e.step)
        <4>1. c = e.step
          BY <2>3, <3>2, JobNumbers
        <4>2. children[0][c] \in {0, c}
          <5>1. c \in Int /\ forked \in Int
            BY <1>0, JobNumbers DEF JobTypes, Jobs!TypeOK
          <5>2. c < forked \/ c = forked \/ c > forked
            BY <5>1
          <5> QED
            BY <1>0, <5>2 DEF JobArray
        <4>3. c \in Jobs!Targets(children[0][c])
          BY <4>2, JobNumbers DEF Jobs!Targets
        <4>4. Jobs!Relayed[e.sig] = "SIGTERM"
          BY DEF Jobs!Relayed
        <4>5. status'[c] \in {"none", "dead", "reaped"} \/ "SIGTERM" \in pending'[c]
          BY <1>0, <2>6, <4>1, <4>3, <4>4, JobSend, JobNumbers
        <4> QED
          BY <4>5 DEF Jobs!Terminating
      <3> QED
        BY <3>1, <3>2
    <2>8. Waited(f)'
      <3>1. ASSUME NEW c \in Jobs!Children, NUM_CHILDREN + c < e.step + 1 PROVE FALSE
        BY <2>3, <3>1, JobNumbers
      <3> QED
        BY <2>4, <3>1 DEF Waited
    <2>9. Entries(handlers'[0]) \subseteq Entries(handlers[0]) \cup {f}
      BY <2>2
    <2>10. \A d \in {f} : Told(d)' /\ (~interrupted' => Waited(d)')
      BY <2>7, <2>8
    <2> DEFINE N == {f}
    <2>11. /\ Entries(handlers'[0]) \subseteq Entries(handlers[0]) \cup N
           /\ \A d \in N : Told(d)' /\ (~interrupted' => Waited(d)')
           /\ status'[0] = "dead" => status[0] = "dead"
           /\ interrupted' = FALSE => interrupted = FALSE
      BY <1>1, <1>2, <2>9, <2>10
    <2> HIDE DEF N
    <2> QED
      BY <2>11, JobTellsSame
  <1> QED
    BY <1>3, <1>4

LEMMA JobTellsDeliver ==
  ASSUME JobInv, JobTypes', [Jobs!Next]_jobVars, ~Jobs!Fork,
         NEW p \in Jobs!Processes, NEW sig \in Jobs!Signals, Jobs!Deliver(p, sig)
  PROVE  JobTells'
  <1> DEFINE r == [sig |-> sig, step |-> 1]
  <1>0. JobTypes /\ JobArray /\ JobTells
    BY DEF JobInv
  <1>1. UNCHANGED <<status, forked>> /\ (interrupted' = FALSE => interrupted = FALSE)
    BY DEF Jobs!Deliver
  <1>2. CASE p # 0
    <2>1. handlers'[0] = handlers[0]
      BY <1>0, <1>2, JobNumbers DEF JobTypes, Jobs!Deliver
    <2> QED
      BY <1>1, <2>1, JobTellsNoMore
  <1>3. Told(r)' /\ Waited(r)'
    <2>1. \A c \in Jobs!Children : ~(c < 1) /\ ~(NUM_CHILDREN + c < 1)
      BY JobNumbers
    <2> QED
      BY <2>1 DEF Told, Waited
  <1>4. r \in Frame /\ handlers[0] \in Seq(Frame)
    <2>1. r \in Frame
      BY DEF Frame
    <2> QED
      BY <1>0, <2>1, JobNumbers DEF JobTypes
  <1>5. CASE p = 0 /\ handlers' = [handlers EXCEPT ![p] = <<r>> \o @]
    <2>1. handlers'[0] = <<r>> \o handlers[0]
      BY <1>0, <1>5, JobNumbers DEF JobTypes
    <2>2. Entries(handlers'[0]) = {r} \cup Entries(handlers[0])
      BY <1>4, <2>1, FramePushed
    <2>3. \A d \in {r} : Told(d)' /\ (~interrupted' => Waited(d)')
      BY <1>3
    <2>4. Entries(handlers'[0]) \subseteq Entries(handlers[0]) \cup {r}
      BY <2>2
    <2> HIDE DEF r
    <2> DEFINE N == {r}
    <2>11. /\ Entries(handlers'[0]) \subseteq Entries(handlers[0]) \cup N
           /\ \A d \in N : Told(d)' /\ (~interrupted' => Waited(d)')
           /\ status'[0] = "dead" => status[0] = "dead"
           /\ interrupted' = FALSE => interrupted = FALSE
      BY <1>1, <2>3, <2>4
    <2> HIDE DEF N
    <2> QED
      BY <2>11, JobTellsSame
  <1>6. CASE /\ p = 0 /\ Jobs!Blocked(p) /\ interrupted' = TRUE
             /\ handlers' = [handlers EXCEPT ![p] = <<r>> \o Jobs!Advance(p)]
    <2>0. PICK e, E : e = Jobs!Current(0) /\ E = Entries(Tail(handlers[0]))
      OBVIOUS
    <2> DEFINE f == [sig |-> e.sig, step |-> e.step + 1]
    <2>1. handlers'[0] = <<r>> \o Jobs!Advance(0)
      BY <1>0, <1>6, JobNumbers DEF JobTypes
    <2>2. /\ handlers[0] # <<>> /\ e.step \in (NUM_CHILDREN + 1)..(2 * NUM_CHILDREN)
      BY <1>6, <2>0 DEF Jobs!Blocked, Jobs!InWaitpid, Jobs!InHandler
    <2>3. /\ Entries(handlers[0]) = {e} \cup E /\ Entries(Jobs!Advance(0)) = {f} \cup E
          /\ Jobs!Advance(0) \in Seq(Frame)
      BY <1>0, <2>0, <2>2, JobFrames, JobNumbers
    <2>4. Entries(handlers'[0]) = {r} \cup ({f} \cup E)
      BY <1>4, <2>1, <2>3, FramePushed
    <2>5. f.sig = e.sig /\ f.step = e.step + 1
      OBVIOUS
    <2>6. Told(e)
      BY <1>0, <2>3 DEF JobTells
    <2> HIDE DEF f, r
    <2>7. Told(f)'
      <3>1. \A c \in Jobs!Children : c < e.step
        BY <2>2, JobNumbers
      <3>2. Told(f)
        BY <2>5, <2>6, <3>1 DEF Told
      <3> QED
        BY <1>0, <3>2, JobKept
    <2>8. Entries(handlers'[0]) \subseteq Entries(handlers[0]) \cup {r, f}
      BY <2>3, <2>4
    <2>9. \A d \in {r, f} : Told(d)' /\ (~interrupted' => Waited(d)')
      BY <1>3, <1>6, <2>7
    <2> DEFINE N == {r, f}
    <2>11. /\ Entries(handlers'[0]) \subseteq Entries(handlers[0]) \cup N
           /\ \A d \in N : Told(d)' /\ (~interrupted' => Waited(d)')
           /\ status'[0] = "dead" => status[0] = "dead"
           /\ interrupted' = FALSE => interrupted = FALSE
      BY <1>1, <2>8, <2>9
    <2> HIDE DEF N
    <2> QED
      BY <2>11, JobTellsSame
  <1> QED
    BY <1>2, <1>5, <1>6 DEF Jobs!Deliver

\* One waitpid of the controller, and the child that it was for.
LEMMA JobReaps ==
  ASSUME JobInv, Jobs!Wait(0), ~interrupted, NEW c \in Jobs!Children, c <= forked,
         Jobs!Current(0).step = NUM_CHILDREN + c, Jobs!Current(0).sig = "SIGTERM",
         Waited(Jobs!Current(0))
  PROVE  status'[c] = "reaped"
  <1>0. JobTypes /\ JobArray /\ c \in Int /\ forked \in Int /\ forked \in 0..NUM_CHILDREN
    <2>1. JobTypes /\ JobArray
      BY DEF JobInv
    <2>2. forked \in 0..NUM_CHILDREN
      BY <2>1 DEF JobTypes, Jobs!TypeOK
    <2> QED
      BY <2>1, <2>2, JobNumbers
  <1>1. Jobs!Current(0).step - NUM_CHILDREN = c
    BY <1>0, JobNumbers
  <1>2. Jobs!Awaited(0) =
          {k \in Jobs!Targets(children[0][c]) : k # 0 /\ status[k] \notin {"none", "reaped"}}
    BY <1>1 DEF Jobs!Awaited
  <1>3. status[c] # "none"
    BY <1>0 DEF JobArray
  <1>4. CASE c < forked
    <2>1. Jobs!Targets(children[0][c]) = {c}
      BY <1>0, <1>4, JobNumbers DEF JobArray, Jobs!Targets
    <2> QED
      BY <1>0, <1>2, <1>3, <2>1, JobNumbers DEF Jobs!Wait, JobTypes, Jobs!TypeOK
  <1>5. CASE c = forked
    <2>1. children[0][c] \in {0, c}
      BY <1>0, <1>5 DEF JobArray
    <2>2. c \in Jobs!Targets(children[0][c]) /\ Jobs!Targets(children[0][c]) \subseteq Jobs!Processes
      BY <2>1, JobNumbers DEF Jobs!Targets
    <2>3. \A k \in Jobs!Awaited(0) : k = c
      <3> SUFFICES ASSUME NEW k \in Jobs!Awaited(0) PROVE k = c
        OBVIOUS
      <3>1. k \in Jobs!Children /\ status[k] \notin {"none", "reaped"}
        BY <1>2, <2>2, JobNumbers
      <3>2. ~(k > forked)
        BY <3>1 DEF JobInv, JobArray
      <3>3. ~(k < forked)
        <4>1. SUFFICES ASSUME k < forked PROVE FALSE
          OBVIOUS
        <4>2. k <= forked /\ NUM_CHILDREN + k < Jobs!Current(0).step
          BY <1>0, <1>5, <3>1, <4>1, JobNumbers
        <4> QED
          BY <3>1, <4>2 DEF Waited
      <3> QED
        BY <1>0, <1>5, <3>1, <3>2, <3>3, JobNumbers
    <2>4. CASE Jobs!Awaited(0) = {} /\ status' = status
      BY <1>2, <1>3, <2>2, <2>4, JobNumbers
    <2>5. ASSUME NEW k \in Jobs!Awaited(0), status' = [status EXCEPT ![k] = "reaped"]
          PROVE  status'[c] = "reaped"
      BY <1>0, <2>3, <2>5, JobNumbers DEF JobTypes, Jobs!TypeOK
    <2> QED
      BY <2>4, <2>5 DEF Jobs!Wait
  <1> QED
    BY <1>0, <1>4, <1>5

LEMMA JobTellsWait ==
  ASSUME JobInv, JobTypes', [Jobs!Next]_jobVars, ~Jobs!Fork,
         NEW p \in Jobs!Processes, Jobs!Wait(p)
  PROVE  JobTells'
  <1>0. JobTypes /\ JobArray /\ JobTells
    BY DEF JobInv
  <1>1. /\ handlers[p] # <<>> /\ handlers' = [handlers EXCEPT ![p] = Jobs!Advance(p)]
        /\ Jobs!Current(p).step \in (NUM_CHILDREN + 1)..(2 * NUM_CHILDREN)
        /\ Jobs!Current(p).sig = "SIGTERM"
        /\ UNCHANGED <<children, forked, interrupted>>
    BY DEF Jobs!Wait, Jobs!InWaitpid, Jobs!InHandler
  <1>2. status'[0] = status[0]
    BY <1>0, JobNumbers DEF Jobs!Wait, Jobs!Awaited, JobTypes, Jobs!TypeOK
  <1>3. CASE p # 0
    <2>1. handlers'[0] = handlers[0]
      BY <1>0, <1>1, <1>3, JobNumbers DEF JobTypes
    <2> QED
      BY <1>1, <1>2, <2>1, JobTellsNoMore
  <1>4. CASE p = 0
    <2>0. PICK e, E : e = Jobs!Current(0) /\ E = Entries(Tail(handlers[0]))
      OBVIOUS
    <2> DEFINE f == [sig |-> e.sig, step |-> e.step + 1]
               N == {f}
    <2>1. handlers'[0] = Jobs!Advance(0)
      BY <1>0, <1>1, <1>4, JobNumbers DEF JobTypes
    <2>2. Entries(handlers[0]) = {e} \cup E /\ Entries(handlers'[0]) = {f} \cup E
      BY <1>0, <1>1, <1>4, <2>0, <2>1, JobFrames, JobNumbers
    <2>3. e.step \in (NUM_CHILDREN + 1)..(2 * NUM_CHILDREN) /\ e.sig = "SIGTERM"
      BY <1>1, <1>4, <2>0
    <2>4. f.sig = e.sig /\ f.step = e.step + 1
      OBVIOUS
    <2>5. Told(e) /\ (~interrupted => Waited(e))
      BY <1>0, <2>2 DEF JobTells
    <2>6. Entries(handlers'[0]) \subseteq Entries(handlers[0]) \cup N
      BY <2>2
    <2> HIDE DEF f
    <2>7. Told(f)'
      <3>1. \A c \in Jobs!Children : c < e.step
        BY <2>3, JobNumbers
      <3>2. Told(f)
        BY <2>4, <2>5, <3>1 DEF Told
      <3> QED
        BY <1>0, <3>2, JobKept
    <2>8. ASSUME ~interrupted' PROVE Waited(f)'
      <3> SUFFICES ASSUME NEW c \in Jobs!Children, c <= forked, NUM_CHILDREN + c < e.step + 1
                   PROVE  status'[c] = "reaped"
        BY <1>1, <2>4 DEF Waited
      <3>1. CASE NUM_CHILDREN + c < e.step
        <4>1. status[c] = "reaped"
          BY <1>1, <2>3, <2>5, <2>8, <3>1 DEF Waited
        <4> QED
          BY <1>0, <4>1, JobStays DEF Stays
      <3>2. CASE ~(NUM_CHILDREN + c < e.step)
        <4>1. e.step = NUM_CHILDREN + c
          BY <2>3, <3>2, JobNumbers
        <4> QED
          BY <1>1, <1>4, <2>0, <2>3, <2>5, <2>8, <4>1, JobReaps
      <3> QED
        BY <3>1, <3>2
    <2>9. \A d \in N : Told(d)' /\ (~interrupted' => Waited(d)')
      BY <2>7, <2>8
    <2> HIDE DEF N
    <2> QED
      BY <1>1, <1>2, <2>6, <2>9, JobTellsSame
  <1> QED
    BY <1>3, <1>4

LEMMA JobTellsExit ==
  ASSUME JobInv, JobTypes', [Jobs!Next]_jobVars, ~Jobs!Fork,
         NEW p \in Jobs!Processes, Jobs!Exit(p)
  PROVE  JobTells'
  <1> DEFINE D == (IF p = 0 /\ \E k \in Jobs!Children : status[k] = "stopped" THEN Jobs!Alive ELSE {})
                     \cup {p}
  <1>0. JobTypes /\ JobArray /\ JobTells
    BY DEF JobInv
  <1>1. /\ status' = [q \in Jobs!Processes |-> IF q \in D THEN "dead" ELSE status[q]]
        /\ handlers' = [q \in Jobs!Processes |-> IF q \in D THEN <<>> ELSE handlers[q]]
        /\ handlers[p] # <<>> /\ Jobs!Current(p).sig = "SIGTERM"
        /\ Jobs!Current(p).step > 2 * NUM_CHILDREN
        /\ UNCHANGED <<children, forked, interrupted>>
    BY DEF Jobs!Exit, Jobs!InHandler
  <1>2. CASE p # 0
    <2>1. handlers'[0] = handlers[0] /\ status'[0] = status[0]
      BY <1>1, <1>2, JobNumbers
    <2> QED
      BY <1>1, <2>1, JobTellsNoMore
  <1>3. CASE p = 0
    <2>1. handlers'[0] = <<>>
      BY <1>1, <1>3, JobNumbers
    <2>2. Entries(handlers'[0]) = {}
      BY <2>1 DEF Entries
    <2>3. PICK e : e = Jobs!Current(0)
      OBVIOUS
    <2>4. e \in Entries(handlers[0]) /\ e \in Frame
      BY <1>0, <1>1, <1>3, <2>3, JobFrames, JobNumbers
    <2>5. e.sig = "SIGTERM" /\ e.step > 2 * NUM_CHILDREN /\ e.step \in Nat
      BY <1>1, <1>3, <2>3, <2>4 DEF Frame
    <2>6. Told(e) /\ (~interrupted => Waited(e))
      BY <1>0, <2>4 DEF JobTells
    <2>7. ASSUME NEW c \in Jobs!Children PROVE Jobs!Terminating(c)'
      <3>1. c < e.step
        BY <2>5, JobNumbers
      <3>2. Jobs!Terminating(c)
        BY <2>5, <2>6, <3>1 DEF Told
      <3> QED
        BY <1>0, <3>2, JobStays DEF Stays
    <2>8. ASSUME ~interrupted', NEW c \in Jobs!Children
          PROVE  status'[c] \in {"none", "dead", "reaped"}
      <3>1. CASE c <= forked
        <4>1. NUM_CHILDREN + c < e.step
          BY <2>5, JobNumbers
        <4>2. status[c] = "reaped"
          BY <1>1, <2>5, <2>6, <2>8, <3>1, <4>1 DEF Waited
        <4> QED
          BY <1>0, <4>2, JobStays DEF Stays
      <3>2. CASE ~(c <= forked)
        <4>1. c > forked
          BY <1>0, <3>2, JobNumbers DEF JobTypes, Jobs!TypeOK
        <4>2. status[c] = "none"
          BY <1>0, <4>1 DEF JobArray
        <4> QED
          BY <1>0, <4>2, JobStays DEF Stays
      <3> QED
        BY <3>1, <3>2
    <2> QED
      BY <2>2, <2>7, <2>8 DEF JobTells
  <1> QED
    BY <1>2, <1>3

LEMMA JobNext ==
  ASSUME JobInv, [Jobs!Next]_jobVars
  PROVE  JobInv'
  <1>0. JobTypes /\ JobArray /\ JobTells
    BY DEF JobInv
  <1>1. JobTypes' /\ JobArray'
    BY <1>0, JobTypesNext, JobArrayNext
  <1>2. CASE Jobs!Fork
    <2>1. handlers[0] = <<>> /\ handlers' = handlers /\ status[0] = "running"
          /\ status' = [status EXCEPT ![forked + 1] = "running"] /\ forked + 1 # 0
      BY <1>0, <1>2 DEF Jobs!Fork, Jobs!MainRuns, JobTypes, Jobs!TypeOK
    <2>2. Entries(handlers'[0]) = {} /\ status'[0] = "running"
      BY <1>0, <2>1, JobNumbers DEF Entries, JobTypes, Jobs!TypeOK
    <2>3. JobTells'
      BY <2>2 DEF JobTells
    <2> QED
      BY <1>1, <2>3 DEF JobInv
  <1>3. CASE ~Jobs!Fork
    <2>1. ASSUME UNCHANGED jobVars \/ Jobs!StorePid PROVE JobTells'
      <3>1. handlers'[0] = handlers[0] /\ UNCHANGED <<status, interrupted>>
        BY <2>1 DEF jobVars, Jobs!StorePid
      <3> QED
        BY <1>1, <1>3, <3>1, JobTellsNoMore
    <2>2. ASSUME Jobs!UserSends PROVE JobTells'
      <3>1. PICK to, sig : Jobs!Send(to, sig)
        BY <2>2 DEF Jobs!UserSends
      <3>2. status'[0] = "dead" => status[0] = "dead"
        BY <1>0, <3>1, JobSend, JobNumbers DEF JobTypes
      <3> QED
        BY <1>1, <1>3, <2>2, <3>2, JobTellsNoMore DEF Jobs!UserSends
    <2>3. ASSUME NEW p \in Jobs!Processes, Jobs!Return(p) PROVE JobTells'
      <3>1. /\ handlers[p] # <<>> /\ handlers' = [handlers EXCEPT ![p] = Tail(handlers[p])]
            /\ UNCHANGED <<status, interrupted>>
        BY <2>3 DEF Jobs!Return, Jobs!InHandler
      <3>2. Entries(handlers'[0]) \subseteq Entries(handlers[0])
        <4>1. CASE p = 0
          <5>1. handlers'[0] = Tail(handlers[0])
            BY <1>0, <3>1, <4>1, JobNumbers DEF JobTypes
          <5> QED
            BY <1>0, <3>1, <4>1, <5>1, JobFrames, JobNumbers
        <4>2. CASE p # 0
          <5>1. handlers'[0] = handlers[0]
            BY <1>0, <3>1, <4>2, JobNumbers DEF JobTypes
          <5> QED
            BY <5>1
        <4> QED
          BY <4>1, <4>2
      <3> QED
        BY <1>1, <1>3, <3>1, <3>2, JobTellsNoMore
    <2>4. JobTells'
      BY <1>1, <1>3, <2>1, <2>2, <2>3, JobTellsDeliver, JobTellsRelay, JobTellsWait, JobTellsExit
         DEF Jobs!Next, Jobs!Main, Jobs!Process, Jobs!handle_signal
    <2> QED
      BY <1>1, <2>4 DEF JobInv
  <1> QED
    BY <1>2, <1>3

LEMMA JobInit == Init => JobInv
  <1> SUFFICES ASSUME Init PROVE JobInv
    OBVIOUS
  <1>1. Jobs!Init
    BY DEF Init
  <1>2. JobTypes
    <2>1. <<>> \in Seq(Frame)
      OBVIOUS
    <2> QED
      BY <1>1, <2>1, JobNumbers DEF Jobs!Init, JobTypes, Jobs!TypeOK
  <1>3. JobArray
    BY <1>1, JobNumbers DEF Jobs!Init, JobArray
  <1>4. handlers[0] = <<>> /\ status[0] = "running"
    BY <1>1, JobNumbers DEF Jobs!Init
  <1>5. JobTells
    BY <1>4 DEF JobTells, Entries
  <1> QED
    BY <1>2, <1>3, <1>5 DEF JobInv

LEMMA JobGivesTerm == JobInv => TermReachesAll
  <1> SUFFICES ASSUME JobInv PROVE Jobs!TermReachesAll
    BY DEF TermReachesAll
  <1>0. JobTypes /\ JobArray /\ JobTells
    BY DEF JobInv
  <1>1. ASSUME NEW n \in DOMAIN handlers[0], handlers[0][n].sig = "SIGTERM",
               handlers[0][n].step > NUM_CHILDREN, NEW c \in Jobs!Children
        PROVE  Jobs!Terminating(c)
    <2>1. PICK e : e = handlers[0][n]
      OBVIOUS
    <2>2. e \in Entries(handlers[0])
      BY <1>1, <2>1 DEF Entries
    <2>3. e \in Frame
      <3>1. handlers[0] \in Seq(Frame)
        BY <1>0, JobNumbers DEF JobTypes
      <3> QED
        BY <1>1, <2>1, <3>1, ElementOfSeq, LenProperties
    <2>4. c < e.step
      BY <1>1, <2>1, <2>3, JobNumbers DEF Frame
    <2> QED
      BY <1>0, <1>1, <2>1, <2>2, <2>4 DEF JobTells, Told
  <1>2. status[0] = "dead" => \A c \in Jobs!Children : Jobs!Terminating(c)
    BY <1>0 DEF JobTells
  <1>3. status[0] = "dead" /\ ~interrupted => Jobs!AllGone
    <2> SUFFICES ASSUME status[0] = "dead", ~interrupted, NEW q \in Jobs!Processes
                 PROVE  status[q] \notin {"running", "stopped"}
      BY DEF Jobs!AllGone, Jobs!Alive
    <2>1. q = 0 \/ q \in Jobs!Children
      BY JobNumbers
    <2> QED
      BY <1>0, <2>1 DEF JobTells
  <1> QED
    BY <1>1, <1>2, <1>3 DEF Jobs!TermReachesAll

\* SIGTERM for the controller gets to every child of any number of children,
\* whenever it comes, however handlers nest; and the controller leaves last
\* unless a signal interrupted one of its waitpid calls.
THEOREM TermDoesReachAll == Spec => []TermReachesAll
  <1>1. JobInv /\ [Next]_vars => JobInv'
    BY OneProgramMoves, JobNext
  <1> QED
    BY <1>1, JobInit, JobGivesTerm, PTL DEF Spec
-----------------------------------------------------------------------------
(***************************************************************************)
(* The file merger of                                                      *)
(* src/reads-from-multiple-files-asynchronously-io_uring.c.                *)
(***************************************************************************)
\* The files of a sequence of completions, and that each is there once.
Named(s)    == {s[k].file : k \in DOMAIN s}
Distinct(s) == \A j, k \in DOMAIN s : s[j].file = s[k].file => j = k

LEMMA MergeCounts == \A S : Merge!Cardinality(S) = Cardinality(S)
  BY DEF Merge!Cardinality, Cardinality

LEMMA NamedAppend ==
  ASSUME NEW S, NEW s \in Seq(S), NEW e \in S
  PROVE  /\ Append(s, e) \in Seq(S) /\ Len(Append(s, e)) = Len(s) + 1
         /\ Named(Append(s, e)) = Named(s) \cup {e.file}
         /\ Distinct(s) /\ e.file \notin Named(s) => Distinct(Append(s, e))
  <1> DEFINE t == Append(s, e)
  <1>1. /\ t \in Seq(S) /\ Len(t) = Len(s) + 1 /\ t[Len(s) + 1] = e
        /\ \A k \in 1..Len(s) : t[k] = s[k]
    BY AppendProperties
  <1> HIDE DEF t
  <1>2. Len(s) \in Nat /\ DOMAIN s = 1..Len(s) /\ DOMAIN t = 1..(Len(s) + 1)
    BY <1>1, LenProperties
  <1>3. DOMAIN t = DOMAIN s \cup {Len(s) + 1} /\ Len(s) + 1 \notin DOMAIN s
    BY <1>2
  <1>4. \A k \in DOMAIN s : t[k] = s[k]
    BY <1>1, <1>2
  <1> DEFINE l == Len(s) + 1
  <1> HIDE DEF l
  <1>5. Named(t) = Named(s) \cup {e.file}
    BY <1>1, <1>3, <1>4 DEF Named
  <1>6. Distinct(s) /\ e.file \notin Named(s) => Distinct(t)
    BY <1>1, <1>3, <1>4 DEF Named, Distinct
  <1> QED
    BY <1>1, <1>5, <1>6 DEF t

LEMMA NamedTail ==
  ASSUME NEW S, NEW s \in Seq(S), s # <<>>, Distinct(s)
  PROVE  /\ Head(s) \in S /\ Tail(s) \in Seq(S) /\ Len(Tail(s)) = Len(s) - 1
         /\ Named(s) = {Head(s).file} \cup Named(Tail(s))
         /\ Head(s).file \notin Named(Tail(s)) /\ Distinct(Tail(s))
  <1>1. /\ Head(s) \in S /\ Tail(s) \in Seq(S) /\ Len(Tail(s)) = Len(s) - 1
        /\ \A n \in 1..Len(Tail(s)) : Tail(s)[n] = s[n + 1]
    BY HeadTailProperties
  <1>2. Len(s) \in Nat /\ Len(s) # 0 /\ DOMAIN s = 1..Len(s) /\ Head(s) = s[1]
    BY EmptySeq, LenProperties
  <1> DEFINE t == Tail(s)
             a == Head(s)
  <1>3. DOMAIN t = 1..(Len(s) - 1) /\ \A n \in 1..(Len(s) - 1) : t[n] = s[n + 1]
    BY <1>1, LenProperties
  <1> HIDE DEF t, a
  <1>4. ASSUME NEW n \in DOMAIN t PROVE n + 1 \in DOMAIN s /\ t[n] = s[n + 1] /\ n + 1 # 1 /\ n \in Int
    BY <1>2, <1>3
  <1>5. ASSUME NEW n \in DOMAIN s PROVE n = 1 \/ (n - 1 \in DOMAIN t /\ t[n - 1] = s[n])
    <2>1. CASE n # 1
      <3>1. n - 1 \in 1..(Len(s) - 1) /\ (n - 1) + 1 = n
        BY <1>2, <2>1
      <3> QED
        BY <1>3, <3>1
    <2> QED
      BY <2>1
  <1>6. 1 \in DOMAIN s /\ s[1] = a
    BY <1>2 DEF a
  <1>7. Named(s) = {a.file} \cup Named(t)
    <2>1. ASSUME NEW x \in Named(s) PROVE x \in {a.file} \cup Named(t)
      <3>1. PICK n \in DOMAIN s : x = s[n].file
        BY <2>1 DEF Named
      <3> QED
        BY <1>5, <1>6, <3>1 DEF Named
    <2>2. Named(t) \subseteq Named(s)
      BY <1>4 DEF Named
    <2>3. a.file \in Named(s)
      BY <1>6 DEF Named
    <2> QED
      BY <2>1, <2>2, <2>3
  <1>8. a.file \notin Named(t)
    BY <1>4, <1>6 DEF Named, Distinct
  <1>9. Distinct(t)
    <2> SUFFICES ASSUME NEW j \in DOMAIN t, NEW k \in DOMAIN t, t[j].file = t[k].file PROVE j = k
      BY DEF Distinct
    <2>1. j + 1 = k + 1 /\ j \in Int /\ k \in Int
      BY <1>4 DEF Distinct
    <2> QED
      BY <2>1
  <1> QED
    BY <1>1, <1>7, <1>8, <1>9 DEF t, a

\* The output likewise.
LEMMA OutputAppend ==
  ASSUME NEW S, NEW s \in Seq(S), NEW e \in S
  PROVE  /\ Append(s, e) \in Seq(S)
         /\ Merge!Range(Append(s, e)) = Merge!Range(s) \cup {e}
         /\ Merge!IsInjective(s) /\ e \notin Merge!Range(s) => Merge!IsInjective(Append(s, e))
  <1> DEFINE t == Append(s, e)
  <1>1. /\ t \in Seq(S) /\ Len(t) = Len(s) + 1 /\ t[Len(s) + 1] = e
        /\ \A k \in 1..Len(s) : t[k] = s[k]
    BY AppendProperties
  <1> HIDE DEF t
  <1>2. Len(s) \in Nat /\ DOMAIN s = 1..Len(s) /\ DOMAIN t = 1..(Len(s) + 1)
    BY <1>1, LenProperties
  <1>3. DOMAIN t = DOMAIN s \cup {Len(s) + 1} /\ Len(s) + 1 \notin DOMAIN s
    BY <1>2
  <1>4. \A k \in DOMAIN s : t[k] = s[k]
    BY <1>1, <1>2
  <1>5. Merge!Range(t) = Merge!Range(s) \cup {e}
    BY <1>1, <1>3, <1>4 DEF Merge!Range
  <1>6. Merge!IsInjective(s) /\ e \notin Merge!Range(s) => Merge!IsInjective(t)
    BY <1>1, <1>3, <1>4 DEF Merge!Range, Merge!IsInjective
  <1> QED
    BY <1>1, <1>5, <1>6 DEF t

\* Requests have one owner each, and the files looked at so far are skipped,
\* open, failed or merged; while files are queued nothing else happens.
MergeInv ==
    /\ Merge!TypeOK
    /\ openFds \subseteq Merge!Files /\ failed \subseteq Merge!Files /\ output \in Seq(Merge!Files)
    /\ openFds = queue \cup inFlight \cup Named(completions)
    /\ queue \cap inFlight = {} /\ (queue \cup inFlight) \cap Named(completions) = {}
    /\ Distinct(completions)
    /\ Cardinality(openFds) = Cardinality(queue) + Cardinality(inFlight) + Len(completions)
    /\ completed_files + Cardinality(openFds) + Cardinality(skipped) = file_index - 1
    /\ Merge!IsInjective(output)
    /\ Merge!Range(output) \cap (failed \cup openFds \cup skipped) = {}
    /\ openFds \cap (failed \cup skipped) = {}
    /\ Merge!Range(output) \cup failed \cup openFds \cup skipped = 1..(file_index - 1)
    /\ merger = "queueing" => inFlight = {} /\ completions = <<>> /\ output = <<>> /\ failed = {}
    /\ merger \in {"waiting", "done"} => file_index = num_files + 1
    /\ merger = "done" => openFds = {} /\ skipped = {}

LEMMA MergeNumbers ==
  ASSUME MergeInv
  PROVE  /\ num_files \in Nat /\ Merge!Files = 1..num_files /\ file_index \in Nat
         /\ file_index # 0 /\ file_index <= num_files + 1 /\ completed_files \in Nat
         /\ IsFiniteSet(openFds) /\ IsFiniteSet(skipped) /\ IsFiniteSet(queue)
         /\ IsFiniteSet(inFlight)
         /\ Cardinality(openFds) \in Nat /\ Cardinality(skipped) \in Nat
         /\ Cardinality(queue) \in Nat /\ Cardinality(inFlight) \in Nat
         /\ completions \in Seq([file : Merge!Files, ok : BOOLEAN]) /\ Len(completions) \in Nat
  <1>1. num_files \in Nat /\ Merge!Files = 1..num_files
    BY ConstantsAssumption DEF MergeInv, Merge!TypeOK, Merge!Files
  <1>2. IsFiniteSet(1..num_files)
    BY <1>1, FS_Interval
  <1>3. /\ openFds \subseteq 1..num_files /\ skipped \subseteq 1..num_files
        /\ queue \subseteq 1..num_files /\ inFlight \subseteq 1..num_files
    BY <1>1 DEF MergeInv, Merge!TypeOK
  <1>4. /\ IsFiniteSet(openFds) /\ IsFiniteSet(skipped) /\ IsFiniteSet(queue)
        /\ IsFiniteSet(inFlight)
    BY <1>2, <1>3, FS_Subset
  <1>5. file_index \in 1..(num_files + 1) /\ completed_files \in 0..num_files
    BY DEF MergeInv, Merge!TypeOK
  <1>6. completions \in Seq([file : Merge!Files, ok : BOOLEAN])
    BY DEF MergeInv, Merge!TypeOK
  <1>7. Len(completions) \in Nat
    BY <1>6, LenProperties
  <1> QED
    BY <1>1, <1>4, <1>5, <1>6, <1>7, FS_CardinalityType

\* The next file is looked at: skipped, or queued.
LEMMA MergeQueues ==
  ASSUME MergeInv, Merge!Skip \/ Merge!QueueRead
  PROVE  MergeInv'
  <1>0. /\ merger = "queueing" /\ file_index <= num_files /\ file_index' = file_index + 1
        /\ UNCHANGED <<num_files, merger, inFlight, completions, completed_files, failed, output>>
    BY DEF Merge!Skip, Merge!QueueRead
  <1> DEFINE i1 == file_index
  <1>1. i1 \in Merge!Files /\ file_index' \in 1..(num_files + 1) /\ Merge!Files' = Merge!Files
        /\ file_index' - 1 = file_index /\ file_index \in Nat
    BY <1>0, MergeNumbers DEF Merge!Files
  <1>2. 1..(file_index' - 1) = (1..(file_index - 1)) \cup {i1} /\ i1 \notin 1..(file_index - 1)
    BY <1>0, MergeNumbers
  <1>3. i1 \notin Merge!Range(output) \cup failed \cup openFds \cup skipped
    BY <1>2 DEF MergeInv
  <1>4. /\ queue \subseteq openFds /\ inFlight = {} /\ completions = <<>>
    BY <1>0 DEF MergeInv
  <1>5. CASE Merge!Skip
    <2>1. skipped' = skipped \cup {i1} /\ UNCHANGED <<queue, openFds>>
      BY <1>5 DEF Merge!Skip
    <2>2. Cardinality(skipped') = Cardinality(skipped) + 1
      BY <1>3, <2>1, MergeNumbers, FS_AddElement
    <2>3. completed_files' + Cardinality(openFds') + Cardinality(skipped') = file_index' - 1
      <3>1. completed_files + Cardinality(openFds) + Cardinality(skipped) = file_index - 1
        BY DEF MergeInv
      <3>2. completed_files' = completed_files /\ Cardinality(openFds') = Cardinality(openFds)
        BY <1>0, <2>1
      <3>3. /\ completed_files \in Nat /\ Cardinality(openFds) \in Nat
            /\ Cardinality(skipped) \in Nat /\ file_index \in Nat /\ file_index' = file_index + 1
        BY <1>0, MergeNumbers
      <3> QED
        BY <2>2, <3>1, <3>2, <3>3
    <2>4. Merge!TypeOK'
      BY <1>0, <1>1, <2>1 DEF MergeInv, Merge!TypeOK
    <2> HIDE DEF i1
    <2>5. Merge!Range(output)' = Merge!Range(output) /\ Merge!IsInjective(output)' = Merge!IsInjective(output)
      BY <1>0 DEF Merge!Range, Merge!IsInjective
    <2> QED
      BY <1>0, <1>1, <1>2, <1>3, <2>1, <2>3, <2>4, <2>5 DEF MergeInv
  <1>6. CASE Merge!QueueRead
    <2>1. queue' = queue \cup {i1} /\ openFds' = openFds \cup {i1} /\ skipped' = skipped
      BY <1>6 DEF Merge!QueueRead
    <2>2. Cardinality(openFds') = Cardinality(openFds) + 1 /\ Cardinality(queue') = Cardinality(queue) + 1
      BY <1>3, <1>4, <2>1, MergeNumbers, FS_AddElement
    <2>3. completed_files' + Cardinality(openFds') + Cardinality(skipped') = file_index' - 1
      <3>1. completed_files + Cardinality(openFds) + Cardinality(skipped) = file_index - 1
        BY DEF MergeInv
      <3>2. completed_files' = completed_files /\ Cardinality(skipped') = Cardinality(skipped)
        BY <1>0, <2>1
      <3>3. /\ completed_files \in Nat /\ Cardinality(openFds) \in Nat
            /\ Cardinality(skipped) \in Nat /\ file_index \in Nat /\ file_index' = file_index + 1
        BY <1>0, MergeNumbers
      <3> QED
        BY <2>2, <3>1, <3>2, <3>3
    <2>4. Cardinality(openFds') = Cardinality(queue') + Cardinality(inFlight') + Len(completions')
      <3>1. Cardinality(openFds) = Cardinality(queue) + Cardinality(inFlight) + Len(completions)
        BY DEF MergeInv
      <3>2. inFlight' = inFlight /\ completions' = completions
        BY <1>0
      <3> QED
        BY <2>2, <3>1, <3>2, MergeNumbers
    <2>5. Merge!TypeOK' /\ openFds' \subseteq Merge!Files'
      BY <1>0, <1>1, <2>1 DEF MergeInv, Merge!TypeOK
    <2>6. Named(completions) = {}
      BY <1>4 DEF Named
    <2> HIDE DEF i1
    <2>7. Merge!Range(output)' = Merge!Range(output) /\ Merge!IsInjective(output)' = Merge!IsInjective(output)
      BY <1>0 DEF Merge!Range, Merge!IsInjective
    <2>8. openFds' = queue' \cup inFlight' \cup Named(completions')
      BY <1>0, <2>1, <2>6 DEF MergeInv
    <2> QED
      BY <1>0, <1>1, <1>2, <1>3, <1>4, <2>1, <2>3, <2>4, <2>5, <2>6, <2>7, <2>8 DEF MergeInv
  <1> QED
    BY <1>5, <1>6

\* The first requests go to the kernel at once; any others stay where they are.
LEMMA MergeSubmits ==
  ASSUME MergeInv, Merge!Submit
  PROVE  MergeInv'
  <1>1. /\ merger = "queueing" /\ file_index > num_files /\ merger' = "waiting"
        /\ queue = inFlight' \cup queue' /\ inFlight' \cap queue' = {}
        /\ UNCHANGED <<num_files, file_index, skipped, completions, completed_files, openFds,
                       failed, output>>
    <2>1. PICK last \in 0..num_files :
             inFlight' = {f \in queue : f <= last} /\ queue' = {f \in queue : f > last}
      BY DEF Merge!Submit
    <2>2. /\ last \in Nat /\ \A f \in queue : f \in Nat
      BY MergeNumbers DEF MergeInv, Merge!TypeOK
    <2>3. queue = inFlight' \cup queue' /\ inFlight' \cap queue' = {}
      BY <2>1, <2>2
    <2> QED
      BY <2>3 DEF Merge!Submit
  <1>2. file_index = num_files + 1
    BY <1>1, MergeNumbers
  <1>3. inFlight = {} /\ completions = <<>>
    BY <1>1 DEF MergeInv
  <1>4. /\ Cardinality(inFlight') + Cardinality(queue') = Cardinality(queue)
        /\ Cardinality(inFlight) = 0
        /\ Cardinality(inFlight') \in Nat /\ Cardinality(queue') \in Nat
    <2>1. IsFiniteSet(inFlight') /\ IsFiniteSet(queue')
      BY <1>1, FS_Subset, MergeNumbers
    <2>2. /\ Cardinality(queue) = Cardinality(inFlight') + Cardinality(queue')
                                    - Cardinality(inFlight' \cap queue')
          /\ Cardinality(inFlight') \in Nat /\ Cardinality(queue') \in Nat
      BY <1>1, <2>1, FS_Union, FS_CardinalityType
    <2>3. Cardinality(inFlight' \cap queue') = 0 /\ Cardinality(inFlight) = 0
      BY <1>1, <1>3, FS_EmptySet
    <2> QED
      BY <2>2, <2>3
  <1>5. Cardinality(openFds') = Cardinality(queue') + Cardinality(inFlight') + Len(completions')
    <2>1. Cardinality(openFds) = Cardinality(queue) + Cardinality(inFlight) + Len(completions)
      BY DEF MergeInv
    <2>2. openFds' = openFds /\ Len(completions') = Len(completions)
      BY <1>1
    <2>3. Cardinality(queue) \in Nat /\ Len(completions) \in Nat
      BY MergeNumbers
    <2> QED
      BY <1>4, <2>1, <2>2, <2>3
  <1>6. Merge!TypeOK' /\ Merge!Files' = Merge!Files
    BY <1>1 DEF MergeInv, Merge!TypeOK, Merge!Files
  <1>7. Merge!Range(output)' = Merge!Range(output) /\ Merge!IsInjective(output)' = Merge!IsInjective(output)
    BY <1>1 DEF Merge!Range, Merge!IsInjective
  <1>8. openFds' = queue' \cup inFlight' \cup Named(completions')
    BY <1>1, <1>3 DEF MergeInv
  <1>9. Named(completions') = Named(completions)
    BY <1>1
  <1>10. (queue' \cup inFlight') \cap Named(completions') = {} /\ queue' \cap inFlight' = {}
    BY <1>1, <1>3 DEF MergeInv
  <1> QED
    BY <1>1, <1>2, <1>3, <1>5, <1>6, <1>7, <1>8, <1>9, <1>10 DEF MergeInv

\* The kernel completes a request.
LEMMA MergeCompletes ==
  ASSUME MergeInv, NEW f \in Merge!Files, Merge!Complete(f)
  PROVE  MergeInv'
  <1>1. PICK ok \in BOOLEAN :
          /\ f \in inFlight /\ inFlight' = inFlight \ {f}
          /\ completions' = Append(completions, [file |-> f, ok |-> ok])
          /\ UNCHANGED <<num_files, merger, file_index, skipped, queue, completed_files, openFds,
                         failed, output>>
    BY DEF Merge!Complete
  <1> DEFINE e == [file |-> f, ok |-> ok]
             R == [file : Merge!Files, ok : BOOLEAN]
  <1>2. e \in R /\ e.file = f
    OBVIOUS
  <1>3. completions \in Seq(R) /\ completions' = Append(completions, e)
    BY <1>1, MergeNumbers
  <1>4. f \notin Named(completions) /\ Distinct(completions) /\ f \in openFds /\ f \notin queue
    BY <1>1 DEF MergeInv
  <1> HIDE DEF e, R
  <1>5. /\ completions' \in Seq(R) /\ Len(completions') = Len(completions) + 1
        /\ Named(completions') = Named(completions) \cup {f} /\ Distinct(completions')
    BY <1>2, <1>3, <1>4, NamedAppend
  <1>6. Cardinality(inFlight') = Cardinality(inFlight) - 1
    BY <1>1, MergeNumbers, FS_RemoveElement
  <1>7. Cardinality(openFds') = Cardinality(queue') + Cardinality(inFlight') + Len(completions')
    <2>1. Cardinality(openFds) = Cardinality(queue) + Cardinality(inFlight) + Len(completions)
      BY DEF MergeInv
    <2>2. Cardinality(queue') = Cardinality(queue) /\ Cardinality(openFds') = Cardinality(openFds)
      BY <1>1
    <2>3. Cardinality(queue) \in Nat /\ Len(completions) \in Nat /\ Cardinality(inFlight) \in Nat
      BY MergeNumbers
    <2> QED
      BY <1>5, <1>6, <2>1, <2>2, <2>3
  <1>8. Merge!Files' = Merge!Files /\ Merge!TypeOK'
    <2>1. Merge!Files' = Merge!Files
      BY <1>1 DEF Merge!Files
    <2>2. completions' \in Seq([file : Merge!Files', ok : BOOLEAN])
      BY <1>5, <2>1 DEF R
    <2> QED
      BY <1>1, <2>1, <2>2 DEF MergeInv, Merge!TypeOK
  <1>9. Merge!Range(output)' = Merge!Range(output) /\ Merge!IsInjective(output)' = Merge!IsInjective(output)
    BY <1>1 DEF Merge!Range, Merge!IsInjective
  <1>10. openFds' = queue' \cup inFlight' \cup Named(completions')
    BY <1>1, <1>4, <1>5 DEF MergeInv
  <1>11. queue' \cap inFlight' = {} /\ (queue' \cup inFlight') \cap Named(completions') = {}
    BY <1>1, <1>4, <1>5 DEF MergeInv
  <1>12. merger # "queueing"
    BY <1>1 DEF MergeInv
  <1> QED
    BY <1>1, <1>5, <1>7, <1>8, <1>9, <1>10, <1>11, <1>12 DEF MergeInv

\* A completion is taken, and its request given back.
LEMMA MergeHandles ==
  ASSUME MergeInv, Merge!Handle
  PROVE  MergeInv'
  <1>0. PICK f : f = Head(completions).file
    OBVIOUS
  <1>1. /\ merger = "waiting" /\ completed_files < num_files /\ completions # <<>>
        /\ completions' = Tail(completions) /\ openFds' = openFds \ {f}
        /\ completed_files' = completed_files + 1
        /\ UNCHANGED <<num_files, merger, file_index, skipped, queue, inFlight>>
        /\ \/ output' = Append(output, f) /\ failed' = failed
           \/ failed' = failed \cup {f} /\ output' = output
    BY <1>0 DEF Merge!Handle, Merge!Seen
  <1> DEFINE R == [file : Merge!Files, ok : BOOLEAN]
  <1>2. completions \in Seq(R) /\ Distinct(completions)
    BY MergeNumbers DEF MergeInv
  <1>3. /\ Head(completions) \in R
        /\ completions' \in Seq(R) /\ Len(completions') = Len(completions) - 1
        /\ Named(completions) = {f} \cup Named(completions') /\ f \notin Named(completions')
        /\ Distinct(completions')
    <2> HIDE DEF R
    <2> QED
      BY <1>0, <1>1, <1>2, NamedTail
  <1>4. f \in Merge!Files
    BY <1>0, <1>3
  <1>5. f \in openFds /\ f \notin queue /\ f \notin inFlight /\ f \notin Merge!Range(output)
    BY <1>3 DEF MergeInv
  <1>6. Cardinality(openFds') = Cardinality(openFds) - 1
    BY <1>1, <1>5, MergeNumbers, FS_RemoveElement
  <1>7. Cardinality(openFds') = Cardinality(queue') + Cardinality(inFlight') + Len(completions')
    <2>1. Cardinality(openFds) = Cardinality(queue) + Cardinality(inFlight) + Len(completions)
      BY DEF MergeInv
    <2>2. Cardinality(queue') = Cardinality(queue) /\ Cardinality(inFlight') = Cardinality(inFlight)
      BY <1>1
    <2>3. Cardinality(queue) \in Nat /\ Len(completions) \in Nat /\ Cardinality(inFlight) \in Nat
      BY MergeNumbers
    <2>4. Len(completions') = Len(completions) - 1
      BY <1>3
    <2> QED
      BY <1>6, <2>1, <2>2, <2>3, <2>4
  <1>8. completed_files' + Cardinality(openFds') + Cardinality(skipped') = file_index' - 1
    <2>1. completed_files + Cardinality(openFds) + Cardinality(skipped) = file_index - 1
      BY DEF MergeInv
    <2>2. /\ completed_files' = completed_files + 1 /\ Cardinality(skipped') = Cardinality(skipped)
          /\ file_index' = file_index
      BY <1>1
    <2>3. /\ completed_files \in Nat /\ Cardinality(openFds) \in Nat
          /\ Cardinality(skipped) \in Nat /\ file_index \in Nat
      BY MergeNumbers
    <2> QED
      BY <1>6, <2>1, <2>2, <2>3
  <1>9. Merge!Files' = Merge!Files /\ Merge!TypeOK'
    <2>1. Merge!Files' = Merge!Files
      BY <1>1 DEF Merge!Files
    <2>2. completions' \in Seq([file : Merge!Files', ok : BOOLEAN])
      BY <1>3, <2>1
    <2>3. completed_files' \in 0..num_files
      BY <1>1, MergeNumbers
    <2> QED
      BY <1>1, <2>1, <2>2, <2>3 DEF MergeInv, Merge!TypeOK
  <1> HIDE DEF R
  <1>10. openFds' = queue' \cup inFlight' \cup Named(completions')
    BY <1>1, <1>3, <1>5 DEF MergeInv
  <1>11. queue' \cap inFlight' = {} /\ (queue' \cup inFlight') \cap Named(completions') = {}
    BY <1>1, <1>3 DEF MergeInv
  <1>12. /\ output' \in Seq(Merge!Files) /\ Merge!IsInjective(output')
         /\ failed' \subseteq Merge!Files /\ openFds' \cap (failed' \cup skipped') = {}
         /\ Merge!Range(output') \cap (failed' \cup openFds' \cup skipped') = {}
         /\ Merge!Range(output') \cup failed' \cup openFds' \cup skipped' = 1..(file_index' - 1)
    <2>1. /\ output \in Seq(Merge!Files) /\ Merge!IsInjective(output) /\ failed \subseteq Merge!Files
          /\ openFds \cap (failed \cup skipped) = {}
          /\ Merge!Range(output) \cap (failed \cup openFds \cup skipped) = {}
          /\ Merge!Range(output) \cup failed \cup openFds \cup skipped = 1..(file_index - 1)
      BY DEF MergeInv
    <2>2. CASE failed' = failed \cup {f} /\ output' = output
      BY <1>1, <1>4, <1>5, <2>1, <2>2
    <2>3. CASE output' = Append(output, f) /\ failed' = failed
      <3>1. f \notin skipped /\ f \notin failed
        BY <1>5, <2>1
      <3>2. /\ output' \in Seq(Merge!Files) /\ Merge!Range(output') = Merge!Range(output) \cup {f}
            /\ Merge!IsInjective(output')
        BY <1>4, <1>5, <2>1, <2>3, OutputAppend
      <3> QED
        BY <1>1, <1>5, <2>1, <2>3, <3>1, <3>2
    <2> QED
      BY <1>1, <2>2, <2>3
  <1> QED
    BY <1>1, <1>3, <1>7, <1>8, <1>9, <1>10, <1>11, <1>12 DEF MergeInv

\* Steps that only change what the merger does next.
LEMMA MergeStands ==
  ASSUME MergeInv, merger' \in {"queueing", "waiting", "done", "aborted"},
         UNCHANGED <<num_files, file_index, skipped, queue, inFlight, completions, completed_files,
                     openFds, failed, output>>,
         \/ merger' = merger \/ merger' = "aborted"
         \/ merger = "waiting" /\ merger' = "done" /\ openFds = {} /\ skipped = {}
  PROVE  MergeInv'
  <1>1. /\ Named(completions)' = Named(completions) /\ Distinct(completions)' = Distinct(completions)
        /\ Merge!Range(output)' = Merge!Range(output)
        /\ Merge!IsInjective(output)' = Merge!IsInjective(output)
    BY DEF Named, Distinct, Merge!Range, Merge!IsInjective
  <1>2. Merge!Files' = Merge!Files
    BY DEF Merge!Files
  <1>3. Merge!TypeOK'
    BY <1>2 DEF MergeInv, Merge!TypeOK
  <1> QED
    BY <1>1, <1>2, <1>3 DEF MergeInv

LEMMA MergeNext ==
  ASSUME MergeInv, [Merge!Next]_mergeVars
  PROVE  MergeInv'
  <1>1. CASE UNCHANGED mergeVars
    BY <1>1, MergeStands DEF mergeVars, MergeInv, Merge!TypeOK
  <1>2. CASE Merge!NoEntry \/ Merge!NoMemory \/ Merge!WaitFails
    <2>1. merger' = "aborted" /\ UNCHANGED <<num_files, file_index, skipped, queue, inFlight, completions,
                                            completed_files, openFds, failed, output>>
      BY <1>2 DEF Merge!NoEntry, Merge!NoMemory, Merge!WaitFails
    <2> QED
      BY <2>1, MergeStands
  <1>3. CASE Merge!Finish
    <2>1. /\ merger = "waiting" /\ completed_files = num_files /\ merger' = "done"
          /\ UNCHANGED <<num_files, file_index, skipped, queue, inFlight, completions,
                         completed_files, openFds, failed, output>>
      BY <1>3 DEF Merge!Finish
    <2>2. completed_files + Cardinality(openFds) + Cardinality(skipped) = file_index - 1
          /\ file_index = num_files + 1
      BY <2>1 DEF MergeInv
    <2>3. /\ num_files \in Nat /\ Cardinality(openFds) \in Nat /\ Cardinality(skipped) \in Nat
          /\ IsFiniteSet(openFds) /\ IsFiniteSet(skipped)
      BY MergeNumbers
    <2>4. Cardinality(openFds) = 0 /\ Cardinality(skipped) = 0
      BY <2>1, <2>2, <2>3
    <2>5. openFds = {} /\ skipped = {}
      BY <2>3, <2>4, FS_EmptySet
    <2> QED
      BY <2>1, <2>5, MergeStands
  <1> QED
    BY <1>1, <1>2, <1>3, MergeQueues, MergeSubmits, MergeCompletes, MergeHandles
       DEF Merge!Next, Merge!Progress, Merge!Main

LEMMA MergeInit == Init => MergeInv
  <1> SUFFICES ASSUME Init PROVE MergeInv
    OBVIOUS
  <1>1. /\ num_files \in 1..FILES /\ merger = "queueing" /\ file_index = 1
        /\ skipped = {} /\ queue = {} /\ inFlight = {} /\ openFds = {} /\ failed = {}
        /\ completions = <<>> /\ output = <<>> /\ completed_files = 0
    BY DEF Init, Merge!Init
  <1>2. num_files \in Nat /\ file_index \in 1..(num_files + 1) /\ 1..(file_index - 1) = {}
        /\ completed_files \in 0..num_files
    BY <1>1, ConstantsAssumption
  <1>3. /\ Merge!Range(output) = {} /\ Merge!IsInjective(output) /\ Named(completions) = {}
        /\ Distinct(completions) /\ output \in Seq(Merge!Files)
        /\ completions \in Seq([file : Merge!Files, ok : BOOLEAN])
    BY <1>1 DEF Merge!Range, Merge!IsInjective, Named, Distinct
  <1>4. Merge!TypeOK
    BY <1>1, <1>2, <1>3 DEF Merge!TypeOK
  <1>5. Cardinality({}) = 0 /\ Len(completions) = 0
    BY <1>1, FS_EmptySet
  <1>6. /\ Cardinality(openFds) = Cardinality(queue) + Cardinality(inFlight) + Len(completions)
        /\ completed_files + Cardinality(openFds) + Cardinality(skipped) = file_index - 1
    BY <1>1, <1>5
  <1> QED
    BY <1>1, <1>2, <1>3, <1>4, <1>6 DEF MergeInv

LEMMA MergeGivesOwned == MergeInv => RequestsOwned
  <1> SUFFICES ASSUME MergeInv PROVE Merge!RequestsOwned
    BY DEF RequestsOwned
  <1>1. Merge!Completed = Named(completions)
    BY DEF Merge!Completed, Named
  <1>2. merger = "done" => Merge!Range(output) \cup failed = Merge!Files
    <2> SUFFICES ASSUME merger = "done" PROVE Merge!Range(output) \cup failed = Merge!Files
      OBVIOUS
    <2>1. file_index - 1 = num_files
      <3>1. file_index = num_files + 1
        BY DEF MergeInv
      <3> QED
        BY <3>1, MergeNumbers
    <2> QED
      BY <2>1, MergeNumbers DEF MergeInv
  <1> QED
    BY <1>1, <1>2, MergeCounts DEF MergeInv, Merge!RequestsOwned

\* Every read request of the merger has one owner at any time, is given back
\* once, and every file is merged at most once, for any number of files and
\* any order of completions; a merger that ends has dealt with all files.
THEOREM RequestsAreOwned == Spec => []RequestsOwned
  <1>1. MergeInv /\ [Next]_vars => MergeInv'
    BY OneProgramMoves, MergeNext
  <1> QED
    BY <1>1, MergeInit, MergeGivesOwned, PTL DEF Spec
-----------------------------------------------------------------------------
\* A set of natural numbers that is not empty has a least member.
LEMMA LeastNat ==
  ASSUME NEW T, T \subseteq Nat, T # {}
  PROVE  \E m \in T : \A k \in T : m <= k
  <1> DEFINE R == OpToRel(<, Nat)
  <1>1. \A x, y \in Nat : <<x, y>> \in R <=> x < y
    BY DEF OpToRel
  <1>2. IsWellFoundedOn(R, Nat)
    BY NatLessThanWellFounded
  <1> HIDE DEF R
  <1>3. PICK x \in T : \A y \in T : ~(<<y, x>> \in R)
    BY <1>2, WFMin
  <1>4. ASSUME NEW k \in T PROVE x <= k
    <2>1. x \in Nat /\ k \in Nat
      OBVIOUS
    <2>2. ~(k < x)
      BY <2>1, <1>1, <1>3, <1>4
    <2> QED
      BY <2>1, <2>2
  <1> QED
    BY <1>4
-----------------------------------------------------------------------------
(***************************************************************************)
(* The counters of src/atomic-vs-mutex.c and src/shm-counter.c.            *)
(***************************************************************************)
LEMMA CounterCounts == \A S : Counters!Cardinality(S) = Cardinality(S)
  BY DEF Counters!Cardinality, Cardinality

CountSizes == WORKERS \in Nat /\ ITERATIONS \in Nat /\ Nobody \notin 1..WORKERS

CountTypes ==
    /\ way \in {"atomic", "mutex", "shm"}
    /\ turn \in [1..WORKERS -> {"none", "next", "load", "store", "done"}]
    /\ done \in [1..WORKERS -> 0..ITERATIONS]
    /\ DOMAIN value = 1..WORKERS
    /\ counters \in [1..WORKERS -> Nat]
    /\ counter \in Nat

\* Between the load and the store a worker has iterations left, and what it
\* has loaded is still there: it has the mutex, or the cell is its own.
Underway(w) ==
    /\ turn[w] \in {"load", "store"} => way # "atomic" /\ done[w] < ITERATIONS
    /\ way = "mutex" /\ turn[w] \in {"load", "store"} => lock = w
    /\ turn[w] = "store" => value[w] = IF way = "mutex" THEN counter ELSE counters[w]
    /\ turn[w] = "done" => done[w] = ITERATIONS

CountInv ==
    /\ CountTypes
    /\ \A w \in 1..WORKERS : Underway(w)
    /\ way # "shm" => counter = Cardinality(Counters!Iterations)
    /\ way = "shm" => counters = done
    /\ creator = "done" => total = WORKERS * ITERATIONS

\* The iterations done are finitely many, and one more after an increment.
LEMMA IterationsMore ==
  ASSUME CountSizes, CountTypes, NEW w \in 1..WORKERS, done[w] < ITERATIONS,
         done' = [done EXCEPT ![w] = done[w] + 1]
  PROVE  Cardinality(Counters!Iterations') = Cardinality(Counters!Iterations) + 1
  <1> DEFINE All == (1..WORKERS) \X (1..ITERATIONS)
  <1>1. PICK A : A = {x \in All : x[2] <= done[x[1]]}
    OBVIOUS
  <1>2. PICK B : B = {x \in All : x[2] <= done'[x[1]]}
    OBVIOUS
  <1>3. Counters!Iterations = A /\ Counters!Iterations' = B
    BY <1>1, <1>2 DEF Counters!Iterations, Counters!Workers
  <1>4. IsFiniteSet(All)
    <2>1. IsFiniteSet(1..WORKERS) /\ IsFiniteSet(1..ITERATIONS)
      BY FS_Interval DEF CountSizes
    <2> QED
      BY <2>1, FS_Product, Zenon
  <1>5. IsFiniteSet(A)
    BY <1>1, <1>4, FS_Subset
  <1>6. PICK n : n = done[w] + 1
    OBVIOUS
  <1>7. done[w] \in Nat /\ n \in 1..ITERATIONS /\ n > done[w]
    BY <1>6 DEF CountTypes, CountSizes
  <1>8. \A v \in 1..WORKERS : done'[v] = (IF v = w THEN n ELSE done[v]) /\ done[v] \in Nat
    BY <1>6 DEF CountTypes
  <1>9. <<w, n>> \notin A
    BY <1>1, <1>7
  <1>10. ASSUME NEW x \in All PROVE x \in B <=> x \in A \cup {<<w, n>>}
    <2>1. PICK v \in 1..WORKERS, m \in 1..ITERATIONS : x = <<v, m>>
      OBVIOUS
    <2>2. x \in B <=> m <= done'[v]
      BY <1>2, <2>1
    <2>3. x \in A <=> m <= done[v]
      BY <1>1, <2>1
    <2>4. x = <<w, n>> <=> v = w /\ m = n
      BY <2>1
    <2>5. m \in Nat /\ n \in Nat /\ done[v] \in Nat
      BY <1>7, <1>8
    <2> QED
      BY <1>6, <1>8, <2>2, <2>3, <2>4, <2>5
  <1>11. B = A \cup {<<w, n>>}
    BY <1>1, <1>2, <1>7, <1>10
  <1>12. Cardinality(B) = Cardinality(A) + 1
    BY <1>5, <1>9, <1>11, FS_AddElement
  <1> QED
    BY <1>3, <1>12

\* What main prints when all workers are through.
LEMMA AllIterations ==
  ASSUME CountSizes, CountTypes, \A w \in 1..WORKERS : done[w] = ITERATIONS
  PROVE  Cardinality(Counters!Iterations) = WORKERS * ITERATIONS
  <1>1. Counters!Iterations = (1..WORKERS) \X (1..ITERATIONS)
    BY DEF Counters!Iterations, Counters!Workers, CountSizes
  <1>2. IsFiniteSet(1..WORKERS) /\ IsFiniteSet(1..ITERATIONS)
        /\ Cardinality(1..WORKERS) = WORKERS /\ Cardinality(1..ITERATIONS) = ITERATIONS
    BY FS_Interval DEF CountSizes
  <1>3. Cardinality((1..WORKERS) \X (1..ITERATIONS)) = Cardinality(1..WORKERS) * Cardinality(1..ITERATIONS)
    BY <1>2, FS_Product, Zenon
  <1> QED
    BY <1>1, <1>2, <1>3, Zenon

LEMMA AllAdded ==
  ASSUME CountSizes, \A w \in 1..WORKERS : counters[w] = ITERATIONS
  PROVE  Counters!Added[WORKERS] = WORKERS * ITERATIONS
  <1>1. WORKERS \in Nat /\ ITERATIONS \in Nat
    BY DEF CountSizes
  <1> DEFINE g == [k \in 0..WORKERS |-> k * ITERATIONS]
             Eq(f) == f = [k \in 0..WORKERS |-> IF k = 0 THEN 0 ELSE f[k - 1] + counters[k]]
  <1>2. \A k \in 0..WORKERS : g[k] = IF k = 0 THEN 0 ELSE g[k - 1] + counters[k]
    <2> SUFFICES ASSUME NEW k \in 0..WORKERS PROVE g[k] = IF k = 0 THEN 0 ELSE g[k - 1] + counters[k]
      OBVIOUS
    <2>1. CASE k = 0
      BY <1>1, <2>1
    <2>2. CASE k # 0
      <3>1. k - 1 \in 0..WORKERS /\ k \in 1..WORKERS
        BY <1>1, <2>2
      <3>2. g[k - 1] = (k - 1) * ITERATIONS /\ counters[k] = ITERATIONS /\ g[k] = k * ITERATIONS
        BY <3>1
      <3>3. k * ITERATIONS = (k - 1) * ITERATIONS + ITERATIONS
        BY <1>1
      <3> QED
        BY <2>2, <3>2, <3>3
    <2> QED
      BY <2>1, <2>2
  <1>3. Eq(g)
    BY <1>2
  <1>4. Counters!Added = CHOOSE f : Eq(f)
    BY Zenon DEF Counters!Added
  <1>5. Eq(Counters!Added)
    BY <1>3, <1>4, Zenon
  <1>6. PICK a : a = Counters!Added
    OBVIOUS
  <1>7. \A k \in 0..WORKERS : a[k] = IF k = 0 THEN 0 ELSE a[k - 1] + counters[k]
    BY <1>5, <1>6
  <1> DEFINE Bad == {k \in 0..WORKERS : a[k] # k * ITERATIONS}
  <1>8. ASSUME Bad # {} PROVE FALSE
    <2>1. Bad \subseteq Nat
      BY <1>1
    <2> HIDE DEF Bad
    <2>2. PICK m \in Bad : \A k \in Bad : m <= k
      BY <1>8, <2>1, LeastNat
    <2> USE DEF Bad
    <2>3. m \in 0..WORKERS /\ a[m] # m * ITERATIONS
      BY <2>2
    <2>4. m # 0
      BY <1>1, <1>7, <2>3
    <2>5. m - 1 \in 0..WORKERS /\ m - 1 \notin Bad /\ m \in 1..WORKERS
      BY <1>1, <2>2, <2>3, <2>4
    <2>6. a[m - 1] = (m - 1) * ITERATIONS /\ counters[m] = ITERATIONS
      BY <2>5
    <2>7. (m - 1) * ITERATIONS + ITERATIONS = m * ITERATIONS
      BY <1>1, <2>3
    <2> QED
      BY <1>7, <2>3, <2>4, <2>6, <2>7
  <1> QED
    BY <1>1, <1>6, <1>8

LEMMA CountInit == CountSizes /\ Init => CountInv
  <1> SUFFICES ASSUME CountSizes, Init PROVE CountInv
    OBVIOUS
  <1>1. Counters!Init /\ Counters!Workers = 1..WORKERS
    BY DEF Init, Counters!Workers
  <1>2. /\ way \in {"atomic", "mutex", "shm"} /\ creator = "creating" /\ counter = 0
        /\ turn = [w \in 1..WORKERS |-> "none"] /\ done = [w \in 1..WORKERS |-> 0]
        /\ value = [w \in 1..WORKERS |-> 0] /\ counters = [w \in 1..WORKERS |-> 0]
    BY <1>1 DEF Counters!Init
  <1>3. CountTypes
    BY <1>2 DEF CountTypes, CountSizes
  <1>4. Counters!Iterations = {}
    BY <1>1, <1>2 DEF Counters!Iterations, CountSizes
  <1>5. counter = Cardinality(Counters!Iterations)
    BY <1>2, <1>4, FS_EmptySet
  <1> QED
    BY <1>2, <1>3, <1>5 DEF CountInv, Underway

LEMMA CountAdds ==
  ASSUME CountSizes, CountInv, NEW w \in 1..WORKERS, Counters!AtomicAdd(w) \/ Counters!Store(w)
  PROVE  CountInv'
  <1>1. CountTypes /\ \A v \in 1..WORKERS : Underway(v)
    BY DEF CountInv
  <1>2. done[w] < ITERATIONS
    BY <1>1 DEF Counters!AtomicAdd, Counters!Store, Underway
  <1>3. done' = [done EXCEPT ![w] = done[w] + 1] /\ way' = way /\ creator' = creator /\ total' = total
        /\ value' = value
    BY DEF Counters!AtomicAdd, Counters!Store
  <1>4. done' \in [1..WORKERS -> 0..ITERATIONS]
    BY <1>1, <1>2, <1>3 DEF CountTypes, CountSizes
  <1>5. Cardinality(Counters!Iterations') = Cardinality(Counters!Iterations) + 1
    BY <1>1, <1>2, <1>3, IterationsMore
  <1>6. CASE Counters!AtomicAdd(w)
    <2>1. way = "atomic" /\ counter' = counter + 1 /\ turn' = turn /\ lock' = lock
          /\ counters' = counters /\ turn[w] = "next"
      BY <1>6 DEF Counters!AtomicAdd
    <2>2. CountTypes'
      BY <1>1, <1>3, <1>4, <2>1 DEF CountTypes
    <2>3. ASSUME NEW v \in 1..WORKERS PROVE Underway(v)'
      BY <1>1, <1>3, <2>1 DEF Underway, CountTypes
    <2>4. counter' = Cardinality(Counters!Iterations')
      BY <1>5, <2>1 DEF CountInv
    <2> QED
      BY <1>3, <2>1, <2>2, <2>3, <2>4 DEF CountInv
  <1>7. CASE Counters!Store(w)
    <2>1. turn[w] = "store" /\ turn' = [turn EXCEPT ![w] = "next"] /\ lock' = Nobody
      BY <1>7 DEF Counters!Store
    <2>2. \A v \in 1..WORKERS : turn'[v] = IF v = w THEN "next" ELSE turn[v]
      BY <1>1, <2>1 DEF CountTypes
    <2>3. \A v \in 1..WORKERS : v # w => done'[v] = done[v]
      BY <1>1, <1>3 DEF CountTypes
    <2>4. CASE way = "mutex"
      <3>1. counter' = counter + 1 /\ counters' = counters
        BY <1>1, <1>7, <2>1, <2>4 DEF Counters!Store, Underway
      <3>2. \A v \in 1..WORKERS : v # w => turn[v] \notin {"load", "store"}
        BY <1>1, <2>1, <2>4 DEF Underway
      <3>3. CountTypes'
        BY <1>1, <1>3, <1>4, <2>1, <3>1 DEF CountTypes
      <3>4. ASSUME NEW v \in 1..WORKERS PROVE Underway(v)'
        BY <1>1, <1>3, <2>2, <2>3, <3>2 DEF Underway
      <3>5. counter' = Cardinality(Counters!Iterations')
        BY <1>5, <2>4, <3>1 DEF CountInv
      <3> QED
        BY <1>3, <2>4, <3>3, <3>4, <3>5 DEF CountInv
    <2>5. CASE way = "shm"
      <3>1. counter' = counter /\ counters' = [counters EXCEPT ![w] = counters[w] + 1]
        BY <1>1, <1>7, <2>1, <2>5 DEF Counters!Store, Underway
      <3>2. counters = done
        BY <2>5 DEF CountInv
      <3>3. counters' = done'
        BY <1>3, <3>1, <3>2
      <3>4. CountTypes'
        BY <1>1, <1>3, <1>4, <2>1, <3>1 DEF CountTypes
      <3>5. \A v \in 1..WORKERS : v # w => counters'[v] = counters[v]
        BY <1>1, <3>1 DEF CountTypes
      <3>6. ASSUME NEW v \in 1..WORKERS PROVE Underway(v)'
        BY <1>1, <1>3, <2>2, <2>3, <2>5, <3>5 DEF Underway
      <3> QED
        BY <1>3, <2>5, <3>3, <3>4, <3>6 DEF CountInv
    <2> QED
      BY <1>1, <2>1, <2>4, <2>5 DEF CountTypes, Underway
  <1> QED
    BY <1>6, <1>7

LEMMA CountMoves ==
  ASSUME CountSizes, CountInv, NEW w \in 1..WORKERS,
         Counters!Create(w) \/ Counters!Begin(w) \/ Counters!Load(w) \/ Counters!Finish(w)
  PROVE  CountInv'
  <1>1. CountTypes /\ \A v \in 1..WORKERS : Underway(v)
    BY DEF CountInv
  <1>2. /\ done' = done /\ way' = way /\ creator' = creator /\ total' = total
        /\ counter' = counter /\ counters' = counters
    BY DEF Counters!Create, Counters!Begin, Counters!Load, Counters!Finish
  <1>3. Counters!Iterations' = Counters!Iterations
    BY <1>2 DEF Counters!Iterations, Counters!Workers
  <1>4. CountTypes' /\ \A v \in 1..WORKERS : v # w => turn'[v] = turn[v] /\ value'[v] = value[v]
    BY <1>1, <1>2 DEF CountTypes, Counters!Create, Counters!Begin, Counters!Load, Counters!Finish
  <1>5. ASSUME NEW v \in 1..WORKERS PROVE Underway(v)'
    <2>1. CASE Counters!Create(w)
      BY <1>1, <1>2, <1>4, <2>1 DEF Underway, CountTypes, Counters!Create
    <2>2. CASE Counters!Begin(w)
      <3>1. way = "mutex" /\ v # w => turn[v] \notin {"load", "store"}
        BY <1>1, <2>2 DEF Underway, Counters!Begin, CountSizes
      <3> QED
        BY <1>1, <1>2, <1>4, <2>2, <3>1 DEF Underway, CountTypes, Counters!Begin
    <2>3. CASE Counters!Load(w)
      BY <1>1, <1>2, <1>4, <2>3 DEF Underway, CountTypes, Counters!Load
    <2>4. CASE Counters!Finish(w)
      BY <1>1, <1>2, <1>4, <2>4 DEF Underway, CountTypes, Counters!Finish
    <2> QED
      BY <2>1, <2>2, <2>3, <2>4
  <1> QED
    BY <1>2, <1>3, <1>4, <1>5 DEF CountInv

LEMMA CountEnds ==
  ASSUME CountSizes, CountInv, Counters!Join \/ Counters!ForkFails \/ UNCHANGED countVars
  PROVE  CountInv'
  <1>1. /\ UNCHANGED <<way, turn, done, value, lock, counter, counters>>
    BY DEF Counters!Join, Counters!ForkFails, countVars
  <1>2. Counters!Iterations' = Counters!Iterations
    BY <1>1 DEF Counters!Iterations, Counters!Workers
  <1>3. CountTypes /\ CountTypes'
    BY <1>1 DEF CountInv, CountTypes
  <1>4. \A w \in 1..WORKERS : Underway(w)'
    BY <1>1 DEF CountInv, Underway
  <1>5. creator' = "done" => total' = WORKERS * ITERATIONS
    <2>1. CASE Counters!Join
      <3>1. \A w \in 1..WORKERS : done[w] = ITERATIONS
        BY <2>1 DEF Counters!Join, Counters!Workers, CountInv, Underway
      <3>2. CASE way = "shm"
        <4>1. \A w \in 1..WORKERS : counters[w] = ITERATIONS
          BY <3>1, <3>2 DEF CountInv
        <4> QED
          BY <2>1, <3>2, <4>1, AllAdded DEF Counters!Join
      <3>3. CASE way # "shm"
        BY <1>3, <2>1, <3>1, <3>3, AllIterations DEF Counters!Join, CountInv
      <3> QED
        BY <3>2, <3>3
    <2>2. CASE ~Counters!Join
      BY <2>2 DEF Counters!ForkFails, CountInv, countVars
    <2> QED
      BY <2>1, <2>2
  <1> QED
    BY <1>1, <1>2, <1>3, <1>4, <1>5 DEF CountInv

LEMMA CountNext == CountSizes /\ CountInv /\ [Counters!Next]_countVars => CountInv'
  BY CountAdds, CountMoves, CountEnds DEF Counters!Next, Counters!Workers

LEMMA CountGivesExact == CountInv => Counters!CountersExact
  BY CounterCounts, Zenon DEF CountInv, Counters!CountersExact
-----------------------------------------------------------------------------
(***************************************************************************)
(* The word count of src/task-word-count-pthread.c.                        *)
(***************************************************************************)
LEMMA WordCounts == \A S : Words!Cardinality(S) = Cardinality(S)
  BY DEF Words!Cardinality, Cardinality

WordSizes == WORKER_COUNT \in Nat \ {0} /\ Nobody \notin 0..(WORKER_COUNT - 1)

Crew == 0..(WORKER_COUNT - 1)

\* Where the words of the chunk of a worker end.
EndsIn(w) ==
    {n \in (Words!Start(w) + 1)..Words!End(w) : text[n] /\ (n < Words!End(w) => ~text[n + 1])}

\* The chunks lie side by side and cover the file.
LEMMA Chunks ==
  ASSUME WordSizes, text \in Seq(BOOLEAN)
  PROVE  /\ \A w \in Crew : /\ Words!Start(w) \in Nat /\ Words!End(w) \in Nat
                            /\ Words!Start(w) <= Words!End(w) /\ Words!End(w) <= Len(text)
         /\ \A v, w \in Crew : v < w => Words!End(v) <= Words!Start(w)
         /\ \A w \in Crew : w > 0 => w - 1 \in Crew /\ Words!End(w - 1) = Words!Start(w)
         /\ \A w \in Crew : Words!Start(w) > 0 =>
              w > 0 /\ Words!Start(w - 1) < Words!Start(w) /\ Words!Start(w) < Len(text)
         /\ Words!Start(0) = 0 /\ Words!End(WORKER_COUNT - 1) = Len(text)
  <1>1. PICK W, L, c : W = WORKER_COUNT /\ L = Len(text) /\ c = L \div W
    OBVIOUS
  <1>2. W \in Nat /\ W > 0 /\ L \in Nat
    BY <1>1 DEF WordSizes
  <1>3. c \in Nat /\ W * c <= L
    BY <1>1, <1>2
  <1>4. /\ \A w \in Crew : Words!Start(w) = w * c
        /\ \A w \in Crew : Words!End(w) = IF w = W - 1 THEN L ELSE (w + 1) * c
    BY <1>1, Zenon DEF Words!Start, Words!End, Words!chunk_size, Words!filesize
  <1>5. \A w \in Crew : w \in Nat /\ w <= W - 1
    BY <1>1, <1>2 DEF Crew
  <1>6. \A a, b \in Nat : a <= b => a * c <= b * c
    <2> SUFFICES ASSUME NEW a \in Nat, NEW b \in Nat, a <= b PROVE a * c <= b * c
      OBVIOUS
    <2>1. PICK d \in Nat : b = a + d
      <3>1. b - a \in Nat /\ b = a + (b - a)
        OBVIOUS
      <3> QED
        BY <3>1
    <2>2. b * c = a * c + d * c /\ d * c \in Nat /\ a * c \in Nat
      BY <1>3, <2>1
    <2> QED
      BY <2>2
  <1>7. \A a \in Nat : a * c \in Nat /\ (a + 1) * c = a * c + c
    BY <1>3
  <1>8. (W - 1) * c + c <= L
    <2>1. W * c = (W - 1) * c + c
      BY <1>2, <1>3
    <2> QED
      BY <1>3, <2>1
  <1>9. ASSUME NEW w \in Crew
        PROVE  /\ Words!Start(w) \in Nat /\ Words!End(w) \in Nat
               /\ Words!Start(w) <= Words!End(w) /\ Words!End(w) <= L
               /\ Words!Start(w) + c <= L
               /\ Words!Start(w) = w * c
    <2>1. w \in Nat /\ w <= W - 1 /\ W - 1 \in Nat
      BY <1>2, <1>5
    <2>2. Words!Start(w) = w * c /\ w * c \in Nat /\ (w + 1) * c = w * c + c /\ w * c <= (W - 1) * c
          /\ (W - 1) * c \in Nat
      BY <1>4, <1>6, <1>7, <2>1
    <2>3. Words!End(w) = IF w = W - 1 THEN L ELSE (w + 1) * c
      BY <1>4
    <2>4. w * c + c <= L
      BY <1>2, <1>3, <1>8, <2>2
    <2> QED
      BY <1>2, <1>3, <2>2, <2>3, <2>4
  <1>10. ASSUME NEW v \in Crew, NEW w \in Crew, v < w PROVE Words!End(v) <= Words!Start(w)
    <2>1. v \in Nat /\ w \in Nat /\ v + 1 \in Nat /\ v # W - 1 /\ v + 1 <= w
      BY <1>2, <1>5, <1>10
    <2>2. (v + 1) * c <= w * c
      BY <1>6, <2>1
    <2> QED
      BY <1>4, <2>1, <2>2
  <1>11. ASSUME NEW w \in Crew, w > 0
         PROVE  w - 1 \in Crew /\ Words!End(w - 1) = Words!Start(w)
                /\ Words!Start(w) = Words!Start(w - 1) + c
    <2>1. w - 1 \in Crew /\ w - 1 # W - 1 /\ w - 1 \in Nat /\ (w - 1) + 1 = w
      BY <1>1, <1>2, <1>11 DEF Crew
    <2>2. Words!End(w - 1) = w * c /\ Words!Start(w) = w * c /\ Words!Start(w - 1) = (w - 1) * c
      BY <1>4, <2>1
    <2>3. w * c = (w - 1) * c + c
      BY <1>7, <2>1
    <2> QED
      BY <2>1, <2>2, <2>3
  <1>12. ASSUME NEW w \in Crew, Words!Start(w) > 0
         PROVE  w > 0 /\ Words!Start(w - 1) < Words!Start(w) /\ Words!Start(w) < L
    <2>1. w \in Nat /\ Words!Start(w) = w * c
      BY <1>5, <1>9
    <2>2. w # 0 /\ c # 0
      BY <1>3, <1>12, <2>1
    <2>3. w > 0 /\ c > 0
      BY <1>3, <2>1, <2>2
    <2>4. Words!Start(w) = Words!Start(w - 1) + c /\ w - 1 \in Crew
      BY <1>11, <2>3
    <2>5. Words!Start(w - 1) \in Nat /\ Words!Start(w) + c <= L /\ Words!Start(w) \in Nat
      BY <1>9, <2>4
    <2> QED
      BY <1>2, <1>3, <2>3, <2>4, <2>5
  <1>13. Words!Start(0) = 0 /\ Words!End(WORKER_COUNT - 1) = L
    <2>1. 0 \in Crew /\ W - 1 \in Crew
      BY <1>1, <1>2 DEF Crew
    <2> QED
      BY <1>1, <1>3, <1>4, <2>1
  <1> QED
    BY <1>1, <1>9, <1>10, <1>11, <1>12, <1>13

LEMMA ChunkOf ==
  ASSUME WordSizes, text \in Seq(BOOLEAN), NEW n \in 1..Len(text)
  PROVE  \E w \in Crew : n \in (Words!Start(w) + 1)..Words!End(w)
  <1> DEFINE T == {w \in Crew : n <= Words!End(w)}
  <1>1. WORKER_COUNT - 1 \in T /\ T \subseteq Nat
    BY Chunks DEF Crew, WordSizes
  <1> HIDE DEF T
  <1>2. PICK w \in T : \A v \in T : w <= v
    BY <1>1, LeastNat
  <1> USE DEF T
  <1>3. w \in Crew /\ n <= Words!End(w) /\ Words!End(w) \in Nat /\ Words!Start(w) \in Nat /\ w \in Nat
    BY <1>2, Chunks DEF Crew, WordSizes
  <1>4. Words!Start(w) < n
    <2>1. CASE w = 0
      BY <2>1, Chunks
    <2>2. CASE w # 0
      <3>1. w - 1 \in Crew /\ Words!End(w - 1) = Words!Start(w) /\ w - 1 < w
        BY <1>3, <2>2, Chunks
      <3>2. w - 1 \notin T
        BY <1>2, <1>3, <3>1
      <3> QED
        BY <1>3, <3>1, <3>2
    <2> QED
      BY <2>1, <2>2
  <1> QED
    BY <1>3, <1>4

LEMMA EndsApart ==
  ASSUME WordSizes, text \in Seq(BOOLEAN)
  PROVE  /\ \A w \in Crew : EndsIn(w) \subseteq 1..Len(text) /\ IsFiniteSet(EndsIn(w))
         /\ \A v, w \in Crew : v # w => EndsIn(v) \cap EndsIn(w) = {}
         /\ \A w \in Crew : Words!WordsIn(Words!Start(w), Words!End(w)) = Cardinality(EndsIn(w))
  <1>1. ASSUME NEW w \in Crew PROVE EndsIn(w) \subseteq 1..Len(text)
    BY Chunks DEF EndsIn
  <1>2. IsFiniteSet(1..Len(text))
    BY FS_Interval
  <1>3. ASSUME NEW w \in Crew PROVE IsFiniteSet(EndsIn(w))
    BY <1>1, <1>2, FS_Subset
  <1>4. ASSUME NEW v \in Crew, NEW w \in Crew, v < w PROVE EndsIn(v) \cap EndsIn(w) = {}
    <2>1. Words!End(v) <= Words!Start(w) /\ Words!End(v) \in Nat /\ Words!Start(w) \in Nat
      BY <1>4, Chunks
    <2> QED
      BY <2>1 DEF EndsIn
  <1>5. \A v, w \in Crew : v # w => v < w \/ w < v
    BY DEF Crew, WordSizes
  <1>6. \A w \in Crew : Words!WordsIn(Words!Start(w), Words!End(w)) = Cardinality(EndsIn(w))
    BY WordCounts, Zenon DEF Words!WordsIn, EndsIn
  <1> QED
    BY <1>1, <1>3, <1>4, <1>5, <1>6

\* The words of the first k characters, by their ends and by their starts.
EndsTo(k)   == {n \in 1..k : text[n] /\ (n < k => ~text[n + 1])}
StartsTo(k) == {n \in 1..k : text[n] /\ (n > 1 => ~text[n - 1])}

\* One character more.
LEMMA OneMoreCharacter ==
  ASSUME text \in Seq(BOOLEAN), NEW k \in Nat, k + 1 <= Len(text),
         Cardinality(EndsTo(k)) = Cardinality(StartsTo(k))
  PROVE  Cardinality(EndsTo(k + 1)) = Cardinality(StartsTo(k + 1))
  <1>1. IsFiniteSet(1..k)
    BY FS_Interval
  <1>2. IsFiniteSet(EndsTo(k)) /\ IsFiniteSet(StartsTo(k))
    <2>1. EndsTo(k) \subseteq 1..k /\ StartsTo(k) \subseteq 1..k
      BY DEF EndsTo, StartsTo
    <2> QED
      BY <1>1, <2>1, FS_Subset
  <1>3. k + 1 \notin EndsTo(k) /\ k + 1 \notin StartsTo(k)
    BY DEF EndsTo, StartsTo
  <1>4. CASE ~text[k + 1]
    <2>1. EndsTo(k + 1) = EndsTo(k)
      BY <1>4 DEF EndsTo
    <2>2. StartsTo(k + 1) = StartsTo(k)
      BY <1>4 DEF StartsTo
    <2> QED
      BY <2>1, <2>2
  <1>5. CASE text[k + 1] /\ (k > 0 => ~text[k])
    <2>1. EndsTo(k + 1) = EndsTo(k) \cup {k + 1}
      BY <1>5 DEF EndsTo
    <2>2. StartsTo(k + 1) = StartsTo(k) \cup {k + 1}
      BY <1>5 DEF StartsTo
    <2>3. Cardinality(EndsTo(k) \cup {k + 1}) = Cardinality(EndsTo(k)) + 1
      BY <1>2, <1>3, FS_AddElement, Zenon
    <2>4. Cardinality(StartsTo(k) \cup {k + 1}) = Cardinality(StartsTo(k)) + 1
      BY <1>2, <1>3, FS_AddElement, Zenon
    <2> QED
      BY <2>1, <2>2, <2>3, <2>4, Zenon
  <1>6. CASE text[k + 1] /\ k > 0 /\ text[k]
    <2>1. EndsTo(k + 1) = (EndsTo(k) \ {k}) \cup {k + 1}
      BY <1>6 DEF EndsTo
    <2>2. StartsTo(k + 1) = StartsTo(k)
      BY <1>6 DEF StartsTo
    <2>3. k \in EndsTo(k)
      BY <1>6 DEF EndsTo
    <2>4. PICK S : S = EndsTo(k) \ {k}
      OBVIOUS
    <2>5. IsFiniteSet(S) /\ Cardinality(S) = Cardinality(EndsTo(k)) - 1
      BY <1>2, <2>3, <2>4, FS_RemoveElement
    <2>6. k + 1 \notin S
      BY <1>3, <2>4
    <2>7. Cardinality(S \cup {k + 1}) = Cardinality(S) + 1
      BY <2>5, <2>6, FS_AddElement
    <2>8. Cardinality(EndsTo(k)) \in Nat
      BY <1>2, FS_CardinalityType
    <2>9. PICK a \in Nat, b \in Int : a = Cardinality(EndsTo(k)) /\ b = Cardinality(S)
      BY <2>5, <2>8
    <2>10. Cardinality(EndsTo(k + 1)) = b + 1
      BY <2>1, <2>4, <2>7, <2>9, Zenon
    <2>11. b = a - 1
      BY <2>5, <2>9, Zenon
    <2>12. b + 1 = a
      BY <2>9, <2>11
    <2> QED
      BY <2>2, <2>9, <2>10, <2>12, Zenon
  <1> QED
    BY <1>4, <1>5, <1>6

LEMMA EndsAreStarts ==
  ASSUME text \in Seq(BOOLEAN)
  PROVE  Cardinality(EndsTo(Len(text))) = Cardinality(StartsTo(Len(text)))
  <1> DEFINE Bad == {k \in 0..Len(text) : Cardinality(EndsTo(k)) # Cardinality(StartsTo(k))}
  <1>1. Len(text) \in Nat
    OBVIOUS
  <1>2. ASSUME Bad # {} PROVE FALSE
    <2>1. Bad \subseteq Nat
      BY <1>1
    <2> HIDE DEF Bad
    <2>2. PICK m \in Bad : \A k \in Bad : m <= k
      BY <1>2, <2>1, LeastNat
    <2> USE DEF Bad
    <2>3. m \in 0..Len(text) /\ Cardinality(EndsTo(m)) # Cardinality(StartsTo(m))
      BY <2>2
    <2>4. m # 0
      <3>1. EndsTo(0) = {} /\ StartsTo(0) = {}
        BY DEF EndsTo, StartsTo
      <3> QED
        BY <2>3, <3>1
    <2>5. m - 1 \in Nat /\ m - 1 \in 0..Len(text) /\ m - 1 \notin Bad /\ (m - 1) + 1 = m
          /\ (m - 1) + 1 <= Len(text)
      BY <1>1, <2>2, <2>3, <2>4
    <2>6. Cardinality(EndsTo(m - 1)) = Cardinality(StartsTo(m - 1))
      BY <2>5
    <2>7. Cardinality(EndsTo((m - 1) + 1)) = Cardinality(StartsTo((m - 1) + 1))
      BY <2>5, <2>6, OneMoreCharacter
    <2> QED
      BY <2>3, <2>5, <2>7
  <1> QED
    BY <1>1, <1>2

\* The ends that workers see are those of the words, and the cuts.
LEMMA EndsAndCuts ==
  ASSUME WordSizes, text \in Seq(BOOLEAN),
         NEW U, U = {n \in 1..Len(text) : \E w \in Crew : n \in EndsIn(w)}
  PROVE  Cardinality(U) = Words!Words + Words!Cardinality(Words!Cuts)
  <1>1. PICK E, C : E = EndsTo(Len(text)) /\ C = Words!Cuts
    OBVIOUS
  <1>2. Len(text) \in Nat /\ \A n \in 1..Len(text) : text[n] \in BOOLEAN
    OBVIOUS
  <1>3. \A x : x \in C <=> x # 0 /\ (\E w \in Crew : x = Words!Start(w)) /\ text[x] /\ text[x + 1]
    BY <1>1 DEF Words!Cuts, Words!Workers, Crew
  <1>4. ASSUME NEW x \in C PROVE x \in 1..Len(text) /\ x < Len(text) /\ x \in U /\ x \notin E
    <2>1. PICK w \in Crew : x = Words!Start(w) /\ x # 0 /\ text[x] /\ text[x + 1]
      BY <1>3
    <2>2. Words!Start(w) \in Nat
      BY Chunks
    <2>3. x > 0 /\ x \in Nat
      BY <2>1, <2>2
    <2>4. w > 0 /\ Words!Start(w - 1) < Words!Start(w) /\ Words!Start(w) < Len(text)
      BY <2>1, <2>3, Chunks
    <2>5. w - 1 \in Crew /\ Words!End(w - 1) = x
      BY <2>1, <2>4, Chunks
    <2>6. Words!Start(w - 1) \in Nat
      BY <2>5, Chunks
    <2>7. x \in EndsIn(w - 1)
      BY <2>1, <2>3, <2>4, <2>5, <2>6 DEF EndsIn
    <2>8. x \in 1..Len(text) /\ x < Len(text)
      BY <1>2, <2>1, <2>3, <2>4
    <2>9. x \notin E
      BY <1>1, <2>1, <2>8 DEF EndsTo
    <2> QED
      BY <2>5, <2>7, <2>8, <2>9
  <1>5. ASSUME NEW n \in E PROVE n \in U
    <2>1. n \in 1..Len(text) /\ text[n] /\ (n < Len(text) => ~text[n + 1])
      BY <1>1 DEF EndsTo
    <2>2. PICK w \in Crew : n \in (Words!Start(w) + 1)..Words!End(w)
      BY <2>1, ChunkOf
    <2>3. Words!End(w) <= Len(text) /\ Words!End(w) \in Nat
      BY Chunks
    <2>4. n \in EndsIn(w)
      BY <1>2, <2>1, <2>2, <2>3 DEF EndsIn
    <2> QED
      BY <2>1, <2>4
  <1>6. ASSUME NEW n \in U, n \notin E PROVE n \in C
    <2>1. PICK w \in Crew : n \in EndsIn(w)
      OBVIOUS
    <2>2. n \in 1..Len(text) /\ n <= Words!End(w) /\ n > Words!Start(w) /\ text[n]
          /\ (n < Words!End(w) => ~text[n + 1]) /\ Words!End(w) \in Nat /\ Words!Start(w) \in Nat
      BY <2>1, Chunks DEF EndsIn
    <2>3. n < Len(text) /\ text[n + 1]
      BY <1>1, <1>6, <2>2 DEF EndsTo
    <2>4. n = Words!End(w)
      BY <2>2, <2>3
    <2>5. w # WORKER_COUNT - 1
      BY <1>2, <2>3, <2>4, Chunks
    <2>6. w + 1 \in Crew /\ w + 1 > 0 /\ (w + 1) - 1 = w
      BY <2>5 DEF Crew, WordSizes
    <2>7. Words!Start(w + 1) = n
      BY <2>4, <2>6, Chunks
    <2>8. n # 0
      BY <2>2
    <2> QED
      BY <1>3, <2>2, <2>3, <2>6, <2>7, <2>8
  <1>7. U = E \cup C /\ E \cap C = {}
    BY <1>4, <1>5, <1>6
  <1>8. IsFiniteSet(E) /\ IsFiniteSet(C)
    <2>1. IsFiniteSet(1..Len(text))
      BY FS_Interval
    <2>2. E \subseteq 1..Len(text) /\ C \subseteq 1..Len(text)
      BY <1>1, <1>4 DEF EndsTo
    <2> QED
      BY <2>1, <2>2, FS_Subset
  <1>9. Cardinality(E) \in Nat /\ Cardinality(C) \in Nat /\ Cardinality({}) = 0
    BY <1>8, FS_CardinalityType, FS_EmptySet
  <1>10. Cardinality(U) = Cardinality(E) + Cardinality(C)
    <2>1. Cardinality(E \cup C) = Cardinality(E) + Cardinality(C) - Cardinality(E \cap C)
      BY <1>8, FS_Union
    <2>2. PICK a \in Nat, b \in Nat : a = Cardinality(E) /\ b = Cardinality(C)
      BY <1>9
    <2>3. Cardinality(U) = a + b - 0
      BY <1>7, <1>9, <2>1, <2>2, Zenon
    <2>4. a + b - 0 = a + b
      BY <2>2
    <2> QED
      BY <2>2, <2>3, <2>4, Zenon
  <1>11. Words!Words = Cardinality(StartsTo(Len(text)))
    BY WordCounts, Zenon DEF Words!Words, Words!filesize, StartsTo
  <1>12. Cardinality(E) = Words!Words
    BY <1>1, <1>11, EndsAreStarts
  <1>13. Words!Cardinality(Words!Cuts) = Cardinality(C)
    BY <1>1, WordCounts, Zenon
  <1> QED
    BY <1>10, <1>12, <1>13

\* The ends of words in the chunks that have been added.
Counted == {n \in 1..Len(text) : \E w \in Crew : stage[w] = "done" /\ n \in EndsIn(w)}

\* A worker that is about to add has counted the word ends of its chunk; the
\* one with the mutex has a fresh copy of the total; the total is what the
\* workers that are done have found.
WordTypes ==
    /\ text \in Seq(BOOLEAN)
    /\ stage \in [Crew -> {"count", "lock", "load", "store", "done"}]
    /\ local_count \in [Crew -> Nat] /\ loaded \in [Crew -> Nat]
Adding(w) ==
    /\ stage[w] \in {"lock", "load", "store"} => local_count[w] = Cardinality(EndsIn(w))
    /\ stage[w] \in {"load", "store"} => count_mutex = w
    /\ stage[w] = "store" => loaded[w] = global_word_count
WordInv ==
    /\ WordTypes
    /\ \A w \in Crew : Adding(w)
    /\ global_word_count = Cardinality(Counted)

LEMMA EndsStay == text' = text => \A w \in Crew : EndsIn(w)' = EndsIn(w)
  BY DEF EndsIn, Words!Start, Words!End, Words!chunk_size, Words!filesize

LEMMA CountedFinite ==
  ASSUME WordTypes
  PROVE  IsFiniteSet(Counted) /\ Cardinality(Counted) \in Nat
  <1>1. IsFiniteSet(1..Len(text))
    BY FS_Interval DEF WordTypes
  <1>2. Counted \subseteq 1..Len(text)
    BY DEF Counted
  <1> QED
    BY <1>1, <1>2, FS_Subset, FS_CardinalityType

LEMMA WordInit == WordSizes /\ Init => WordInv
  <1> SUFFICES ASSUME WordSizes, Init PROVE WordInv
    OBVIOUS
  <1>1. Words!Init /\ Words!Workers = Crew
    BY DEF Init, Words!Workers, Crew
  <1>2. /\ stage = [w \in Crew |-> "count"] /\ local_count = [w \in Crew |-> 0]
        /\ loaded = [w \in Crew |-> 0] /\ global_word_count = 0
    BY <1>1 DEF Words!Init
  <1>3. text \in Seq(BOOLEAN)
    <2>1. PICK n \in 0..MaxSize : text \in [1..n -> BOOLEAN]
      BY <1>1 DEF Words!Init
    <2>2. n \in Nat
      BY <2>1
    <2> QED
      BY <2>1, <2>2
  <1>4. Counted = {}
    BY <1>2 DEF Counted
  <1>5. global_word_count = Cardinality(Counted)
    BY <1>2, <1>4, FS_EmptySet
  <1> QED
    BY <1>2, <1>3, <1>5 DEF WordInv, WordTypes, Adding

\* Every step of a worker but the last leaves the total as it is.
LEMMA WordMoves ==
  ASSUME WordSizes, WordInv, NEW w \in Crew,
         Words!Count(w) \/ Words!Lock(w) \/ Words!Load(w)
  PROVE  WordInv'
  <1>1. WordTypes /\ text \in Seq(BOOLEAN)
    BY DEF WordInv, WordTypes
  <1>2. text' = text /\ global_word_count' = global_word_count
    BY DEF Words!Count, Words!Lock, Words!Load
  <1>3. \A v \in Crew : EndsIn(v)' = EndsIn(v)
    BY <1>2, EndsStay
  <1>4. stage[w] # "done" /\ stage'[w] # "done" /\ \A v \in Crew : v # w => stage'[v] = stage[v]
    BY <1>1 DEF WordTypes, Words!Count, Words!Lock, Words!Load
  <1>5. Counted' = Counted
    BY <1>2, <1>3, <1>4 DEF Counted
  <1>6. global_word_count \in Nat
    BY <1>1, CountedFinite DEF WordInv
  <1>7. Words!WordsIn(Words!Start(w), Words!End(w)) = Cardinality(EndsIn(w))
        /\ Cardinality(EndsIn(w)) \in Nat
    BY <1>1, EndsApart, FS_CardinalityType
  <1>8. WordTypes'
    BY <1>1, <1>6, <1>7 DEF WordTypes, Words!Count, Words!Lock, Words!Load
  <1>9. ASSUME NEW v \in Crew PROVE Adding(v)'
    <2>1. Adding(v) /\ Adding(w)
      BY DEF WordInv
    <2>2. PICK A, B : A = Cardinality(EndsIn(v)) /\ B = Cardinality(EndsIn(w))
      OBVIOUS
    <2>3. Cardinality(EndsIn(v)') = A /\ (v = w => A = B)
      BY <1>3, <2>2
    <2>4. CASE Words!Count(w)
      <3>1. /\ stage' = [stage EXCEPT ![w] = "lock"] /\ count_mutex' = count_mutex
            /\ loaded' = loaded /\ local_count' = [local_count EXCEPT ![w] = B]
        BY <1>7, <2>2, <2>4 DEF Words!Count
      <3> QED
        BY <1>1, <1>2, <2>1, <2>2, <2>3, <3>1 DEF Adding, WordTypes
    <2>5. CASE Words!Lock(w)
      <3>1. \A x \in Crew : stage[x] \notin {"load", "store"}
        <4>1. count_mutex \notin Crew
          BY <2>5 DEF Words!Lock, WordSizes, Crew
        <4> QED
          BY <4>1 DEF WordInv, Adding
      <3>2. /\ stage' = [stage EXCEPT ![w] = "load"] /\ count_mutex' = w /\ stage[w] = "lock"
            /\ loaded' = loaded /\ local_count' = local_count
        BY <2>5 DEF Words!Lock
      <3> QED
        BY <1>1, <1>2, <2>1, <2>2, <2>3, <3>1, <3>2 DEF Adding, WordTypes
    <2>6. CASE Words!Load(w)
      <3>1. /\ stage' = [stage EXCEPT ![w] = "store"] /\ count_mutex' = count_mutex
            /\ loaded' = [loaded EXCEPT ![w] = global_word_count] /\ local_count' = local_count
            /\ stage[w] = "load"
        BY <2>6 DEF Words!Load
      <3> QED
        BY <1>1, <1>2, <2>1, <2>2, <2>3, <3>1 DEF Adding, WordTypes
    <2> QED
      BY <2>4, <2>5, <2>6
  <1>10. global_word_count' = Cardinality(Counted')
    BY <1>2, <1>5 DEF WordInv
  <1> QED
    BY <1>8, <1>9, <1>10 DEF WordInv

\* The store adds the ends of one chunk more.
LEMMA WordStores ==
  ASSUME WordSizes, WordInv, NEW w \in Crew, Words!Store(w)
  PROVE  WordInv'
  <1>1. WordTypes /\ text \in Seq(BOOLEAN) /\ Adding(w)
    BY DEF WordInv, WordTypes
  <1>2. /\ text' = text /\ local_count' = local_count /\ loaded' = loaded
        /\ stage[w] = "store" /\ stage' = [stage EXCEPT ![w] = "done"]
        /\ global_word_count' = loaded[w] + local_count[w]
    BY DEF Words!Store
  <1>3. \A v \in Crew : EndsIn(v)' = EndsIn(v)
    BY <1>2, EndsStay
  <1>4. stage'[w] = "done" /\ \A v \in Crew : v # w => stage'[v] = stage[v]
    BY <1>1, <1>2 DEF WordTypes
  <1>5. PICK C, E : C = Counted /\ E = EndsIn(w)
    OBVIOUS
  <1>6. Counted' = C \cup E
    <2>1. E \subseteq 1..Len(text)
      BY <1>1, <1>5, EndsApart
    <2> QED
      BY <1>2, <1>3, <1>4, <1>5, <2>1 DEF Counted
  <1>7. C \cap E = {}
    <2>1. \A v \in Crew : v # w => EndsIn(v) \cap E = {}
      BY <1>1, <1>5, EndsApart
    <2> QED
      BY <1>2, <1>5, <2>1 DEF Counted
  <1>8. IsFiniteSet(C) /\ IsFiniteSet(E) /\ Cardinality(C) \in Nat /\ Cardinality(E) \in Nat
        /\ Cardinality({}) = 0
    BY <1>1, <1>5, CountedFinite, EndsApart, FS_CardinalityType, FS_EmptySet
  <1>9. Cardinality(C \cup E) = Cardinality(C) + Cardinality(E)
    <2>1. Cardinality(C \cup E) = Cardinality(C) + Cardinality(E) - Cardinality(C \cap E)
      BY <1>8, FS_Union
    <2>2. PICK a \in Nat, b \in Nat : a = Cardinality(C) /\ b = Cardinality(E)
      BY <1>8
    <2>3. Cardinality(C \cup E) = a + b - 0
      BY <1>7, <1>8, <2>1, <2>2, Zenon
    <2>4. a + b - 0 = a + b
      BY <2>2
    <2> QED
      BY <2>2, <2>3, <2>4, Zenon
  <1>10. global_word_count' = Cardinality(C) + Cardinality(E)
    BY <1>1, <1>2, <1>5 DEF Adding, WordInv
  <1>11. ASSUME NEW v \in Crew PROVE Adding(v)'
    <2>1. Adding(v) /\ (v # w => stage[v] \notin {"load", "store"})
      BY <1>1, <1>2 DEF WordInv, Adding
    <2>2. PICK A : A = Cardinality(EndsIn(v))
      OBVIOUS
    <2>3. Cardinality(EndsIn(v)') = A
      BY <1>3, <2>2
    <2> QED
      BY <1>1, <1>2, <1>4, <2>1, <2>2, <2>3 DEF Adding, WordTypes
  <1>12. WordTypes'
    BY <1>1, <1>2 DEF WordTypes
  <1>13. global_word_count' = Cardinality(Counted')
    BY <1>6, <1>9, <1>10
  <1> QED
    BY <1>11, <1>12, <1>13 DEF WordInv

LEMMA WordNext == WordSizes /\ WordInv /\ [Words!Next]_wordVars => WordInv'
  <1> SUFFICES ASSUME WordSizes, WordInv, [Words!Next]_wordVars PROVE WordInv'
    OBVIOUS
  <1>1. CASE Words!Next
    BY <1>1, WordMoves, WordStores DEF Words!Next, Words!Worker, Words!Workers, Crew
  <1>2. CASE UNCHANGED wordVars
    <2>1. UNCHANGED <<text, stage, local_count, loaded, count_mutex, global_word_count>>
      BY <1>2 DEF wordVars
    <2>2. \A v \in Crew : EndsIn(v)' = EndsIn(v)
      BY <2>1, EndsStay
    <2>3. Counted' = Counted
      BY <2>1, <2>2 DEF Counted
    <2>4. WordTypes' /\ \A v \in Crew : Adding(v)'
      BY <2>1, <2>2 DEF WordInv, WordTypes, Adding
    <2> QED
      BY <2>1, <2>3, <2>4 DEF WordInv
  <1> QED
    BY <1>1, <1>2

LEMMA WordGivesTotal == WordSizes /\ WordInv => Words!TotalIsWordsAndCuts
  <1> SUFFICES ASSUME WordSizes, WordInv, Words!Joined
               PROVE  global_word_count = Words!Words + Words!Cardinality(Words!Cuts)
    BY DEF Words!TotalIsWordsAndCuts
  <1>1. \A w \in Crew : stage[w] = "done"
    BY DEF Words!Joined, Words!Workers, Crew
  <1>2. Counted = {n \in 1..Len(text) : \E w \in Crew : n \in EndsIn(w)}
    BY <1>1 DEF Counted
  <1>3. text \in Seq(BOOLEAN)
    BY DEF WordInv, WordTypes
  <1> QED
    BY <1>2, <1>3, EndsAndCuts DEF WordInv

\* The counters of src/atomic-vs-mutex.c and src/shm-counter.c hold at every
\* moment what their workers have done, and main prints all of it; the total
\* of src/task-word-count-pthread.c is the number of words of the file and
\* one more for each word that a chunk boundary cuts: for every number of
\* workers and iterations and every text.
THEOREM TotalsAreExact == Spec => []TotalsExact
  <1>1. CountSizes /\ WordSizes
    BY ConstantsAssumption DEF CountSizes, WordSizes
  <1>2. Init => CountInv /\ WordInv
    BY <1>1, CountInit, WordInit
  <1>3. CountInv /\ WordInv /\ [Next]_vars => CountInv' /\ WordInv'
    BY <1>1, OneProgramMoves, CountNext, WordNext
  <1>4. CountInv /\ WordInv => TotalsExact
    BY <1>1, CountGivesExact, WordGivesTotal DEF TotalsExact
  <1> QED
    BY <1>2, <1>3, <1>4, PTL DEF Spec
-----------------------------------------------------------------------------
(***************************************************************************)
(* The types of all programs.                                              *)
(***************************************************************************)
QueueP == INSTANCE BoundedQueueProofs

QueueSizes ==
    /\ Producers \cap Consumers = {} /\ NoThread \notin Producers \cup Consumers
    /\ BUFFER_SIZE \in Nat \ {0} /\ ITEMS_TO_PRODUCE \in Nat \ {0}

\* The futex queue, from its own invariant.
LEMMA QueueTypes ==
  /\ QueueSizes /\ Init => QueueP!IInv
  /\ QueueSizes /\ QueueP!IInv /\ [Queue!Next]_queueVars => QueueP!IInv'
  /\ QueueP!IInv => Queue!TypeOK
  <1>1. Queue!Init => QueueP!Init
    BY DEF Queue!Init, QueueP!Init, Queue!Threads, QueueP!Threads
  <1>2. [Queue!Next]_queueVars => [QueueP!Next]_QueueP!vars
    BY DEF queueVars, QueueP!vars, Queue!vars, Queue!Next, QueueP!Next, Queue!Producer, QueueP!Producer,
       Queue!Consumer, QueueP!Consumer, Queue!Joined, QueueP!Joined, Queue!AllDone, QueueP!AllDone,
       Queue!Lock, QueueP!Lock, Queue!ProducerMustWait, QueueP!ProducerMustWait,
       Queue!ConsumerMustWait, QueueP!ConsumerMustWait, Queue!FutexWait, QueueP!FutexWait,
       Queue!Put, QueueP!Put, Queue!Take, QueueP!Take, Queue!WakeConsumer, QueueP!WakeConsumer,
       Queue!WakeProducer, QueueP!WakeProducer, Queue!Wake, QueueP!Wake, Queue!Advance,
       QueueP!Advance, Queue!AfterIteration, QueueP!AfterIteration, Queue!SleepingConsumers,
       QueueP!SleepingConsumers, Queue!SleepingProducers, QueueP!SleepingProducers,
       Queue!Threads, QueueP!Threads
  <1>3. QueueSizes /\ QueueP!Init => QueueP!IInv
    BY QueueP!IInvInit DEF QueueSizes
  <1>4. QueueSizes /\ QueueP!IInv /\ [QueueP!Next]_QueueP!vars => QueueP!IInv'
    BY QueueP!TypeNext, QueueP!ControlNext, QueueP!RingNext DEF QueueSizes, QueueP!IInv
  <1>5. QueueP!IInv => Queue!TypeOK
    BY DEF QueueP!IInv, QueueP!TypeOK, Queue!TypeOK, QueueP!Threads, Queue!Threads, QueueP!Pcs,
       Queue!Pcs, QueueP!Items, Queue!Items
  <1> QED
    BY <1>1, <1>2, <1>3, <1>4, <1>5 DEF Init

\* The counters: the mutex and main's progress.
CountMore ==
    /\ creator \in {"creating", "done", "failed"}
    /\ lock \in 1..WORKERS \cup {Nobody}

LEMMA CountMoreTypes ==
  /\ Init => CountMore
  /\ CountMore /\ [Counters!Next]_countVars => CountMore'
  /\ CountInv /\ CountMore => Counters!TypeOK
  <1>1. Init => CountMore
    BY DEF Init, Counters!Init, CountMore
  <1>2. ASSUME CountMore, [Counters!Next]_countVars PROVE CountMore'
    BY <1>2 DEF CountMore, countVars, Counters!Next, Counters!Workers, Counters!Create,
       Counters!ForkFails, Counters!AtomicAdd, Counters!Begin, Counters!Load, Counters!Store,
       Counters!Finish, Counters!Join
  <1>3. CountInv /\ CountMore => Counters!TypeOK
    BY DEF CountInv, CountTypes, CountMore, Counters!TypeOK, Counters!Workers
  <1> QED
    BY <1>1, <1>2, <1>3

\* The word count: what is counted is never more than the text is long.
WordMore ==
    /\ Len(text) <= MaxSize
    /\ local_count \in [Crew -> 0..MaxSize] /\ loaded \in [Crew -> 0..MaxSize]
    /\ count_mutex \in Crew \cup {Nobody}

LEMMA AtMost ==
  ASSUME NEW l \in Nat, NEW S, S \subseteq 1..l, l <= MaxSize, MaxSize \in Nat
  PROVE  Cardinality(S) \in 0..MaxSize
  <1>1. IsFiniteSet(1..l) /\ Cardinality(1..l) = l
    <2>1. IsFiniteSet(1..l) /\ Cardinality(1..l) = IF 1 > l THEN 0 ELSE l - 1 + 1
      BY FS_Interval
    <2> QED
      BY <2>1
  <1>2. Cardinality(S) <= Cardinality(1..l) /\ IsFiniteSet(S)
    BY <1>1, FS_Subset
  <1>3. Cardinality(S) \in Nat
    BY <1>2, FS_CardinalityType
  <1> QED
    BY <1>1, <1>2, <1>3

LEMMA WordMoreTypes ==
  ASSUME WordSizes, MaxSize \in Nat
  PROVE  /\ Init => WordMore
         /\ WordInv /\ WordMore /\ [Words!Next]_wordVars => WordMore'
         /\ WordInv /\ WordMore => Words!TypeOK
  <1>1. ASSUME Init PROVE WordMore
    <2>1. Words!Init /\ Words!Workers = Crew
      BY <1>1 DEF Init, Words!Workers, Crew
    <2>2. PICK n \in 0..MaxSize : text \in [1..n -> BOOLEAN]
      BY <2>1 DEF Words!Init
    <2>3. n \in Nat /\ n <= MaxSize
      BY <2>2
    <2>4. Len(text) = n
      BY <2>2, <2>3
    <2> QED
      BY <2>1, <2>3, <2>4 DEF Words!Init, WordMore
  <1>2. ASSUME WordInv, WordMore PROVE global_word_count \in 0..MaxSize
    <2>1. text \in Seq(BOOLEAN) /\ global_word_count = Cardinality(Counted) /\ Len(text) <= MaxSize
      BY <1>2 DEF WordInv, WordTypes, WordMore
    <2>2. Counted \subseteq 1..Len(text) /\ Len(text) \in Nat
      BY <2>1 DEF Counted
    <2> QED
      BY <2>1, <2>2, AtMost
  <1>3. ASSUME WordInv, WordMore, NEW w \in Crew
        PROVE  Words!WordsIn(Words!Start(w), Words!End(w)) \in 0..MaxSize
    <2>1. text \in Seq(BOOLEAN) /\ Len(text) <= MaxSize
      BY <1>3 DEF WordInv, WordTypes, WordMore
    <2>2. /\ EndsIn(w) \subseteq 1..Len(text) /\ Len(text) \in Nat
          /\ Words!WordsIn(Words!Start(w), Words!End(w)) = Cardinality(EndsIn(w))
      BY <2>1, EndsApart
    <2> QED
      BY <2>1, <2>2, AtMost
  <1>4. ASSUME WordInv, WordMore, [Words!Next]_wordVars PROVE WordMore'
    <2>1. CASE UNCHANGED wordVars
      BY <1>4, <2>1 DEF wordVars, WordMore
    <2>2. ASSUME NEW w \in Crew, Words!Count(w) PROVE WordMore'
      BY <1>3, <1>4, <2>2 DEF WordMore, Words!Count
    <2>3. ASSUME NEW w \in Crew, Words!Lock(w) PROVE WordMore'
      BY <1>4, <2>3 DEF WordMore, Words!Lock
    <2>4. ASSUME NEW w \in Crew, Words!Load(w) PROVE WordMore'
      BY <1>2, <1>4, <2>4 DEF WordMore, Words!Load
    <2>5. ASSUME NEW w \in Crew, Words!Store(w) PROVE WordMore'
      BY <1>4, <2>5 DEF WordMore, Words!Store
    <2> QED
      BY <1>4, <2>1, <2>2, <2>3, <2>4, <2>5 DEF Words!Next, Words!Worker, Words!Workers, Crew
  <1>5. ASSUME WordInv, WordMore PROVE Words!TypeOK
    <2>1. Words!Workers = Crew
      BY DEF Words!Workers, Crew
    <2> QED
      BY <1>2, <1>5, <2>1 DEF WordInv, WordTypes, WordMore, Words!TypeOK
  <1> QED
    BY <1>1, <1>4, <1>5

\* The invariants of all programs together.
AllInv ==
    /\ prog \in {"queue", "copy", "words", "transfer", "merge", "mini", "jobs", "filter", "count"}
    /\ QueueP!IInv /\ CopyInv /\ WordInv /\ WordMore /\ TransferInv /\ MergeInv
    /\ MiniData /\ JobInv /\ FilterInv /\ CountInv /\ CountMore

LEMMA QueueMoves == [Next]_vars => [Queue!Next]_queueVars /\ prog' = prog
  BY DEF Next, vars

\* The state of the program that runs has its type, whatever the sizes.
THEOREM TypeCorrect == Spec => []TypeOK
  <1>1. QueueSizes /\ CountSizes /\ WordSizes /\ Filter!SizesOK /\ MaxSize \in Nat
    BY ConstantsAssumption DEF QueueSizes, CountSizes, WordSizes
  <1>2. Init => AllInv
    <2>1. Init => Filter!Init /\ prog \in {"queue", "copy", "words", "transfer", "merge", "mini",
                                           "jobs", "filter", "count"}
      BY DEF Init
    <2> QED
      BY <1>1, <2>1, QueueTypes, CopyInit, WordInit, WordMoreTypes, TransferInit, MergeInit,
         MiniInit, JobInit, FilterInit, CountInit, CountMoreTypes DEF AllInv
  <1>3. AllInv /\ [Next]_vars => AllInv'
    <2> SUFFICES ASSUME AllInv, [Next]_vars PROVE AllInv'
      OBVIOUS
    <2>1. QueueP!IInv' /\ prog' = prog
      BY <1>1, QueueMoves, QueueTypes DEF AllInv
    <2>2. CopyInv' /\ TransferInv'
      BY OneProgramMoves, CopyNext, TransferNext, ConstantsAssumption DEF AllInv
    <2>3. WordInv' /\ WordMore' /\ CountInv' /\ CountMore'
      BY <1>1, OneProgramMoves, WordNext, WordMoreTypes, CountNext, CountMoreTypes DEF AllInv
    <2>4. MergeInv' /\ MiniData' /\ JobInv'
      BY OneProgramMoves, MergeNext, MiniDataNext, JobNext DEF AllInv
    <2>5. FilterInv'
      BY <1>1, OneProgramMoves, FilterTypes, FilterAgrees, FilterNarrows DEF AllInv, FilterInv
    <2> QED
      BY <2>1, <2>2, <2>3, <2>4, <2>5 DEF AllInv
  <1>4. AllInv => TypeOK
    <2> SUFFICES ASSUME AllInv PROVE TypeOK
      OBVIOUS
    <2>1. Queue!TypeOK /\ Words!TypeOK /\ Counters!TypeOK
      BY <1>1, QueueTypes, WordMoreTypes, CountMoreTypes DEF AllInv
    <2>2. Copy!TypeOK /\ Transfer!TypeOK /\ Merge!TypeOK /\ Mini!TypeOK /\ Jobs!TypeOK
          /\ Filter!TypeOK
      BY DEF AllInv, CopyInv, TransferInv, MergeInv, MiniData, JobInv, JobTypes, FilterInv
    <2> QED
      BY <2>1, <2>2 DEF TypeOK, AllInv
  <1> QED
    BY <1>2, <1>3, <1>4, PTL DEF Spec
=============================================================================
