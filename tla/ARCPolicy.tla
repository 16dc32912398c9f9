------------------------------ MODULE ARCPolicy ------------------------------
(***************************************************************************)
(* simulateARC of src/page_cache_simulator.c: two lists of pages in frames *)
(* (T1 seen once, T2 seen again), two lists of ghosts (B1, B2) and the     *)
(* target p for the length of T1.  Lists have their newest page first.     *)
(***************************************************************************)
EXTENDS Integers, SequencesExt

CONSTANTS
    MAX_FRAMES,
    MAX_PAGES,
    Pages,
    NoPage      \* -1, what removeLRU returns for an empty list

VARIABLES T1, T2, B1, B2, p, hitsARC, missesARC,
    requested   \* history: the pages requested so far

vars == <<T1, T2, B1, B2, p, hitsARC, missesARC, requested>>

Init ==
    /\ T1 = <<>>
    /\ T2 = <<>>
    /\ B1 = <<>>
    /\ B2 = <<>>
    /\ p = 0
    /\ hitsARC = 0
    /\ missesARC = 0
    /\ requested = {}

\* removeLRU: the page taken, and the list without it.
LruOf(list)      == IF list = <<>> THEN NoPage ELSE Last(list)
WithoutLru(list) == IF list = <<>> THEN list ELSE Front(list)

\* replaceARC, given the target already moved: which list gives a page up.
\* The source asks whether B2 holds page 0, not the page requested.
ReplacesT1(target) ==
    /\ Len(T1) >= 1
    /\ Len(T1) > target \/ (Contains(B2, 0) /\ Len(T1) = target)

\* Mutant of Replaced: the page leaves its frame and no ghost is kept.
ReplacedUnseen(target) ==
    IF ReplacesT1(target)
      THEN [T1 |-> WithoutLru(T1), T2 |-> T2, B1 |-> B1, B2 |-> B2]
      ELSE [T1 |-> T1, T2 |-> WithoutLru(T2), B1 |-> B1, B2 |-> B2]

\* The four lists after replaceARC.
Replaced(target) ==
    IF ReplacesT1(target)
      THEN [T1 |-> WithoutLru(T1), T2 |-> T2, B1 |-> Cons(LruOf(T1), B1), B2 |-> B2]
      ELSE [T1 |-> T1, T2 |-> WithoutLru(T2), B1 |-> B1, B2 |-> Cons(LruOf(T2), B2)]

\* The request goes on to page; only the first MAX_PAGES do.
Request(page) ==
    /\ hitsARC + missesARC < MAX_PAGES
    /\ requested' = requested \cup {page}

Hit(page) ==
    /\ Request(page)
    /\ Contains(T1, page) \/ Contains(T2, page)
    /\ T1' = RemoveFirst(T1, page)
    /\ T2' = Cons(page, IF Contains(T1, page) THEN T2 ELSE RemoveFirst(T2, page))
    /\ hitsARC' = hitsARC + 1
    /\ UNCHANGED <<B1, B2, p, missesARC>>

Missing(page) == ~Contains(T1, page) /\ ~Contains(T2, page)

\* The frames keep ls.T1 and page is put in front of ls.T2.
Promote(page, ls) ==
    /\ T1' = ls.T1
    /\ T2' = Cons(page, ls.T2)

MissInB1(page) ==
    LET target == IF p + (IF Len(B2) > 0 THEN 1 ELSE 0) < MAX_FRAMES
                    THEN p + 1 ELSE MAX_FRAMES
        ls     == Replaced(target)
    IN  /\ Request(page)
        /\ Missing(page)
        /\ Contains(B1, page)
        /\ p' = target
        /\ Promote(page, ls)
        /\ B1' = RemoveFirst(ls.B1, page)
        /\ B2' = ls.B2
        /\ missesARC' = missesARC + 1
        /\ UNCHANGED hitsARC

MissInB2(page) ==
    LET target == IF p - (IF Len(B1) > 0 THEN 1 ELSE 0) > 0 THEN p - 1 ELSE 0
        ls     == Replaced(target)
    IN  /\ Request(page)
        /\ Missing(page)
        /\ ~Contains(B1, page)
        /\ Contains(B2, page)
        /\ p' = target
        /\ Promote(page, ls)
        /\ B1' = ls.B1
        /\ B2' = RemoveFirst(ls.B2, page)
        /\ missesARC' = missesARC + 1
        /\ UNCHANGED hitsARC

\* Is a frame to be given up for a new page?  The mutant lets one too many in.
FullTooLate == Len(T1) + Len(T2) > MAX_FRAMES
Full        == Len(T1) + Len(T2) >= MAX_FRAMES

MissNew(page) ==
    LET ls == IF Full THEN Replaced(p) ELSE [T1 |-> T1, T2 |-> T2, B1 |-> B1, B2 |-> B2]
    IN  /\ Request(page)
        /\ Missing(page)
        /\ ~Contains(B1, page)
        /\ ~Contains(B2, page)
        /\ T1' = Cons(page, ls.T1)
        /\ T2' = ls.T2
        /\ B1' = ls.B1
        /\ B2' = ls.B2
        /\ missesARC' = missesARC + 1
        /\ UNCHANGED <<p, hitsARC>>

Next ==
    \E page \in Pages : Hit(page) \/ MissInB1(page) \/ MissInB2(page) \/ MissNew(page)

Spec == Init /\ [][Next]_vars
-----------------------------------------------------------------------------
TypeOK ==
    /\ \A list \in {T1, T2, B1, B2} : list \in Seq(Pages \cup {NoPage})
    /\ p \in 0..MAX_FRAMES
    /\ hitsARC \in Nat
    /\ missesARC \in Nat
    /\ requested \in SUBSET Pages

\* How often a page is in a list.
Times(list, page) == Cardinality({n \in DOMAIN list : list[n] = page})

\* The evictions from an empty T2, which leave the page -1 in B2 for good.
Phantoms == Times(B2, NoPage)

\* A page once requested is in exactly one of the four lists, once: a ghost
\* is never resident, no page is in two frames, and none is forgotten
\* (lines 267-313).
EveryPageOnce ==
    \A page \in requested :
        Times(T1, page) + Times(T2, page) + Times(B1, page) + Times(B2, page) = 1

\* What the frames hold: as many pages as were requested until they are
\* full, then always MAX_FRAMES, except that every eviction from an empty T2
\* (lines 228 and 258) adds a page that no frame is there for.
FramesAccounted ==
    Len(T1) + Len(T2) =
        Phantoms + (IF Cardinality(requested) < MAX_FRAMES
                      THEN Cardinality(requested) ELSE MAX_FRAMES)
=============================================================================
