----------------------------- MODULE ClockPolicy -----------------------------
(***************************************************************************)
(* simulateClock of src/page_cache_simulator.c.  The loop while (1) that   *)
(* turns the hand is one action per frame it looks at.                     *)
(***************************************************************************)
EXTENDS Integers, FiniteSets

CONSTANTS MAX_FRAMES, MAX_PAGES, Pages, NoPage

VARIABLES
    buffer,   \* per frame, its page, or NoPage (-1)
    refBit,   \* per frame, 0 or 1
    pointer,  \* the hand
    page,     \* the missing page the hand turns for, or NoPage
    hits,
    misses,
    atMiss,   \* history: refBit when the hand began to turn
    skipped   \* history: frames it went past since

vars == <<buffer, refBit, pointer, page, hits, misses, atMiss, skipped>>

Frames == 0 .. MAX_FRAMES - 1

Init ==
    /\ buffer = [f \in Frames |-> NoPage]
    /\ refBit = [f \in Frames |-> 0]
    /\ pointer = 0
    /\ page = NoPage
    /\ hits = 0
    /\ misses = 0
    /\ atMiss = [f \in Frames |-> 0]
    /\ skipped = 0

\* A request may be served: the one before it is.
Ready == page = NoPage /\ hits + misses < MAX_PAGES

Holding(pg) == {f \in Frames : buffer[f] = pg}

Hit(pg) ==
    /\ Ready
    /\ \E f \in Holding(pg) :
          /\ \A g \in Holding(pg) : f <= g
          /\ refBit' = [refBit EXCEPT ![f] = 1]
    /\ hits' = hits + 1
    /\ UNCHANGED <<buffer, pointer, page, misses, atMiss, skipped>>

Miss(pg) ==
    /\ Ready
    /\ Holding(pg) = {}
    /\ page' = pg
    /\ misses' = misses + 1
    /\ atMiss' = refBit
    /\ skipped' = 0
    /\ UNCHANGED <<buffer, refBit, pointer, hits>>

\* The reference bits after the hand went past f.
Unreferenced(f) == [refBit EXCEPT ![f] = 0]

\* The hand goes past a frame whose bit is set.
Skip ==
    /\ page # NoPage
    /\ refBit[pointer] # 0
    /\ refBit' = Unreferenced(pointer)
    /\ pointer' = (pointer + 1) % MAX_FRAMES
    /\ skipped' = skipped + 1
    /\ UNCHANGED <<buffer, page, hits, misses, atMiss>>

\* Mutant of Take: replaces the page of the next frame instead.
TakeAfterHand ==
    /\ page # NoPage
    /\ refBit[pointer] = 0
    /\ buffer' = [buffer EXCEPT ![(pointer + 1) % MAX_FRAMES] = page]
    /\ refBit' = [refBit EXCEPT ![(pointer + 1) % MAX_FRAMES] = 1]
    /\ pointer' = (pointer + 1) % MAX_FRAMES
    /\ page' = NoPage
    /\ UNCHANGED <<hits, misses, atMiss, skipped>>

\* The hand stops at a frame whose bit is clear.
Take ==
    /\ page # NoPage
    /\ refBit[pointer] = 0
    /\ buffer' = [buffer EXCEPT ![pointer] = page]
    /\ refBit' = [refBit EXCEPT ![pointer] = 1]
    /\ pointer' = (pointer + 1) % MAX_FRAMES
    /\ page' = NoPage
    /\ UNCHANGED <<hits, misses, atMiss, skipped>>

Next == (\E pg \in Pages : Hit(pg) \/ Miss(pg)) \/ Skip \/ Take

Spec == Init /\ [][Next]_vars
-----------------------------------------------------------------------------
TypeOK ==
    /\ buffer \in [Frames -> Pages \cup {NoPage}]
    /\ refBit \in [Frames -> {0, 1}]
    /\ pointer \in Frames
    /\ page \in Pages \cup {NoPage}
    /\ hits \in Nat
    /\ misses \in Nat
    /\ atMiss \in [Frames -> {0, 1}]
    /\ skipped \in 0..MAX_FRAMES     \* the loop at line 138 ends within a round

\* A second chance: a page used since the hand last went past it gives way
\* to another page only if every page was (lines 138-152).
SecondChance ==
    [][\A f \in Frames :
         (buffer'[f] # buffer[f] /\ atMiss[f] = 1) => \A g \in Frames : atMiss[g] = 1]_vars
=============================================================================
