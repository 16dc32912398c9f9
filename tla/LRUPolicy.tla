------------------------------ MODULE LRUPolicy ------------------------------
(***************************************************************************)
(* simulateLRU of src/page_cache_simulator.c: frames with the time of the  *)
(* last use of their page.  The code replays a fixed array of MAX_PAGES    *)
(* page numbers; here every array of that length is replayed.              *)
(***************************************************************************)
EXTENDS Integers, FiniteSetsExt

CONSTANTS MAX_FRAMES, MAX_PAGES, Pages, NoPage

VARIABLES
    buffer,   \* per frame, its page, or NoPage (-1)
    time,     \* per frame, the counter at the last use of the page, or -1
    counter,
    hits,
    misses,
    lastUse   \* history: per page, the counter at its last request, or 0

vars == <<buffer, time, counter, hits, misses, lastUse>>

Frames   == 0 .. MAX_FRAMES - 1
Resident == {buffer[f] : f \in Frames} \ {NoPage}

\* findPage, as the set it takes the least index of
Holding(page) == {f \in Frames : buffer[f] = page}

\* The frame with the least time, the first one of several; the mutant
\* takes the greatest.
Newest ==
    CHOOSE f \in Frames : \A g \in Frames : time[g] <= time[f]
Lru ==
    Min({f \in Frames : \A g \in Frames : time[f] <= time[g]})

\* The frame a missing page goes to: the first empty one, else the victim.
FrameFor ==
    IF Holding(NoPage) # {} THEN Min(Holding(NoPage)) ELSE Lru

Init ==
    /\ buffer = [f \in Frames |-> NoPage]
    /\ time = [f \in Frames |-> -1]
    /\ counter = 0
    /\ hits = 0
    /\ misses = 0
    /\ lastUse = [page \in Pages |-> 0]

\* time[f] = ++counter
Use(f, page) ==
    /\ counter' = counter + 1
    /\ time' = [time EXCEPT ![f] = counter + 1]
    /\ lastUse' = [lastUse EXCEPT ![page] = counter + 1]

Hit(page) ==
    /\ hits + misses < MAX_PAGES
    /\ Holding(page) # {}
    /\ Use(Min(Holding(page)), page)
    /\ hits' = hits + 1
    /\ UNCHANGED <<buffer, misses>>

Miss(page) ==
    /\ hits + misses < MAX_PAGES
    /\ Holding(page) = {}
    /\ buffer' = [buffer EXCEPT ![FrameFor] = page]
    /\ Use(FrameFor, page)
    /\ misses' = misses + 1
    /\ UNCHANGED hits

Next == \E page \in Pages : Hit(page) \/ Miss(page)

Spec == Init /\ [][Next]_vars
-----------------------------------------------------------------------------
TypeOK ==
    /\ buffer \in [Frames -> Pages \cup {NoPage}]
    /\ time \in [Frames -> Nat \cup {-1}]
    /\ counter \in Nat
    /\ hits \in Nat
    /\ misses \in Nat
    /\ lastUse \in [Pages -> Nat]

\* Least recently used is what goes (lines 76-86): whatever was requested,
\* every page in a frame was requested after every page that is in none, no
\* frame is given up while another is empty, and no page fills two frames.
KeepsMostRecent ==
    /\ \A page \in Resident, gone \in Pages \ Resident :
          lastUse[gone] < lastUse[page]
    /\ \A gone \in Pages \ Resident :
          lastUse[gone] > 0 => Cardinality(Resident) = MAX_FRAMES
    /\ \A page \in Resident : Cardinality(Holding(page)) = 1
=============================================================================
