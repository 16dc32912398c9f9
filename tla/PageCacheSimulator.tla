-------------------------- MODULE PageCacheSimulator --------------------------
(***************************************************************************)
(* main of src/page_cache_simulator.c: the user chooses one of the three   *)
(* policies, whose modules are composed here; any other choice ends the    *)
(* program.  LRU and clock each have local frames and counters; only one   *)
(* of them runs, so both use the variables buffer, hits and misses.        *)
(***************************************************************************)
EXTENDS Integers

CONSTANTS MAX_FRAMES, MAX_PAGES, Pages, NoPage

VARIABLES
    choice,
    buffer, hits, misses,
    time, counter, lastUse,
    refBit, pointer, page, atMiss, skipped,
    T1, T2, B1, B2, p, hitsARC, missesARC, requested

lruVars   == <<time, counter, lastUse>>
clockVars == <<refBit, pointer, page, atMiss, skipped>>
arcVars   == <<T1, T2, B1, B2, p, hitsARC, missesARC, requested>>
vars      == <<choice, buffer, hits, misses, lruVars, clockVars, arcVars>>

LRU   == INSTANCE LRUPolicy
Clock == INSTANCE ClockPolicy
ARC   == INSTANCE ARCPolicy

Choices == 1..4     \* 4 stands for every invalid choice

Init ==
    /\ choice \in Choices
    /\ LRU!Init
    /\ Clock!Init
    /\ ARC!Init

SimulateLRU   == choice = 1 /\ LRU!Next /\ UNCHANGED <<choice, clockVars, arcVars>>
SimulateClock == choice = 2 /\ Clock!Next /\ UNCHANGED <<choice, lruVars, arcVars>>
SimulateARC   == choice = 3 /\ ARC!Next /\ UNCHANGED <<choice, buffer, hits, misses, lruVars, clockVars>>

Next == SimulateLRU \/ SimulateClock \/ SimulateARC

\* main returns: the choice is invalid, or all requests are served.
Finished ==
    \/ choice = 4
    \/ hits + misses + hitsARC + missesARC = MAX_PAGES /\ page = NoPage

Spec == Init /\ [][Next]_vars
-----------------------------------------------------------------------------
TypeOK == choice \in Choices /\ LRU!TypeOK /\ Clock!TypeOK /\ ARC!TypeOK
=============================================================================
