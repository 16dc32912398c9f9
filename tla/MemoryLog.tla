------------------------------ MODULE MemoryLog ------------------------------
(***************************************************************************)
(* The allocation log of src/memorylog.c: a menu to allocate, list, free   *)
(* and export blocks of memory, with a linked list of the blocks that are  *)
(* allocated.  Blocks have addresses in a small heap; whether malloc finds *)
(* room is its own choice, and it may hand out a freed address again.      *)
(*                                                                         *)
(* Sizes keep the arithmetic of the code on a smaller scale: UINT stands   *)
(* for 2^32, so sizes are taken modulo UINT where the code converts to     *)
(* unsigned int, and wrap to negative from UINT / 2 on in the int field of *)
(* the log.  size_t is wide enough for every product.  The entries of the  *)
(* list themselves are always allocated.                                   *)
(***************************************************************************)
EXTENDS Integers, SequencesExt

CONSTANTS
    Addresses,      \* the heap
    Counts,         \* what the user may enter for "Enter the size"
    UINT,           \* number of values of an unsigned int
    MaxIds,         \* bound on the allocations
    MaxFiles        \* files the process may have open

VARIABLES
    id,             \* next memory id
    head,           \* the list, newest first
    heap,           \* per address: bytes allocated, -1 if free
    openFiles       \* files opened and not closed

vars == <<id, head, heap, openFiles>>

SizeOf == {1, 4, 8}             \* char, int and float, double

Unsigned(n) == n % UINT
Signed(n)   == IF n % UINT < UINT \div 2 THEN n % UINT ELSE (n % UINT) - UINT

Entry == [memoryid : Nat, address : Addresses, size : Int, type : {"malloc", "calloc"}]

Init ==
    /\ id = 1
    /\ head = <<>>
    /\ heap = [a \in Addresses |-> -1]
    /\ openFiles = 0
-----------------------------------------------------------------------------
\* add: a new entry at the front.  The parameter size is an unsigned int,
\* the field an int.
Added(a, size, type) ==
    <<[memoryid |-> id, address |-> a, size |-> Signed(size), type |-> type]>> \o head

\* Bytes that malloc and calloc get: the product is cut to an unsigned int
\* before the call of malloc, and not at all in calloc.
MallocBytes(n, s) == Unsigned(n * s)
CallocBytes(n, s) == Unsigned(n) * s

\* What is logged of a calloc.  The mutant logs the size of one element.
LoggedElement(n, s) == s
LoggedCalloc(n, s)  == Unsigned(Unsigned(n) * s)

\* Menu entry 1 when the allocation succeeds; otherwise nothing changes.
Allocate(a, bytes, logged, type) ==
    /\ id <= MaxIds
    /\ heap[a] = -1
    /\ heap' = [heap EXCEPT ![a] = bytes]
    /\ head' = Added(a, logged, type)
    /\ id' = id + 1
    /\ UNCHANGED openFiles

mallocAllocation(a, n, s) == Allocate(a, MallocBytes(n, s), MallocBytes(n, s), "malloc")
callocAllocation(a, n, s) == Allocate(a, CallocBytes(n, s), LoggedCalloc(n, s), "calloc")

\* detailsofmemoryid: place of the first entry with this id, 0 if none.
detailsofmemoryid(m) == SelectInSeq(head, LAMBDA e : e.memoryid = m)

\* removememory: the list without the first entry of the address.  The
\* mutant always drops the head.
WithoutHead(a) == Tail(head)
removememory(a) ==
    RemoveAt(head, SelectInSeq(head, LAMBDA e : e.address = a))

\* Menu entry 3: the block is looked up by id, untracked and freed.
FreeMemory(m) ==
    /\ detailsofmemoryid(m) # 0
    /\ LET a == head[detailsofmemoryid(m)].address
       IN  /\ head' = removememory(a)
           /\ heap' = [heap EXCEPT ![a] = -1]
    /\ UNCHANGED <<id, openFiles>>

\* Menu entry 4.  With nothing to export the function returns before fclose.
ExportNothing ==
    /\ openFiles < MaxFiles
    /\ head = <<>>
    /\ openFiles' = openFiles + 1
    /\ UNCHANGED <<id, head, heap>>

Next ==
    \/ \E a \in Addresses, n \in Counts, s \in SizeOf :
          mallocAllocation(a, n, s) \/ callocAllocation(a, n, s)
    \/ \E m \in 1..MaxIds : FreeMemory(m)
    \/ ExportNothing

Spec == Init /\ [][Next]_vars
-----------------------------------------------------------------------------
TypeOK ==
    /\ id \in 1..(MaxIds + 1)
    /\ head \in Seq(Entry)
    /\ heap \in [Addresses -> Int]
    /\ openFiles \in 0..MaxFiles

\* The list tracks exactly the blocks that are allocated, each once, also
\* when an address comes back (lines 19-51 and 72-119): nothing is leaked and
\* nothing would be freed twice.
TracksHeap ==
    /\ {head[i].address : i \in DOMAIN head} = {a \in Addresses : heap[a] # -1}
    /\ \A i, j \in DOMAIN head :
          i < j => head[i].address # head[j].address /\ head[i].memoryid > head[j].memoryid

\* The size in the log is the size of the block as long as it fits an int
\* (lines 31-51); beyond that it is off by a multiple of 2^32.
SizesLogged ==
    \A i \in DOMAIN head :
        LET bytes == heap[head[i].address]
        IN  IF bytes < UINT \div 2 THEN head[i].size = bytes
            ELSE (head[i].size - bytes) % UINT = 0
=============================================================================
