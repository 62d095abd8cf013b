----------------------------- MODULE MCVirtual -----------------------------
(***************************************************************************)
(* Virtual memory: the page tables, and the kernel heap, which asks them   *)
(* for a page at a time.  A behaviour is one of the tables, the calls for  *)
(* the heap included, or of the heap's own account.                        *)
(***************************************************************************)
EXTENDS WaterMark, TLC

CONSTANTS
    Procs, Screen, Junk, Parent, Child, Chunks      \* of Paging

VARIABLES
    part,                   \* "tables" or "heap"
    ram, table, frees       \* of Paging

paging_vars == <<ram, table, frees>>

\* A small layout of a process, with two entries per table: a page of the program
\* beside its page table, and a segment of 2MiB.
Code == [at |-> <<0, 0, 0, 1>>, large |-> FALSE, user |-> TRUE]
Big == [at |-> <<0, 0, 1, 0>>, large |-> TRUE, user |-> TRUE]

\* A page for the kernel beside the screen, then 2MiB for its allocator above.
\* Without them a process can be copied, with the first it lacks a frame for its
\* page table, and with both also a chunk for its large page.
KernelPage == [at |-> <<1, 1, 0, 0>>, large |-> FALSE, user |-> FALSE]
Heap == [at |-> <<1, 1, 1, 0>>, large |-> TRUE, user |-> FALSE]

Tables == INSTANCE Paging WITH
    NumFrames <- 14, NumEntries <- 2,
    UserMappings <- {Code, Big}, KernelMappings <- <<KernelPage, Heap>>,
    ScreenAddr <- <<1, 1, 0, 1>>, ParamAddrs <- {Code.at, Big.at},
    ExitCleanups <- 1, MaxFrees <- 1

ASSUME Tables!PagingAssumption /\ Tables!AddressAssumption

\* A space of two and a half pages of four bytes.
MCSizes == {1, 3, 5}
MCAlignments == {1, 4}

Slots == Permutations(Procs)

VirtualInit == part \in {"tables", "heap"} /\ Init /\ Tables!Init

VirtualNext ==
    \/ part = "tables" /\ Tables!Next /\ UNCHANGED <<part, vars>>
    \/ part = "heap" /\ Next /\ UNCHANGED <<part, paging_vars>>

VirtualSpec == VirtualInit /\ [][VirtualNext]_<<part, paging_vars, vars>>
-----------------------------------------------------------------------------
\* Each frame and chunk is free or in one place of one page table of paging.c.
MemoryAccounted == part = "tables" => Tables!MemoryAccounted

\* The kernel's half is the same in every page table that paging.c makes.
KernelShared == part = "tables" => Tables!KernelShared

\* The page tables of paging.c implement separate address spaces.
Isolation == Tables!Isolation
=============================================================================
