------------------------------ MODULE MemoryMap ------------------------------
(***************************************************************************)
(* The boot memory map: get_total_usable_ram cuts the kernel out of the    *)
(* regions the BIOS reports, phys_memory_init places the tables that map   *)
(* all of memory behind the kernel, and setup_physical_allocator divides   *)
(* the rest into 2MiB chunks.  One action is one round of a loop.          *)
(*                                                                         *)
(* Sizes are scaled down.  The regions of the BIOS do not overlap.         *)
(***************************************************************************)
EXTENDS Integers, Sequences, FiniteSets, SequencesExt

CONSTANTS
    Maps,               \* what the BIOS may report: sequences of Entry
    KERNEL_START, KERNEL_END,
    SMALL, LARGE, GIB,  \* 4KiB, 2MiB and 1GiB
    PDT_PER_PDPT,       \* entries of a table (512)
    MMAP_MAX_ENTRIES

Entry == [base : Nat, length : Nat, usable : BOOLEAN]
Region(e) == e.base .. e.base + e.length - 1

\* The kernel starts in the first 2MiB, but not at 0.  Usable memory is reported
\* once.
ASSUME MapAssumption ==
    /\ {KERNEL_START, KERNEL_END, SMALL, LARGE, GIB} \subseteq Nat \ {0}
    /\ KERNEL_START < KERNEL_END /\ KERNEL_START < LARGE
    /\ LARGE % SMALL = 0 /\ GIB % 2 = 0
    /\ PDT_PER_PDPT \in Nat \ {0, 1}
    /\ \A m \in Maps :
           /\ m \in Seq(Entry)
           /\ \A j, k \in DOMAIN m :
                  j # k /\ m[j].usable /\ m[k].usable => Region(m[j]) \cap Region(m[k]) = {}

VARIABLES
    reported,           \* the map as the BIOS left it
    mmap,               \* the map as the kernel keeps it
    map_at,             \* "cut", "place", "chunks", "done", "panic"
    map_i,              \* the loop variable
    mmap_size,          \* the entries the first loop goes through
    total_usable_ram, highest_address,
    psi,                \* where the paging structures are
    pushed              \* the chunks on stack_2MIB, the top of the stack first

map_vars == <<reported, mmap, map_at, map_i, mmap_size, total_usable_ram,
              highest_address, psi, pushed>>

AlignUp(x, n) == x + ((n - (x % n)) % n)
Greater(a, b) == IF a > b THEN a ELSE b
Smaller(a, b) == IF a < b THEN a ELSE b
NoTables == [base |-> 0, num_pds |-> 0, num_pdpts |-> 0, space |-> 0]

MapBegin ==
    /\ mmap = reported
    /\ map_at = "cut" /\ map_i = 1
    /\ mmap_size = Len(reported)
    /\ total_usable_ram = 0 /\ highest_address = 0
    /\ psi = NoTables
    /\ pushed = <<>>

MapInit == reported \in Maps /\ MapBegin

-----------------------------------------------------------------------------
Below(e) == [e EXCEPT !.length = KERNEL_START - e.base]
Above(e) == [e EXCEPT !.base = KERNEL_END, !.length = e.base + e.length - KERNEL_END]

\* Mutant: a region that starts in the kernel keeps its length.
CutOut_long(e, room) ==
    LET max_addr == e.base + e.length
    IN  IF e.base < KERNEL_START /\ max_addr > KERNEL_START THEN <<Below(e)>>
        ELSE IF e.base < KERNEL_END /\ max_addr > KERNEL_END
        THEN <<[e EXCEPT !.base = KERNEL_END]>>
        ELSE IF e.base >= KERNEL_START /\ max_addr <= KERNEL_END
        THEN <<[e EXCEPT !.usable = FALSE]>>
        ELSE <<e>>

\* What a usable entry becomes without the kernel, followed by the entry to add
\* if there is one.  Case 1 of the four in the code also takes what is meant for
\* case 4, the last.
CutOut(e, room) ==
    LET max_addr == e.base + e.length
    IN  IF e.base < KERNEL_START /\ max_addr > KERNEL_START THEN <<Below(e)>>
        ELSE IF e.base < KERNEL_END /\ max_addr > KERNEL_END THEN <<Above(e)>>
        ELSE IF e.base >= KERNEL_START /\ max_addr <= KERNEL_END
        THEN <<[e EXCEPT !.usable = FALSE]>>
        ELSE IF e.base < KERNEL_START /\ max_addr > KERNEL_END
        THEN IF room THEN <<Below(e), Above(e)>>
             ELSE IF KERNEL_START - e.base > max_addr - KERNEL_END THEN <<Below(e)>>
             ELSE <<Above(e)>>
        ELSE <<e>>

Account(e) ==
    IF e.usable
    THEN /\ total_usable_ram' = total_usable_ram + e.length
         /\ highest_address' = Greater(highest_address, e.base + e.length)
    ELSE UNCHANGED <<total_usable_ram, highest_address>>

\* One round of the first loop of get_total_usable_ram
Cut ==
    /\ map_at = "cut" /\ map_i <= mmap_size
    /\ LET e == mmap[map_i]
           cut == IF e.usable THEN CutOut(e, Len(mmap) < MMAP_MAX_ENTRIES) ELSE <<e>>
       IN  /\ mmap' = [mmap EXCEPT ![map_i] = cut[1]] \o Tail(cut)
           /\ Account(cut[1])
    /\ map_i' = map_i + 1
    /\ UNCHANGED <<reported, map_at, mmap_size, psi, pushed>>

\* Its second loop, over the entries that were added
Extras ==
    /\ map_at = "cut" /\ map_i > mmap_size
    /\ IF map_i <= Len(mmap)
       THEN Account(mmap[map_i]) /\ map_i' = map_i + 1 /\ UNCHANGED map_at
       ELSE map_at' = "place" /\ map_i' = 1 /\ UNCHANGED <<total_usable_ram, highest_address>>
    /\ UNCHANGED <<reported, mmap, mmap_size, psi, pushed>>

\* Mutant: half a GiB is not rounded up.
num_pds_floor(highest) ==
    LET n == highest \div GIB IN IF n >= 1 THEN n - 1 ELSE n

\* How many page directories and PDP tables the map of all memory is said to
\* need, besides the static ones
num_pds(highest) ==
    LET n == (highest + GIB \div 2) \div GIB IN IF n >= 1 THEN n - 1 ELSE n
num_pdpts(highest) ==
    LET n == (num_pds(highest) + 1) \div PDT_PER_PDPT IN IF n >= 1 THEN n - 1 ELSE n
space_needed == SMALL * (num_pds(highest_address) + num_pdpts(highest_address))

\* The region without what is before base and the tables at base
Shrink(e, base) ==
    [e EXCEPT !.base = base + space_needed,
              !.length = e.length - (base - e.base) - space_needed]

\* What is left of a region when its start is aligned
Room(e) == e.length - (AlignUp(e.base, SMALL) - e.base)

\* One round of the loop of phys_memory_init that looks for a place
Place ==
    /\ map_at = "place"
    /\ IF map_i > Len(mmap)
       THEN map_at' = "panic" /\ UNCHANGED <<mmap, map_i, psi>>
       ELSE LET e == mmap[map_i]
                base == AlignUp(e.base, SMALL)
            IN  IF ~e.usable \/ e.length < SMALL
                THEN map_i' = map_i + 1 /\ UNCHANGED <<map_at, mmap, psi>>
                ELSE IF base >= GIB
                THEN map_at' = "panic" /\ UNCHANGED <<mmap, map_i, psi>>
                ELSE IF base >= KERNEL_END /\ Room(e) >= space_needed
                THEN /\ psi' = [base |-> base, space |-> space_needed,
                                num_pds |-> num_pds(highest_address),
                                num_pdpts |-> num_pdpts(highest_address)]
                     /\ mmap' = [mmap EXCEPT ![map_i] = Shrink(e, base)]
                     /\ map_at' = "chunks" /\ map_i' = 1
                ELSE map_i' = map_i + 1 /\ UNCHANGED <<map_at, mmap, psi>>
    /\ UNCHANGED <<reported, mmap_size, total_usable_ram, highest_address, pushed>>

\* create_paging_structures: the GiB that are mapped in the kernel's half.  The
\* static PDP table, which has the first GiB, gets the other directories until
\* it is full.
first_pds(p) == Smaller(p.num_pds, PDT_PER_PDPT - 1)
MappedGiB(p) == 0 .. first_pds(p)
\* The other PDP tables get the directories that are left, one table after the
\* other, and each has to be written itself.  What they map is in the lower half
\* only, which is cleared.
other_pds(p) == Smaller(p.num_pds - first_pds(p), p.num_pdpts * PDT_PER_PDPT)
Tables(p) == first_pds(p) + other_pds(p) + (other_pds(p) + PDT_PER_PDPT - 1) \div PDT_PER_PDPT

\* The chunks of a region
ChunksOf(e) ==
    LET base == AlignUp(e.base, LARGE)
        length == e.length - (base - e.base)
    IN  IF ~e.usable \/ e.length < LARGE \/ length < LARGE THEN <<>>
        ELSE [k \in 1 .. length \div LARGE |-> base + (k - 1) * LARGE]

\* One round of the loop of setup_physical_allocator
PushChunks ==
    /\ map_at = "chunks"
    /\ IF map_i > Len(mmap)
       THEN map_at' = "done" /\ UNCHANGED <<map_i, pushed>>
       ELSE /\ pushed' = Reverse(ChunksOf(mmap[map_i])) \o pushed
            /\ map_i' = map_i + 1 /\ UNCHANGED map_at
    /\ UNCHANGED <<reported, mmap, mmap_size, total_usable_ram, highest_address, psi>>

MapNext == Cut \/ Extras \/ Place \/ PushChunks

MapSpec == MapInit /\ [][MapNext]_map_vars
-----------------------------------------------------------------------------
\* Every variable has the type of its C declaration; no length has wrapped.
MapTypeOK ==
    /\ \A e \in Range(mmap) : e.base \in Nat /\ e.length \in Nat
    /\ map_at \in {"cut", "place", "chunks", "done", "panic"}
    /\ total_usable_ram \in Nat /\ highest_address \in Nat
    /\ \A c \in Range(pushed) : c \in Nat

Usable == UNION {Region(e) : e \in {f \in Range(reported) : f.usable}}
Kernel == KERNEL_START .. KERNEL_END - 1
TableSpace == psi.base .. psi.base + psi.space - 1
ChunkSpan(c) == c .. c + LARGE - 1
Spans(e) == e.usable /\ e.base < KERNEL_START /\ e.base + e.length > KERNEL_END

\* A chunk is memory the BIOS reported as usable, with nothing of the kernel or
\* the page tables in it, aligned for a large page, and not at address 0, which
\* would be taken for NULL.
ChunksAreFree ==
    \A c \in Range(pushed) :
        /\ c % LARGE = 0 /\ c # 0
        /\ ChunkSpan(c) \subseteq Usable \ (Kernel \cup TableSpace)

\* No chunk is handed out twice.
ChunksOnce == IsInjective(pushed)

\* No chunk that lies in one region is forgotten.  (Four cuts and roundings are
\* made on the way.)  A region that spans the kernel is an exception, below.
NoChunkForgotten ==
    map_at = "done" /\ (\A e \in Range(reported) : ~Spans(e)) =>
        \A e \in Range(reported), c \in {k * LARGE : k \in 0 .. highest_address \div LARGE} :
            e.usable /\ ChunkSpan(c) \subseteq Region(e) \ (Kernel \cup TableSpace)
                => c \in Range(pushed)

\* total_usable_ram counts the usable bytes outside the kernel.
TotalExact ==
    map_at = "place" /\ (\A e \in Range(reported) : ~Spans(e)) =>
        total_usable_ram = Cardinality(Usable \ Kernel)

\* The page tables fit into the space that is set aside for them, in usable
\* memory behind the kernel.
TablesFit ==
    /\ SMALL * Tables(psi) <= psi.space
    /\ map_at \in {"chunks", "done"} => TableSpace \subseteq Usable \ Kernel /\ psi.base % SMALL = 0

Reachable(c) == c \div GIB \in MappedGiB(psi)

\* The chunks can be reached, up to what one PDP table maps, if memory ends in
\* the upper half of a GiB or at a whole one.
ChunksMapped ==
    highest_address % GIB \in {0} \cup (GIB \div 2 .. GIB) =>
        \A c \in Range(pushed) : c < GIB * PDT_PER_PDPT => Reachable(c)

\* The allocator starts with the free chunks, with all of them and with each once.
ChunksExact == MapTypeOK /\ ChunksAreFree /\ ChunksOnce /\ NoChunkForgotten /\ TotalExact

\* What is handed out can be reached, by tables that are in nobody's way.
ChunksBacked == TablesFit /\ ChunksMapped
=============================================================================
