------------------------------ MODULE MCMemory ------------------------------
(***************************************************************************)
(* What becomes of memory before and below the page tables: a behaviour is *)
(* one of the boot memory map, of the allocator of physical memory, or of  *)
(* the ELF loader.                                                         *)
(***************************************************************************)
EXTENDS PhysAlloc, ElfLoader, MemoryMap

VARIABLE part           \* "map", "pools" or "loader"

\* Files with up to two segments, with pages of 2 and 4 bytes.  Segments start at
\* a large page, as the linker script makes them, in ascending order.
MCSegments ==
    {s \in [load : BOOLEAN, offset : {1, 20}, vaddr : {0, 4, 8, 16},
            filesz : {0, 1, 3, 4, 5}, memsz : {1, 2, 3, 4, 5}] :
        /\ s.filesz <= s.memsz
        /\ s.offset = IF s.vaddr = 0 THEN 1 ELSE 20
        /\ s.load \/ (s.vaddr = 0 /\ s.memsz = 1)}

\* Segments anywhere in 64 bits: the process has addresses 0 .. 19, the kernel
\* 60 .. 79, and those between are translated like them (20 .. 39 like 60 .. 79).
WildSegments ==
    {s \in [load : {TRUE}, offset : {20}, vaddr : {16, 18, 20, 24, 26, 40, 59, 60, 64, 68, 76, 78},
            filesz : {1, 5}, memsz : {1, 3, 5, 20, 24}] : s.filesz <= s.memsz}
MCKernelPages == {[base |-> 20, size |-> 4], [base |-> 24, size |-> 2]}
File(h, e, segments) == [header |-> h, entry |-> e, segments |-> segments]
MCFiles ==
    {File("ok", 1, <<s>>) : s \in MCSegments \cup WildSegments}
        \cup {File("ok", 1, <<s, t>>) : s \in {u \in MCSegments : u.vaddr = 0}, t \in WildSegments}
        \cup {f \in {File("ok", 1, <<s, t>>) : s, t \in MCSegments} :
                    f.segments[1].vaddr <= f.segments[2].vaddr}
        \cup {File(h, e, <<>>) : h \in {"ok", "BAD_MAGIC"}, e \in {0, 1}}

\* Memory of up to 68 bytes: 4KiB are 2 bytes, 2MiB are 4 and 1GiB is 16.
MCEntries ==
    {e \in [base : {0, 1, 3, 6, 8, 9, 16, 21, 36}, length : {1, 2, 3, 5, 11, 32}, usable : BOOLEAN] :
        e.usable \/ e.length = 3}
Apart(e, f) == e.base + e.length <= f.base \/ f.base + f.length <= e.base
MCMaps ==
    {<<e>> : e \in MCEntries}
        \cup {m \in {<<e, f>> : e, f \in MCEntries} : Apart(m[1], m[2])}

NoFile == File("BAD_MAGIC", 0, <<>>)
OneMap == <<[base |-> 8, length |-> 32, usable |-> TRUE]>>

MemoryInit ==
    /\ part \in {"map", "pools", "loader"}
    /\ file \in IF part = "loader" THEN MCFiles ELSE {NoFile}
    /\ reported \in IF part = "map" THEN MCMaps ELSE {OneMap}
    /\ LoaderBegin /\ MapBegin /\ Init

MemoryNext ==
    \/ part = "map" /\ MapNext /\ UNCHANGED <<part, loader_vars, vars>>
    \/ part = "pools" /\ Next /\ UNCHANGED <<part, loader_vars, map_vars>>
    \/ part = "loader" /\ LoaderNext /\ UNCHANGED <<part, map_vars, vars>>

MemorySpec == MemoryInit /\ [][MemoryNext]_<<part, loader_vars, map_vars, vars>>
=============================================================================
