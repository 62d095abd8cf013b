------------------------------- MODULE Paging -------------------------------
(***************************************************************************)
(* The page tables, paging.c, in the memory they lie in.  A table is a     *)
(* frame of words; an address is the tuple of its PML4, PDPT, PDT and PT   *)
(* index.  The lower half of a PML4 belongs to one process, the entries of *)
(* the upper half are the same in all of them.                             *)
(*                                                                         *)
(* phys_alloc.c (module PhysAlloc) is one pool of 4KiB frames, whose free  *)
(* stack is linked through the first word of the frames on it, and a stack *)
(* of 2MiB chunks.  Its panics other than running out are left out here.   *)
(* The static map of all memory at PML4 index 256, and the TLB, which no   *)
(* caller leaves stale, are left out too.                                  *)
(***************************************************************************)
EXTENDS Integers, Sequences, FiniteSets, SequencesExt

CONSTANTS
    Procs,          \* slots for processes
    Screen,         \* the physical page of the screen memory
    Junk, Parent, Child,    \* what a page holds: leftovers, or what fork left
    NumFrames,      \* 4KiB frames, the first of which is kernel_PML4
    Chunks,         \* 2MiB chunks
    NumEntries,     \* words of a frame (512)
    UserMappings,   \* what processes map: [at : address, large, user : BOOLEAN]
    KernelMappings, \* what the kernel maps while it starts, in this order
    ScreenAddr,     \* where the screen memory is mapped
    ParamAddrs,     \* where fork may be told to leave the id
    ExitCleanups,   \* how often exit cleans up the page table (2 in the code)
    MaxFrees        \* bound: how many calls that free memory are made

PagingAssumption ==
    /\ NumFrames \in Nat \ {0} /\ NumEntries \in Nat \ {0, 1}
    /\ IsFiniteSet(Chunks) /\ MaxFrees \in Nat
    /\ ExitCleanups \in {1, 2}

NULL == 0
kernel_table == 1
Frames == 1 .. NumFrames
Indices == 0 .. NumEntries - 1
UserHalf == 0 .. NumEntries \div 2 - 1
KernelHalf == Indices \ UserHalf
UserAddrs == UserHalf \X Indices \X Indices \X Indices
KernelAddrs == KernelHalf \X Indices \X Indices \X Indices
AddressAssumption ==
    /\ \A m \in UserMappings : m.at \in UserAddrs
    /\ \A m \in Range(KernelMappings) : m.at \in KernelAddrs
    /\ ScreenAddr \in KernelAddrs /\ ParamAddrs \subseteq UserAddrs

VARIABLES
    ram,            \* the memory and its allocator, see RamType
    table,          \* the page table of each process, or NULL
    frees           \* counts the calls bounded by MaxFrees

vars == <<ram, table, frees>>

Marks == {Junk, Parent, Child} \cup Procs

\* Words of a frame: an entry of a table, or anything without the present bit
Entry(addr, large, user) ==
    [present |-> TRUE, large |-> large, user |-> user, addr |-> addr]
Plain(x) == [present |-> FALSE, large |-> FALSE, user |-> FALSE, addr |-> x]
Filled(x) == [i \in Indices |-> Plain(x)]

-----------------------------------------------------------------------------
(* Every operator below takes the memory s and returns the memory after it; *)
(* after a panic nothing changes any more.                                  *)
Ok(s) == s.panic = "none"
Panic(s, why) == [s EXCEPT !.panic = why]
Put(s, f, i, word) == IF Ok(s) THEN [s EXCEPT !.frame[f][i] = word] ELSE s

\* phys_alloc_4KIB: the frame it returns, and the memory after it
page_4KIB(s) == IF s.free_stack # NULL THEN s.free_stack ELSE s.implicit_next
phys_alloc_4KIB(s) ==
    IF ~Ok(s) THEN s
    ELSE IF s.free_stack # NULL
    THEN [s EXCEPT !.free_stack = s.frame[s.free_stack][0].addr]
    ELSE IF s.implicit_next \in Frames
    THEN [s EXCEPT !.implicit_next = @ + 1]
    ELSE Panic(s, "no_memory")

phys_free_4KIB(s, f) ==
    IF Ok(s) THEN [Put(s, f, 0, Plain(s.free_stack)) EXCEPT !.free_stack = f] ELSE s

phys_free_2MIB(s, c) ==
    IF Ok(s) THEN [s EXCEPT !.stack_2MIB = <<c>> \o @, !.chunk[c][0] = Junk] ELSE s

-----------------------------------------------------------------------------
\* virt_map_phys: make sure that entry i of table t leads to a table.  The flags
\* of an entry that is already there stay.
new_table(s, t, i, user) ==
    IF ~Ok(s) \/ s.frame[t][i].present THEN s
    ELSE LET new == page_4KIB(s)
             r == phys_alloc_4KIB(s)
         IN  IF Ok(r) THEN [r EXCEPT !.frame[new] = Filled(NULL),
                                     !.frame[t][i] = Entry(new, FALSE, user)]
             ELSE r

\* virt_map_phys.  Only a page in the way is noticed: a large page replaces a
\* page table without a word.
virt_map_phys(s, root, a, phys, user, large) ==
    LET s4 == new_table(s, root, a[1], user)
        s3 == new_table(s4, s4.frame[root][a[1]].addr, a[2], user)
        pd == s3.frame[s3.frame[root][a[1]].addr][a[2]].addr
        s2 == new_table(s3, pd, a[3], user)
        pt == s2.frame[pd][a[3]].addr
    IN  IF ~Ok(s4) THEN s4
        ELSE IF ~Ok(s3) THEN s3
        ELSE IF s3.frame[pd][a[3]].present /\ s3.frame[pd][a[3]].large
        THEN Panic(s3, "already_mapped")
        ELSE IF large THEN Put(s3, pd, a[3], Entry(phys, TRUE, user))
        ELSE IF ~Ok(s2) THEN s2
        ELSE IF s2.frame[pt][a[4]].present THEN Panic(s2, "already_mapped")
        ELSE Put(s2, pt, a[4], Entry(phys, FALSE, user))

\* virt_map_page.  It returns 0 without a 2MiB chunk, and then its callers panic.
virt_map_page(s, root, m) ==
    IF ~m.large
    THEN LET r == phys_alloc_4KIB(s)
         IN  IF Ok(r) THEN virt_map_phys(r, root, m.at, page_4KIB(s), m.user, FALSE) ELSE r
    ELSE IF s.stack_2MIB = <<>> THEN Panic(s, "map_failed")
    ELSE virt_map_phys([s EXCEPT !.stack_2MIB = Tail(@)], root, m.at,
                       Head(s.stack_2MIB), m.user, TRUE)

\* virt_unmap_page.  Empty tables stay.
virt_unmap_page(s, root, a) ==
    LET pml4e == s.frame[root][a[1]]
        pdpte == s.frame[pml4e.addr][a[2]]
        pdte == s.frame[pdpte.addr][a[3]]
        pte == s.frame[pdte.addr][a[4]]
    IN  IF ~pml4e.present \/ ~pdpte.present \/ ~pdte.present THEN Panic(s, "not_mapped")
        ELSE IF pdte.large
        THEN Put(phys_free_2MIB(s, pdte.addr), pdpte.addr, a[3], Plain(NULL))
        ELSE IF ~pte.present THEN Panic(s, "not_mapped")
        ELSE Put(phys_free_4KIB(s, pte.addr), pdte.addr, a[4], Plain(NULL))

-----------------------------------------------------------------------------
\* The loops over the entries of table t; op(s, i) handles one entry.
Loop(op(_, _), s, from, to) ==
    FoldLeft(op, s, [k \in 1 .. to - from + 1 |-> from + k - 1])

cleanup_page_table(s, t) ==
    phys_free_4KIB(
        Loop(LAMBDA r, i : IF r.frame[t][i].present
                           THEN phys_free_4KIB(r, r.frame[t][i].addr) ELSE r,
             s, 0, NumEntries - 1), t)

\* Mutant: large pages are not freed.
cleanup_page_directory_table_small(s, t) ==
    phys_free_4KIB(
        Loop(LAMBDA r, i :
                 LET e == r.frame[t][i]
                 IN  IF ~e.present \/ e.large THEN r ELSE cleanup_page_table(r, e.addr),
             s, 0, NumEntries - 1), t)

cleanup_page_directory_table(s, t) ==
    phys_free_4KIB(
        Loop(LAMBDA r, i :
                 LET e == r.frame[t][i]
                 IN  IF ~e.present THEN r
                     ELSE IF e.large THEN phys_free_2MIB(r, e.addr)
                     ELSE cleanup_page_table(r, e.addr),
             s, 0, NumEntries - 1), t)

cleanup_page_directory_pointer_table(s, t) ==
    phys_free_4KIB(
        Loop(LAMBDA r, i : IF r.frame[t][i].present
                           THEN cleanup_page_directory_table(r, r.frame[t][i].addr)
                           ELSE r,
             s, 0, NumEntries - 1), t)

\* The lower half of a PML4
cleanup_lower_half(s, t) ==
    Loop(LAMBDA r, i : IF r.frame[t][i].present
                       THEN cleanup_page_directory_pointer_table(r, r.frame[t][i].addr)
                       ELSE r,
         s, 0, NumEntries \div 2 - 1)

\* virt_cleanup_table.  The entries of the lower half stay as they are, except
\* that freeing the PML4 overwrites the first.
virt_cleanup_table(s, t) == phys_free_4KIB(cleanup_lower_half(s, t), t)

\* virt_reset_table
virt_reset_table(s, t) ==
    Loop(LAMBDA r, i : Put(r, t, i, Plain(NULL)),
         cleanup_lower_half(s, t), 0, NumEntries \div 2 - 1)

-----------------------------------------------------------------------------
\* virt_lookup_phys: whether it returns 1, and the frame or chunk and the page
\* in it that out_phys points to.  The offset into a large page is masked like
\* that into a small one, and the last level does not change the result.
Missing == [found |-> FALSE, base |-> NULL, page |-> 0]
virt_lookup_phys(s, root, a) ==
    LET pml4e == s.frame[root][a[1]]
        pdpte == s.frame[pml4e.addr][a[2]]
        pdte == s.frame[pdpte.addr][a[3]]
        pte == s.frame[pdte.addr][a[4]]
    IN  IF ~pml4e.present \/ ~pdpte.present \/ ~pdte.present THEN Missing
        ELSE IF pdte.large THEN [found |-> TRUE, base |-> pdte.addr, page |-> 0]
        ELSE [found |-> TRUE, base |-> IF pte.present THEN pte.addr ELSE NULL, page |-> 0]

-----------------------------------------------------------------------------
\* Mutant: the pages are shared instead of copied.
clone_page_table_shared(s, t) ==
    LET new == page_4KIB(s)
    IN  IF Ok(phys_alloc_4KIB(s))
        THEN [phys_alloc_4KIB(s) EXCEPT !.frame[new] = s.frame[t]]
        ELSE phys_alloc_4KIB(s)

\* clone_page_table: a new table with a copy of each page.  Every allocation in
\* these loops panics when there is no memory.
clone_page_table(s, t) ==
    LET new == page_4KIB(s)
        copy(r, i) ==
            LET e == r.frame[t][i]
                dst == page_4KIB(r)
                q == phys_alloc_4KIB(r)
            IN  IF ~Ok(r) THEN r
                ELSE IF ~e.present THEN Put(r, new, i, Plain(NULL))
                ELSE IF ~Ok(q) THEN q
                ELSE [q EXCEPT !.frame[dst] = r.frame[e.addr],
                               !.frame[new][i] = Entry(dst, FALSE, e.user)]
    IN  Loop(copy, phys_alloc_4KIB(s), 0, NumEntries - 1)

\* Entry e of a table is cloned by op into entry i of the table new.
clone_entry(op(_, _), r, new, i, e) ==
    IF ~Ok(r) THEN r
    ELSE IF ~e.present THEN Put(r, new, i, Plain(NULL))
    ELSE Put(op(r, e.addr), new, i, Entry(page_4KIB(r), FALSE, e.user))

clone_page_directory(s, t) ==
    LET new == page_4KIB(s)
        copy(r, i) ==
            LET e == r.frame[t][i]
            IN  IF ~Ok(r) \/ ~e.present \/ ~e.large
                THEN clone_entry(clone_page_table, r, new, i, e)
                ELSE IF r.stack_2MIB = <<>> THEN Panic(r, "no_memory")
                ELSE LET dst == Head(r.stack_2MIB)
                     IN  [r EXCEPT !.stack_2MIB = Tail(@),
                                   !.chunk[dst] = r.chunk[e.addr],
                                   !.frame[new][i] = Entry(dst, TRUE, e.user)]
    IN  Loop(copy, phys_alloc_4KIB(s), 0, NumEntries - 1)

clone_page_directory_pointer(s, t) ==
    LET new == page_4KIB(s)
        copy(r, i) == clone_entry(clone_page_directory, r, new, i, r.frame[t][i])
    IN  Loop(copy, phys_alloc_4KIB(s), 0, NumEntries - 1)

\* Mutant: the kernel's half is not copied.
virt_clone_mapping_lower(s, other) ==
    LET new == page_4KIB(s)
        r == phys_alloc_4KIB(s)
        lower(q, i) == clone_entry(clone_page_directory_pointer, q, new, i, q.frame[other][i])
    IN  IF ~Ok(r) THEN r
        ELSE Loop(lower, [r EXCEPT !.frame[new] = Filled(NULL)], 0, NumEntries \div 2 - 1)

\* virt_clone_mapping: a copy of the lower half, the entries of the upper
virt_clone_mapping(s, other) ==
    LET new == page_4KIB(s)
        r == phys_alloc_4KIB(s)
        lower(q, i) == clone_entry(clone_page_directory_pointer, q, new, i, q.frame[other][i])
        upper(q, i) == Put(q, new, i, q.frame[other][i])
    IN  IF ~Ok(r) THEN r
        ELSE Loop(upper,
                  Loop(lower, [r EXCEPT !.frame[new] = Filled(NULL)], 0, NumEntries \div 2 - 1),
                  NumEntries \div 2, NumEntries - 1)

-----------------------------------------------------------------------------
\* virt_memory_init: the kernel's table with the screen mapped for processes
BareRam ==
    [frame |-> [f \in Frames |-> Filled(NULL)], free_stack |-> NULL,
     implicit_next |-> 2, stack_2MIB |-> SetToSeq(Chunks),
     chunk |-> [c \in Chunks |-> [i \in Indices |-> Junk]], panic |-> "none"]
virt_memory_init(s) == virt_map_phys(s, kernel_table, ScreenAddr, Screen, TRUE, FALSE)

Init ==
    /\ ram = virt_memory_init(BareRam)
    /\ table = [p \in Procs |-> NULL]
    /\ frees = 0

Live == {p \in Procs : table[p] # NULL}

\* The processor's walk through the tables; a page is accessible to a process
\* if every entry on the way has the user bit.
Walk(s, root, a) ==
    LET pml4e == s.frame[root][a[1]]
        pdpte == s.frame[pml4e.addr][a[2]]
        pdte == s.frame[pdpte.addr][a[3]]
        pte == s.frame[pdte.addr][a[4]]
        user == pml4e.user /\ pdpte.user /\ pdte.user
    IN  IF ~pml4e.present \/ ~pdpte.present \/ ~pdte.present
        THEN Missing @@ [user |-> FALSE]
        ELSE IF pdte.large
        THEN [found |-> TRUE, base |-> pdte.addr, page |-> a[4], user |-> user]
        ELSE IF pte.present
        THEN [found |-> TRUE, base |-> pte.addr, page |-> 0, user |-> user /\ pte.user]
        ELSE Missing @@ [user |-> FALSE]

\* A store into the page a walk or a lookup has found
Store(s, w, x) ==
    IF w.base \in Chunks THEN [s EXCEPT !.chunk[w.base][w.page] = x]
    ELSE IF w.base \in Frames THEN [s EXCEPT !.frame[w.base] = Filled(x)]
    ELSE s

\* Bound
Free == frees < MaxFrees /\ frees' = frees + 1

\* The kernel maps its own memory while it starts, before there is a process.
MapKernel(k) ==
    /\ Ok(ram) /\ Live = {}
    /\ \A j \in 1 .. k - 1 : Walk(ram, kernel_table, KernelMappings[j].at).found
    /\ ~Walk(ram, kernel_table, KernelMappings[k].at).found
    /\ ram' = virt_map_page(ram, kernel_table, KernelMappings[k])
    /\ UNCHANGED <<table, frees>>

\* The process gets the table new, which has been cloned in s.
Adopt(p, new, s) == table' = IF Ok(s) THEN [table EXCEPT ![p] = new] ELSE table

\* create_init_process clones the kernel's table.
CreateInit(p) ==
    /\ Ok(ram) /\ Live = {}
    /\ ram' = virt_clone_mapping(ram, kernel_table)
    /\ Adopt(p, page_4KIB(ram), ram')
    /\ UNCHANGED frees

\* The loader maps a page of a process, or clears the table of one.
Map(p, m) ==
    /\ Ok(ram) /\ p \in Live
    /\ ram' = virt_map_page(ram, table[p], m)
    /\ UNCHANGED <<table, frees>>

Unmap(p, a) ==
    /\ Ok(ram) /\ p \in Live
    /\ Free
    /\ ram' = virt_unmap_page(ram, table[p], a)
    /\ UNCHANGED table

Reset(p) ==
    /\ Ok(ram) /\ p \in Live
    /\ Free
    /\ ram' = virt_reset_table(ram, table[p])
    /\ UNCHANGED table

\* A process writes to a page of its own.
Write(p, a) ==
    /\ Ok(ram) /\ p \in Live
    /\ Walk(ram, table[p], a).user
    /\ ram' = Store(ram, Walk(ram, table[p], a), p)
    /\ UNCHANGED <<table, frees>>

\* fork: clone, then tell both at address a which one they are, the child
\* through the physical address that virt_lookup_phys returns.
Fork(p, child, a) ==
    /\ Ok(ram) /\ p \in Live /\ child \notin Live
    /\ Walk(ram, table[p], a).user
    /\ LET new == page_4KIB(ram)
           cloned == virt_clone_mapping(ram, table[p])
           told == Store(cloned, Walk(cloned, table[p], a), Parent)
           found == virt_lookup_phys(told, new, a)
       IN  /\ ram' = IF ~Ok(cloned) THEN cloned
                     ELSE IF found.found THEN Store(told, found, Child)
                     ELSE Panic(told, "no_parameter")
           /\ Adopt(child, new, cloned)
    /\ UNCHANGED frees

\* exit, and dispatch that finds the process KILLED, call cleanup_pcb.
Exit(p) ==
    /\ Ok(ram) /\ p \in Live
    /\ Free
    /\ ram' = LET once == virt_cleanup_table(ram, table[p])
              IN  IF ExitCleanups = 1 THEN once ELSE virt_cleanup_table(once, table[p])
    /\ table' = [table EXCEPT ![p] = NULL]

Next ==
    \/ \E k \in DOMAIN KernelMappings : MapKernel(k)
    \/ \E p \in Procs :
          \/ CreateInit(p) \/ Reset(p) \/ Exit(p)
          \/ \E m \in UserMappings : Map(p, m) \/ Unmap(p, m.at)
          \/ \E a \in UserAddrs : Write(p, a)
          \/ \E child \in Procs, a \in ParamAddrs : Fork(p, child, a)

Spec == Init /\ [][Next]_vars
-----------------------------------------------------------------------------
\* Every variable has the type of its C declaration.
Words == [present : BOOLEAN, large : BOOLEAN, user : BOOLEAN,
          addr : Frames \cup Chunks \cup Marks \cup {NULL, Screen}]
TypeOK ==
    /\ ram.frame \in [Frames -> [Indices -> Words]]
    /\ ram.free_stack \in Frames \cup {NULL}
    /\ ram.implicit_next \in 2 .. NumFrames + 1
    /\ ram.stack_2MIB \in Seq(Chunks)
    /\ ram.chunk \in [Chunks -> [Indices -> Marks]]
    /\ ram.panic \in {"none", "no_memory", "already_mapped", "not_mapped",
                      "map_failed", "no_parameter"}
    /\ table \in [Procs -> Frames \cup {NULL}]
    /\ frees \in 0 .. MaxFrees

\* The present entries in the slots I of the tables T, as <<table, index>>, and
\* where they lead
Entries(T, I) == {e \in T \X I : ram.frame[e[1]][e[2]].present}
Target(e) == ram.frame[e[1]][e[2]].addr
Targets(E) == {Target(e) : e \in E}

\* The entries that are in use on each level
Level4 == Entries({table[p] : p \in Live}, UserHalf) \cup Entries({kernel_table}, KernelHalf)
Level3 == Entries(Targets(Level4), Indices)
Level2 == Entries(Targets(Level3), Indices)
Level1 == Entries(Targets({e \in Level2 : ~ram.frame[e[1]][e[2]].large}), Indices)
InUse == Level4 \cup Level3 \cup Level2 \cup Level1

\* The first n + 1 frames of the free stack, NULL after its end
FreeList(n) ==
    LET at[k \in 0 .. n] ==
            IF k = 0 THEN ram.free_stack
            ELSE IF at[k - 1] = NULL THEN NULL
            ELSE ram.frame[at[k - 1]][0].addr
    IN  at

\* All memory is accounted for: as long as the kernel runs, a frame or chunk
\* that has been handed out once is one page or one table of one process or of
\* the kernel, or it is free, and never two of these.  There are as many uses as
\* there is memory, and all memory is used.  (Freeing a table that is reached
\* twice, or losing a subtree, breaks this long before it is noticed.)
MemoryAccounted ==
    TypeOK /\ (Ok(ram) =>
        LET used == {e \in InUse : Target(e) # Screen}
            roots == {table[p] : p \in Live} \cup {kernel_table}
            list == FreeList(NumFrames)
            free == {k \in DOMAIN list : list[k] # NULL}
            memory == (1 .. ram.implicit_next - 1) \cup Chunks
        IN  /\ list[NumFrames] = NULL
            /\ Targets(used) \cup roots \cup {list[k] : k \in free}
                   \cup Range(ram.stack_2MIB) = memory
            /\ Cardinality(used) + Cardinality(Live) + 1 + Cardinality(free)
                   + Len(ram.stack_2MIB) = Cardinality(memory))

\* Every process sees the kernel's entries as the kernel's own table has them.
\* (They are copied when the process is made and never again.)
KernelShared ==
    \A p \in Live, i \in KernelHalf :
        ram.frame[table[p]][i] = ram.frame[kernel_table][i]

\* What a walk from root finds at address a
NoPage == [holds |-> "nothing", user |-> FALSE]
Holds(w) ==
    IF w.base \in Chunks THEN ram.chunk[w.base][w.page]
    ELSE IF w.base \notin Frames THEN Junk
    ELSE LET x == ram.frame[w.base][0].addr
         IN  IF x \in Marks /\ ram.frame[w.base] = Filled(x) THEN x ELSE Junk
Found(root, a) ==
    LET w == Walk(ram, root, a)
    IN  IF w.found THEN [holds |-> Holds(w), user |-> w.user] ELSE NoPage

\* The addresses a mapping covers
Span(m) ==
    IF m.large THEN {<<m.at[1], m.at[2], m.at[3], i>> : i \in Indices} ELSE {m.at}

Spaces == INSTANCE AddressSpaces WITH
    Regions <- {Span(m) : m \in UserMappings \cup Range(KernelMappings)},
    Contents <- Marks,
    live <- Live,
    view <- [p \in Procs |-> [a \in UserAddrs |->
                IF p \in Live THEN Found(table[p], a) ELSE NoPage]],
    kernel <- [a \in KernelAddrs |-> Found(kernel_table, a)]

\* The tables implement address spaces: map, unmap, reset and exit change the
\* space they are called for and no other, fork copies every page with its
\* permissions, a write is seen by the writer alone, and a call that runs out
\* of memory half-way changes nobody's space.
Isolation == Spaces!Spec
=============================================================================
