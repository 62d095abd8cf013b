------------------------------ MODULE ElfLoader ------------------------------
(***************************************************************************)
(* elf_create_process (elf.c) replaces the pages of a process by the       *)
(* program in an ELF file.  The page table is what Paging makes of it: a   *)
(* set of pages, small or large, and the bytes in them.  One action is one *)
(* page or one step of the loop over the program headers.                  *)
(*                                                                         *)
(* Sizes are scaled down; the byte at offset o of the file is the number   *)
(* o.  An address has 64 bits and sums of them wrap; the page tables look  *)
(* at 48 of them, half for the process and half for the kernel.            *)
(***************************************************************************)
EXTENDS Integers, Sequences, FiniteSets

CONSTANTS
    Files,          \* [header : "ok" or an error, entry, segments : Seq(Segment)]
    OldBytes,       \* the addresses the process had mapped before
    PAGE_SMALL_SIZE, PAGE_LARGE_SIZE,
    ADDRESSES,      \* how many addresses 64 bits make (2^64)
    USER_END,       \* how many of them the page tables give a process (2^47)
    KernelPages,    \* the pages of the kernel, in the half of the tables all share
    StackBase,      \* USER_STACK_LOCATION - USER_STACK_SIZE
    StackPages,     \* pages of the user stack (4)
    ContextBase,    \* CONTEXT_STACK_LOCATION
    Memory,         \* how many small pages there are to map
    LargeMemory,    \* and how many large ones
    Junk            \* what a page holds that nobody has written

Segment == [load : BOOLEAN, offset : Nat, vaddr : 0 .. ADDRESSES - 1,
            filesz : Nat, memsz : 0 .. ADDRESSES - 1]

\* The addresses the page tables tell apart, and the first of the kernel's
TRANSLATED == 2 * USER_END
KERNEL_BASE == ADDRESSES - USER_END

\* The pages of the stack and the context are apart, and the process's own.  The
\* errors of a header are of their own; a segment has no more bytes in the file
\* than in memory, as the format requires.
ASSUME ElfAssumption ==
    /\ PAGE_SMALL_SIZE \in Nat \ {0}
    /\ PAGE_LARGE_SIZE \in Nat /\ PAGE_LARGE_SIZE > PAGE_SMALL_SIZE
    /\ PAGE_LARGE_SIZE % PAGE_SMALL_SIZE = 0
    /\ USER_END \in Nat \ {0} /\ USER_END % PAGE_LARGE_SIZE = 0
    /\ ADDRESSES \in Nat /\ ADDRESSES >= TRANSLATED /\ ADDRESSES % TRANSLATED = 0
    /\ KernelPages \subseteq [base : USER_END .. TRANSLATED - 1,
                              size : {PAGE_SMALL_SIZE, PAGE_LARGE_SIZE}]
    /\ \A q \in KernelPages : q.base % q.size = 0
    /\ {StackBase, ContextBase, StackPages, Memory, LargeMemory} \subseteq Nat
    /\ StackBase % PAGE_SMALL_SIZE = 0 /\ ContextBase % PAGE_SMALL_SIZE = 0
    /\ StackBase + StackPages * PAGE_SMALL_SIZE <= USER_END /\ ContextBase < USER_END
    /\ ContextBase \notin StackBase .. StackBase + StackPages * PAGE_SMALL_SIZE - 1
    /\ OldBytes \subseteq 0 .. USER_END - 1
    /\ \A f \in Files :
           /\ f.header \notin {"none", "NO_ERROR", "BAD_VADDR"}
           /\ f.segments \in Seq(Segment)
           /\ \A n \in DOMAIN f.segments : f.segments[n].filesz <= f.segments[n].memsz

VARIABLES
    file,           \* the file given to the loader
    at,             \* "start", "headers", "pages", "stack", "done" or "panic"
    seg,            \* the program header the loop is at
    left,           \* pages of it still to load
    vaddr, load_offset, amount_left,    \* the variables of the inner loop
    pages,          \* the pages mapped for the process: [base, size]
    byte,           \* the contents of the mapped addresses
    result          \* what the loader returned

loader_vars == <<file, at, seg, left, vaddr, load_offset, amount_left, pages, byte, result>>

Base(a, size) == a - (a % size)
Span(p) == p.base .. p.base + p.size - 1
Mapped == UNION {Span(p) : p \in pages}
Count(size) == Cardinality({p \in pages : p.size = size})

LoaderBegin ==
    /\ at = "start"
    /\ seg = 1 /\ left = 0 /\ vaddr = 0 /\ load_offset = 0 /\ amount_left = 0
    /\ pages = {[base |-> Base(a, PAGE_SMALL_SIZE), size |-> PAGE_SMALL_SIZE] : a \in OldBytes}
    /\ byte = [a \in Mapped |-> Junk]
    /\ result = "none"

LoaderInit == file \in Files /\ LoaderBegin

-----------------------------------------------------------------------------
\* What the page tables make of an address
Translated(a) == a % TRANSLATED

\* The pages that make virt_map_phys panic, and those it replaces (see Paging)
InTheWay(p) == {q \in pages \cup KernelPages : p.base \in Span(q) /\ q.size >= p.size}
Replaced(p) == {q \in pages : q.size < p.size /\ q.base \in Span(p)}
Exhausted(size) ==
    Count(size) >= IF size = PAGE_LARGE_SIZE THEN LargeMemory ELSE Memory

\* virt_map_page for the page of size size at address a, which then holds h, and
\* where the loader goes next.  It panics, or its caller does, when there is no
\* memory.
virt_map_page(a, size, h, next) ==
    LET p == [base |-> Base(Translated(a), size), size |-> size]
        kept == pages \ Replaced(p)
    IN  IF InTheWay(p) # {} \/ Exhausted(size)
        THEN at' = "panic" /\ UNCHANGED <<pages, byte>>
        ELSE /\ at' = next
             /\ pages' = kept \cup {p}
             /\ byte' = [b \in Span(p) \cup UNION {Span(q) : q \in kept} |->
                            IF b \in Span(p) THEN h[b - p.base] ELSE byte[b]]

Return(r) == at' = "done" /\ result' = r

\* Mutant: the page table is reset before the header is checked.
CheckHeader_late ==
    /\ at = "start"
    /\ pages' = {} /\ byte' = <<>>
    /\ IF file.header # "ok" THEN Return(file.header)
       ELSE at' = (IF file.entry = 0 THEN "panic" ELSE "headers") /\ UNCHANGED result
    /\ UNCHANGED <<file, seg, left, vaddr, load_offset, amount_left>>

\* The checks of the file header, then virt_reset_table
CheckHeader ==
    /\ at = "start"
    /\ \/ file.header # "ok" /\ Return(file.header) /\ UNCHANGED <<pages, byte>>
       \/ /\ file.header = "ok" /\ file.entry = 0
          /\ at' = "panic" /\ UNCHANGED <<pages, byte, result>>
       \/ /\ file.header = "ok" /\ file.entry # 0
          /\ at' = "headers" /\ pages' = {} /\ byte' = <<>> /\ UNCHANGED result
    /\ UNCHANGED <<file, seg, left, vaddr, load_offset, amount_left>>

page_size(s) == IF s.memsz >= PAGE_LARGE_SIZE THEN PAGE_LARGE_SIZE ELSE PAGE_SMALL_SIZE

num_pages(s) == s.memsz \div page_size(s) + 1

\* The sum of two uint64_t
BadVaddr(s) == (s.vaddr + s.memsz) % ADDRESSES >= KERNEL_BASE

\* One round of the loop over the program headers
NextHeader ==
    /\ at = "headers"
    /\ IF seg > Len(file.segments)
       THEN /\ at' = "stack" /\ left' = StackPages /\ vaddr' = StackBase
            /\ UNCHANGED <<seg, load_offset, amount_left, result>>
       ELSE LET s == file.segments[seg]
            IN  /\ seg' = seg + 1
                /\ IF ~s.load
                   THEN UNCHANGED <<at, left, vaddr, load_offset, amount_left, result>>
                   ELSE IF BadVaddr(s)
                   THEN /\ Return("BAD_VADDR")
                        /\ UNCHANGED <<left, vaddr, load_offset, amount_left>>
                   ELSE /\ at' = "pages"
                        /\ left' = num_pages(s)
                        /\ vaddr' = s.vaddr
                        /\ load_offset' = s.offset
                        /\ amount_left' = s.filesz
                        /\ UNCHANGED result
    /\ UNCHANGED <<file, pages, byte>>

LessOf(a, b) == IF a < b THEN a ELSE b

\* Mutant: the rest of a page is not cleared.
Loaded_dirty(size, copied) ==
    [i \in 0 .. size - 1 |-> IF i < copied THEN load_offset + i ELSE Junk]

\* The page after memcpy and memclr.  The copy starts at the start of the page.
Loaded(size, copied) ==
    [i \in 0 .. size - 1 |-> IF i < copied THEN load_offset + i ELSE 0]

\* Map one page of the segment and fill it.  The address advances by what was
\* copied.
LoadPage ==
    /\ at = "pages" /\ left > 0
    /\ LET size == page_size(file.segments[seg - 1])
           copy_amount == LessOf(size, amount_left)
       IN  /\ virt_map_page(vaddr, size, Loaded(size, copy_amount),
                            IF left = 1 THEN "headers" ELSE "pages")
           /\ vaddr' = (vaddr + copy_amount) % ADDRESSES
           /\ load_offset' = load_offset + copy_amount
           /\ amount_left' = amount_left - copy_amount
           /\ left' = left - 1
    /\ UNCHANGED <<file, seg, result>>

\* The pages of the stack, then the page of the context, whose mapping is not
\* checked.
MapStack ==
    /\ at = "stack"
    /\ \/ /\ left > 0
          /\ virt_map_page(vaddr, PAGE_SMALL_SIZE,
                 [i \in 0 .. PAGE_SMALL_SIZE - 1 |-> 0], "stack")
          /\ left' = left - 1
          /\ vaddr' = vaddr + PAGE_SMALL_SIZE
          /\ UNCHANGED result
       \/ /\ left = 0
          /\ virt_map_page(ContextBase, PAGE_SMALL_SIZE,
                 [i \in 0 .. PAGE_SMALL_SIZE - 1 |-> Junk], "done")
          /\ result' = IF at' = "done" THEN "NO_ERROR" ELSE result
          /\ UNCHANGED <<left, vaddr>>
    /\ UNCHANGED <<file, seg, load_offset, amount_left>>

LoaderNext == CheckHeader \/ NextHeader \/ LoadPage \/ MapStack

LoaderSpec == LoaderInit /\ [][LoaderNext]_loader_vars
-----------------------------------------------------------------------------
\* Every variable has the type of its C declaration; bytes are in mapped pages.
LoaderTypeOK ==
    /\ at \in {"start", "headers", "pages", "stack", "done", "panic"}
    /\ {seg, left, load_offset, amount_left} \subseteq Nat /\ vaddr \in 0 .. ADDRESSES - 1
    /\ \A p \in pages : p.size \in {PAGE_SMALL_SIZE, PAGE_LARGE_SIZE} /\ p.base % p.size = 0
    /\ DOMAIN byte = Mapped
    /\ \A a \in Mapped : byte[a] \in Nat \cup {Junk}

Loads(f) == {n \in DOMAIN f.segments : f.segments[n].load}

\* A segment that ends below the gap of addresses the processor does not know, or
\* that is the kernel's from its first byte to its last
Canonical(s) ==
    /\ s.vaddr + s.memsz < ADDRESSES
    /\ s.vaddr + s.memsz < USER_END \/ s.vaddr >= KERNEL_BASE

\* The loader maps nothing in the kernel's part of the page table, as long as the
\* segments are canonical.  (One that starts in the kernel's part and whose end
\* wraps at 2^64 is let through by elf.c:93, and so is one that ends in the gap:
\* both are mapped in the kernel's part.)
UserOnly ==
    (\A n \in Loads(file) : Canonical(file.segments[n])) =>
        \A p \in pages : p.base + p.size <= USER_END

\* A file that is refused for its header has not cost the process its pages.
\* (A segment that is refused has.)
HeaderErrorsHarmless ==
    result \notin {"none", "NO_ERROR", "BAD_VADDR"} => OldBytes \subseteq Mapped

\* The pages the loader maps: for a segment as many as it may touch, and one more
\* if it also ends at a page; those of the stack and the context.
FirstPages(s, n) == {[base |-> Base(s.vaddr, page_size(s)) + k * page_size(s),
                      size |-> page_size(s)] : k \in 0 .. n - 1}
OwnPages == {[base |-> StackBase + k * PAGE_SMALL_SIZE, size |-> PAGE_SMALL_SIZE] :
                k \in 0 .. StackPages - 1}
                \cup {[base |-> ContextBase, size |-> PAGE_SMALL_SIZE]}
PagesOf(f, n) ==
    IF n = 0 THEN OwnPages ELSE FirstPages(f.segments[n], num_pages(f.segments[n]))

\* All of them are apart, the process's own and within the memory there is.
Fits(f) ==
    LET needs == Loads(f) \cup {0}
        all == UNION {PagesOf(f, n) : n \in needs}
    IN  /\ f.header = "ok" /\ f.entry # 0
        /\ \A n, m \in needs : n # m =>
              \A p \in PagesOf(f, n), q \in PagesOf(f, m) : Span(p) \cap Span(q) = {}
        /\ \A n \in Loads(f) : f.segments[n].vaddr + f.segments[n].memsz < USER_END
        /\ Cardinality({p \in all : p.size = PAGE_SMALL_SIZE}) <= Memory
        /\ Cardinality({p \in all : p.size = PAGE_LARGE_SIZE}) <= LargeMemory

\* The segments start at a page, as the linker script has them, are canonical and
\* in ascending order, as the format requires.
AsLinked(f) ==
    \A n \in Loads(f) : LET s == f.segments[n] IN
        /\ Canonical(s)
        /\ s.vaddr % page_size(s) = 0
        /\ \A m \in Loads(f) : n < m => s.vaddr + s.memsz <= f.segments[m].vaddr

\* A program that was loaded is in memory as its file says: the bytes of the
\* file, then zeros up to the segment's size in memory.  (The copy, the clearing
\* and the advance of three variables page by page have to agree, and a large
\* page must not replace what was loaded before.)
ImageLoaded ==
    result = "NO_ERROR" /\ AsLinked(file) =>
        \A n \in Loads(file) : LET s == file.segments[n] IN
            \A i \in 0 .. s.memsz - 1 :
                /\ s.vaddr + i \in Mapped
                /\ byte[s.vaddr + i] = IF i < s.filesz THEN s.offset + i ELSE 0

\* The file holds all but the last page of each segment.
FileBacked(f) ==
    \A n \in Loads(f) : LET s == f.segments[n]
                        IN  s.filesz >= (s.memsz \div page_size(s)) * page_size(s)

\* A program with room for one page behind each segment, and no zeros but in the
\* last page of one, is loaded.  (Then the copied amounts keep the address in
\* step with the pages.)
BackedProgramsLoad ==
    Fits(file) /\ FileBacked(file) => at # "panic" /\ result # "BAD_VADDR"

\* A program the loader can place is in memory as its file says, and only there;
\* one with canonical segments never reaches into the kernel's part.
ProgramsLoaded == LoaderTypeOK /\ ImageLoaded /\ UserOnly /\ BackedProgramsLoad
=============================================================================
