------------------------------ MODULE PhysAlloc ------------------------------
(***************************************************************************)
(* The physical memory allocator, phys_alloc.c.  Memory is a stack of 2MiB *)
(* chunks.  A chunk that is split holds a Pool header in its page 0 and    *)
(* hands out its other pages; the pools with a page left form a doubly     *)
(* linked list that starts at pool_4KIB.                                   *)
(*                                                                         *)
(* Every function runs with interrupts disabled, so each is one action.    *)
(* The callers free what they were given and nothing else.                 *)
(***************************************************************************)
EXTENDS Naturals, Sequences, FiniteSets, SequencesExt

CONSTANTS
    Chunks,         \* the 2MiB chunks of usable memory
    NumPages,       \* pages a pool can hand out (511 in the code)
    NULL

ASSUME PhysAssumption ==
    /\ IsFiniteSet(Chunks)
    /\ NumPages \in Nat \ {0, 1}
    /\ NULL \notin Chunks

Pages == 1 .. NumPages
max_address == NumPages + 1

VARIABLES
    stack_2MIB,     \* the free chunks, the top of the stack first
    pools,          \* the Pool header in page 0 of each chunk
    pool_4KIB,      \* the first pool of the list, or NULL
    used_2MIB,      \* chunks the callers hold
    used_4KIB,      \* pages the callers hold, as <<chunk, page>>
    panic           \* why the kernel stopped, "none" while it has not

vars == <<stack_2MIB, pools, pool_4KIB, used_2MIB, used_4KIB, panic>>

\* pool_init
EmptyHeader ==
    [free_stack |-> <<>>, implicit_next |-> 1, next |-> NULL, prev |-> NULL,
     on_list |-> FALSE]

\* setup_physical_allocator pushes every chunk.  What page 0 of a chunk holds
\* before pool_init is never read.
Init ==
    /\ stack_2MIB = SetToSeq(Chunks)
    /\ pools = [c \in Chunks |-> EmptyHeader]
    /\ pool_4KIB = NULL
    /\ used_2MIB = {}
    /\ used_4KIB = {}
    /\ panic = "none"

-----------------------------------------------------------------------------
\* phys_alloc_2MIB.  Without a chunk it returns NULL, and nothing changes.
phys_alloc_2MIB ==
    /\ panic = "none"
    /\ stack_2MIB # <<>>
    /\ used_2MIB' = used_2MIB \cup {Head(stack_2MIB)}
    /\ stack_2MIB' = Tail(stack_2MIB)
    /\ UNCHANGED <<pools, pool_4KIB, used_4KIB, panic>>

\* phys_free_2MIB
phys_free_2MIB(c) ==
    /\ panic = "none"
    /\ c \in used_2MIB
    /\ stack_2MIB' = <<c>> \o stack_2MIB
    /\ used_2MIB' = used_2MIB \ {c}
    /\ UNCHANGED <<pools, pool_4KIB, used_4KIB, panic>>

pool_empty(pool) ==
    pool.free_stack = <<>> /\ pool.implicit_next >= max_address

pool_full(pool) == Len(pool.free_stack) = NumPages

\* pool_alloc: the page, and the header after it has been taken
pool_page(pool) ==
    IF pool.free_stack # <<>> THEN Head(pool.free_stack) ELSE pool.implicit_next

\* Mutant: the page returned is not popped.
pool_alloc_no_pop(pool) ==
    IF pool.free_stack # <<>> THEN pool ELSE [pool EXCEPT !.implicit_next = @ + 1]

pool_alloc(pool) ==
    IF pool.free_stack # <<>>
    THEN [pool EXCEPT !.free_stack = Tail(@)]
    ELSE [pool EXCEPT !.implicit_next = @ + 1]

\* pool_free
pool_free(pool, page) == [pool EXCEPT !.free_stack = <<page>> \o @]

\* Mutant: the rest of the list is dropped with the emptied pool.
unlink_emptied_drops(c, pool) ==
    /\ pools' = [pools EXCEPT ![c] = [pool EXCEPT !.on_list = FALSE,
                                          !.next = NULL, !.prev = NULL]]
    /\ pool_4KIB' = NULL

\* The head of the list has given away its last page: it leaves the list.  The
\* next pool keeps its prev pointer.
unlink_emptied(c, pool) ==
    /\ pools' = [pools EXCEPT ![c] = [pool EXCEPT !.on_list = FALSE,
                                          !.next = NULL, !.prev = NULL]]
    /\ pool_4KIB' = pool.next

\* phys_alloc_4KIB.  Without a pool it splits a chunk, and asserts that there
\* is one.
phys_alloc_4KIB ==
    /\ panic = "none"
    /\ IF pool_4KIB = NULL /\ stack_2MIB = <<>>
       THEN panic' = "no_chunk" /\ UNCHANGED <<stack_2MIB, pools, pool_4KIB, used_4KIB>>
       ELSE LET c == IF pool_4KIB = NULL THEN Head(stack_2MIB) ELSE pool_4KIB
                pool == IF pool_4KIB = NULL
                        THEN [EmptyHeader EXCEPT !.on_list = TRUE]
                        ELSE pools[c]
            IN  /\ stack_2MIB' = IF pool_4KIB = NULL THEN Tail(stack_2MIB)
                                 ELSE stack_2MIB
                /\ IF pool_empty(pool)
                   THEN panic' = "empty_pool" /\ UNCHANGED <<pools, pool_4KIB, used_4KIB>>
                   ELSE /\ used_4KIB' = used_4KIB \cup {<<c, pool_page(pool)>>}
                        /\ UNCHANGED panic
                        /\ IF pool_empty(pool_alloc(pool))
                           THEN unlink_emptied(c, pool_alloc(pool))
                           ELSE /\ pools' = [pools EXCEPT ![c] = pool_alloc(pool)]
                                /\ pool_4KIB' = c
    /\ UNCHANGED used_2MIB

\* Mutant: a pool in the middle of the list is unlinked from one side only.
unlink_halfway(ps, c) ==
    IF c = pool_4KIB
    THEN [d \in Chunks |->
            IF d = ps[c].next THEN [ps[d] EXCEPT !.prev = NULL] ELSE ps[d]]
    ELSE [d \in Chunks |->
            IF d = ps[c].next THEN [ps[d] EXCEPT !.prev = ps[c].prev] ELSE ps[d]]

\* Take pool c out of the list, given the headers ps.
unlink(ps, c) ==
    IF c = pool_4KIB
    THEN [d \in Chunks |->
            IF d = ps[c].next THEN [ps[d] EXCEPT !.prev = NULL] ELSE ps[d]]
    ELSE [d \in Chunks |->
            IF d = ps[c].next THEN [ps[d] EXCEPT !.prev = ps[c].prev]
            ELSE IF d = ps[c].prev THEN [ps[d] EXCEPT !.next = ps[c].next]
            ELSE ps[d]]

\* Every page of the pool is free again: it leaves the list, its header is
\* reset, and phys_free_2MIB is called.  It is given a virtual address and adds
\* KERNEL_BASE to it once more, so stack_push writes to an address that is not
\* canonical: the CPU faults before the chunk is on the stack.
release(ps, c) ==
    /\ IF Len(ps[c].free_stack) = NumPages /\ ps[c].implicit_next < max_address
       THEN panic' = "pool_assert" /\ pools' = ps /\ UNCHANGED pool_4KIB
       ELSE /\ panic' = "bad_address"
            /\ pools' = [unlink(ps, c) EXCEPT ![c] = EmptyHeader]
            /\ pool_4KIB' = IF c = pool_4KIB THEN ps[c].next ELSE pool_4KIB

\* A pool that had no page left goes to the head of the list.
relink(ps, c) ==
    /\ pools' = [ps EXCEPT ![pool_4KIB].prev = c,
                           ![c].next = pool_4KIB,
                           ![c].prev = NULL,
                           ![c].on_list = TRUE]
    /\ pool_4KIB' = c
    /\ UNCHANGED panic

\* phys_free_4KIB.  The pool is found by masking the address.  When no pool has
\* a page left the kernel panics, after it has pushed the page.
phys_free_4KIB(c, page) ==
    /\ panic = "none"
    /\ <<c, page>> \in used_4KIB
    /\ used_4KIB' = used_4KIB \ {<<c, page>>}
    /\ LET ps == [pools EXCEPT ![c] = pool_free(@, page)]
       IN  IF pool_4KIB = NULL
           THEN panic' = "bad_free" /\ pools' = ps /\ UNCHANGED pool_4KIB
           ELSE IF ps[c].on_list /\ pool_full(ps[c]) THEN release(ps, c)
           ELSE IF ~ps[c].on_list THEN relink(ps, c)
           ELSE pools' = ps /\ UNCHANGED <<pool_4KIB, panic>>
    /\ UNCHANGED <<stack_2MIB, used_2MIB>>

Next ==
    \/ phys_alloc_2MIB
    \/ \E c \in Chunks : phys_free_2MIB(c)
    \/ phys_alloc_4KIB
    \/ \E c \in Chunks, page \in Pages : phys_free_4KIB(c, page)

Spec == Init /\ [][Next]_vars

-----------------------------------------------------------------------------
Headers ==
    [free_stack : Seq(Pages), implicit_next : 1 .. max_address,
     next : Chunks \cup {NULL}, prev : Chunks \cup {NULL}, on_list : BOOLEAN]

\* Every variable has the type of its C declaration.
TypeOK ==
    /\ stack_2MIB \in Seq(Chunks)
    /\ pools \in [Chunks -> Headers]
    /\ pool_4KIB \in Chunks \cup {NULL}
    /\ used_2MIB \subseteq Chunks
    /\ used_4KIB \subseteq Chunks \X Pages
    /\ panic \in {"none", "no_chunk", "empty_pool", "pool_assert", "bad_free",
                  "bad_address"}

\* The chunks that have been split into pages
Split == Chunks \ (used_2MIB \cup Range(stack_2MIB))

\* The pages of a split chunk that are free: pushed back, or never handed out
FreePages(c) ==
    Range(pools[c].free_stack) \cup {i \in Pages : i >= pools[c].implicit_next}

UsedPages(c) == {i \in Pages : <<c, i>> \in used_4KIB}

\* No memory is held twice.  A chunk is free, held or split, never two of these,
\* a page is held only of a split chunk, and no free page of one is held or on
\* its stack twice, so no allocation returns memory somebody has.
NoDoubleUse ==
    /\ IsInjective(stack_2MIB)
    /\ used_2MIB \cap Range(stack_2MIB) = {}
    /\ \A u \in used_4KIB : u[1] \in Split
    /\ \A c \in Split :
          /\ FreePages(c) \cap UsedPages(c) = {}
          /\ IsInjective(pools[c].free_stack)
          /\ \A i \in Range(pools[c].free_stack) : i < pools[c].implicit_next

\* No page is forgotten: what callers do not hold of a split chunk can be handed
\* out, and the chunk is on the list unless it has no such page.  (The list is
\* entered and left in four places.)
NoPageLost ==
    panic = "none" =>
        \A c \in Split :
            /\ FreePages(c) \cup UsedPages(c) = Pages
            /\ pools[c].on_list <=> FreePages(c) # {}

\* Each byte of memory is with the allocator or with one caller.
PagesAccounted == TypeOK /\ NoDoubleUse /\ NoPageLost

\* The pools reached from pool_4KIB by at most n next pointers
Reached(n) ==
    LET after[i \in 0 .. n] ==
            IF i = 0 THEN {pool_4KIB} \ {NULL}
            ELSE after[i - 1] \cup ({pools[c].next : c \in after[i - 1]} \ {NULL})
    IN  after[n]

\* The list holds exactly the pools marked on_list, and prev is the inverse of
\* next, so that unlinking from the middle finds both neighbours.
\* (phys_alloc_4KIB leaves the prev pointer of the new head alone.)
ListIntact ==
    /\ Reached(Cardinality(Chunks)) = {c \in Split : pools[c].on_list}
    /\ \A c \in Split : pools[c].next # NULL =>
          pools[c].next \in Split /\ pools[pools[c].next].prev = c

\* The kernel runs out of memory only when there is none: no chunk is free and
\* every page of every split chunk is held.
OutOfMemoryIsReal ==
    panic = "no_chunk" => \A c \in Chunks \ used_2MIB : UsedPages(c) = Pages

\* pool_alloc is never called for an empty pool, and a pool is full only after
\* all its pages have been handed out once.
AssertionsHold == panic \notin {"empty_pool", "pool_assert"}

\* The kernel stops in an allocation only when memory is out.
PanicJustified == OutOfMemoryIsReal /\ AssertionsHold

\* The panic "phys_free_4KIB bad free" means a bad free.
BadFreeIsBad == panic # "bad_free"
=============================================================================
