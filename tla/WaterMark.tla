----------------------------- MODULE WaterMark -----------------------------
(***************************************************************************)
(* The watermark allocator (watermark.c): memory for what lives as long as *)
(* the kernel does, given out downwards from a top address and backed with *)
(* large pages as it is reached.  A call is StartAlloc, one MapPage for    *)
(* each round of its loop, and Return.                                     *)
(***************************************************************************)
EXTENDS Integers

CONSTANTS
    location, max_size,     \* what water_mark_init is called with
    PAGE_LARGE_SIZE,
    Sizes, Alignments       \* what the callers ask for

ASSUME WaterMarkAssumption ==
    /\ location \in Nat /\ max_size \in Nat /\ max_size <= location
    /\ PAGE_LARGE_SIZE \in Nat \ {0}
    /\ Sizes \subseteq Nat \ {0} /\ Alignments \subseteq Nat \ {0}

VARIABLES
    page_address, current_address, current_size,    \* the WaterMarkAllocator
    size, alignment,    \* the arguments of the call
    at,                 \* "idle", "mapping" or "panic"
    pages,              \* the pages that have been mapped, by their address
    given               \* every region that was returned

vars == <<page_address, current_address, current_size, size, alignment, at, pages, given>>

Region == [address : Int, size : Nat, alignment : Nat]

\* water_mark_init
Init ==
    /\ page_address = location /\ current_address = location
    /\ current_size = 0
    /\ size = 0 /\ alignment = 1
    /\ at = "idle"
    /\ pages = {} /\ given = {}

-----------------------------------------------------------------------------
\* The ALIGN macro rounds up.
ALIGN(a, n) == a + ((n - (a % n)) % n)

adjusted_size(s, n) == (ALIGN(current_address, n) - current_address) + s

\* What a call adds to current_size
Taken(s, n) == adjusted_size(s, n)

\* water_mark_alloc is the call with alignment 1.
StartAlloc(s, n) ==
    /\ at = "idle"
    /\ size' = s /\ alignment' = n
    /\ IF current_size + Taken(s, n) > max_size
       THEN at' = "panic" /\ UNCHANGED <<current_address, current_size>>
       ELSE /\ current_address' = current_address - adjusted_size(s, n)
            /\ current_size' = current_size + Taken(s, n)
            /\ at' = "mapping"
    /\ UNCHANGED <<page_address, pages, given>>

\* Mutant: the loop stops a page early.
NeedsPage_early == current_address + PAGE_LARGE_SIZE < page_address
NeedsPage == current_address < page_address

\* virt_map_page may find no memory.
MapPage ==
    /\ at = "mapping" /\ NeedsPage
    /\ \/ /\ pages' = pages \cup {page_address - PAGE_LARGE_SIZE}
          /\ page_address' = page_address - PAGE_LARGE_SIZE
          /\ UNCHANGED at
       \/ at' = "panic" /\ UNCHANGED <<pages, page_address>>
    /\ UNCHANGED <<current_address, current_size, size, alignment, given>>

Return ==
    /\ at = "mapping" /\ ~NeedsPage
    /\ given' = given \cup {[address |-> current_address, size |-> size, alignment |-> alignment]}
    /\ at' = "idle"
    /\ UNCHANGED <<page_address, current_address, current_size, size, alignment, pages>>

Next ==
    \/ \E s \in Sizes, n \in Alignments : StartAlloc(s, n)
    \/ MapPage
    \/ Return

Spec == Init /\ [][Next]_vars
-----------------------------------------------------------------------------
Span(r) == r.address .. r.address + r.size - 1
PageSpan(p) == p .. p + PAGE_LARGE_SIZE - 1

\* Every variable has its type, and current_size counts what lies above
\* current_address.
TypeOK ==
    /\ page_address \in Int
    /\ current_address \in Int
    /\ current_size \in Nat /\ current_size = location - current_address
    /\ size \in Nat /\ alignment \in Nat \ {0}
    /\ at \in {"idle", "mapping", "panic"}
    /\ pages \subseteq Int
    /\ given \subseteq Region

\* No byte is given to two callers.  (A caller may get the same address twice
\* only if the second region is the first.)
NoOverlap == \A r, q \in given : r # q => Span(r) \cap Span(q) = {}

\* The regions stay within the space the allocator was given.
WithinSpace ==
    \A r \in given : Span(r) \subseteq location - max_size .. location - 1

\* "This object will also handle all the virtual memory calls needed to make
\* sure the regions of memory it gives out are usable by someone else."
GivenIsMapped ==
    \A r \in given : \A a \in Span(r) : \E p \in pages : a \in PageSpan(p)

\* What is given out can be used by whoever asked for it, and by nobody else.
GivenIsSound == TypeOK /\ NoOverlap /\ WithinSpace /\ GivenIsMapped
=============================================================================
