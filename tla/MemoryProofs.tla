---------------------------- MODULE MemoryProofs ----------------------------
(***************************************************************************)
(* No page of physical memory is used twice or lost, and the list of pools *)
(* is what its links say, for every number of chunks and pages.  A program *)
(* the ELF loader says is loaded is in memory as its file has it, for      *)
(* every file and size of page.  What is handed out at boot is what the    *)
(* BIOS reports without the kernel and the page tables, for every map.     *)
(***************************************************************************)
EXTENDS PhysAlloc, ElfLoader, MemoryMap, FiniteSetTheorems, SequenceTheorems, WellFoundedInduction, TLAPS

\* The free pages of a pool with header h
Free(h) == Range(h.free_stack) \cup {i \in Pages : i >= h.implicit_next}

\* The pages of a pool are free or used, never both, and none is on the stack
\* twice or before it has been handed out once.
PoolOK(h, used) ==
    /\ h \in Headers /\ used \subseteq Pages
    /\ IsInjective(h.free_stack)
    /\ \A i \in Range(h.free_stack) : i < h.implicit_next
    /\ Free(h) = Pages \ used

\* The sequence s is a list of the pools in S that are marked on_list: next leads
\* from one to the next and prev back.  (What the prev of the head holds is never
\* used.)
ListOf(ps, first, S, s) ==
    /\ s \in Seq(Chunks) /\ IsInjective(s)
    /\ Range(s) = {c \in S : ps[c].on_list}
    /\ first = IF s = <<>> THEN NULL ELSE s[1]
    /\ \A i \in 1 .. Len(s) : ps[s[i]].next = IF i < Len(s) THEN s[i + 1] ELSE NULL
    /\ \A i \in 2 .. Len(s) : ps[s[i]].prev = s[i - 1]

ChunkInv ==
    /\ IsInjective(stack_2MIB)
    /\ used_2MIB \cap Range(stack_2MIB) = {}
    /\ \A u \in used_4KIB : u[1] \in Split

PoolInv == \A c \in Split : PoolOK(pools[c], UsedPages(c))

\* While the kernel runs, a pool is on the list if it has a free page.
ListedInv == panic = "none" => \A c \in Split : pools[c].on_list <=> Free(pools[c]) # {}

ListInv ==
    /\ \E s : ListOf(pools, pool_4KIB, Split, s)
    /\ \A c \in Split : ~pools[c].on_list => pools[c].next = NULL

IInv ==
    /\ TypeOK /\ ChunkInv /\ PoolInv /\ ListedInv /\ ListInv
    /\ PanicJustified

-----------------------------------------------------------------------------
(* Stacks *)

\* What is popped leaves the stack, once.
LEMMA Popped ==
    ASSUME NEW S, NEW s \in Seq(S), s # <<>>, IsInjective(s)
    PROVE  /\ Head(s) \in Range(s) /\ Head(s) \in S
           /\ Tail(s) \in Seq(S) /\ IsInjective(Tail(s))
           /\ Range(Tail(s)) = Range(s) \ {Head(s)}
<1>1. /\ Head(s) = s[1] /\ Len(s) \in Nat \ {0} /\ DOMAIN s = 1 .. Len(s)
      /\ s[1] \in S
  BY EmptySeq, LenProperties, ElementOfSeq
<1>2. /\ Tail(s) \in Seq(S) /\ Len(Tail(s)) = Len(s) - 1
      /\ DOMAIN Tail(s) = 1 .. Len(s) - 1
      /\ \A i \in 1 .. Len(s) - 1 : Tail(s)[i] = s[i + 1]
  BY HeadTailProperties, LenProperties
<1>3. IsInjective(Tail(s))
  BY <1>1, <1>2 DEF IsInjective
<1>4. Range(Tail(s)) \subseteq Range(s) \ {Head(s)}
  BY <1>1, <1>2 DEF IsInjective, Range
<1>5. ASSUME NEW x \in Range(s) \ {Head(s)} PROVE x \in Range(Tail(s))
  <2>1. PICK i \in 1 .. Len(s) : x = s[i]
    BY <1>1 DEF Range
  <2>2. i # 1 /\ i - 1 \in 1 .. Len(s) - 1 /\ Tail(s)[i - 1] = s[i]
    BY <1>1, <1>2, <1>5, <2>1
  <2> QED
    BY <1>2, <2>1, <2>2 DEF Range
<1>6. Range(Tail(s)) = Range(s) \ {Head(s)}
  BY <1>4, <1>5
<1>7. Head(s) \in Range(s)
  BY <1>1 DEF Range
<1> QED
  BY <1>1, <1>2, <1>3, <1>6, <1>7

\* What is pushed is on the stack.
LEMMA Pushed ==
    ASSUME NEW S, NEW s \in Seq(S), NEW x \in S
    PROVE  /\ <<x>> \o s \in Seq(S) /\ <<x>> \o s # <<>>
           /\ Len(<<x>> \o s) = Len(s) + 1
           /\ (<<x>> \o s)[1] = x
           /\ \A i \in 1 .. Len(s) : (<<x>> \o s)[i + 1] = s[i]
           /\ Range(<<x>> \o s) = {x} \cup Range(s)
           /\ IsInjective(s) /\ x \notin Range(s) => IsInjective(<<x>> \o s)
<1> DEFINE t == <<x>> \o s
<1>1. /\ t \in Seq(S) /\ Len(t) = Len(s) + 1
      /\ \A i \in 1 .. Len(s) + 1 : t[i] = IF i <= 1 THEN x ELSE s[i - 1]
  <2>1. <<x>> \in Seq(S) /\ Len(<<x>>) = 1 /\ <<x>>[1] = x
    OBVIOUS
  <2> QED
    BY <2>1, ConcatProperties
<1>2. Len(s) \in Nat /\ DOMAIN s = 1 .. Len(s) /\ DOMAIN t = 1 .. Len(s) + 1
  BY <1>1, LenProperties
<1> HIDE DEF t
<1>3. t # <<>> /\ t[1] = x /\ \A i \in 1 .. Len(s) : t[i + 1] = s[i]
  BY <1>1, <1>2, EmptySeq
<1>4. \A j \in 1 .. Len(s) + 1 : j = 1 \/ (j - 1 \in 1 .. Len(s) /\ t[j] = s[j - 1])
  BY <1>1, <1>2
<1>5. Range(t) = {x} \cup Range(s)
  <2>1. ASSUME NEW y \in Range(t) PROVE y \in {x} \cup Range(s)
    <3>1. PICK j \in 1 .. Len(s) + 1 : y = t[j]
      BY <1>2 DEF Range
    <3>2. CASE j = 1
      BY <1>3, <3>1, <3>2
    <3>3. CASE j # 1
      <4>1. j - 1 \in DOMAIN s /\ y = s[j - 1]
        BY <1>2, <1>4, <3>1, <3>3
      <4> QED
        BY <4>1 DEF Range
    <3> QED
      BY <3>2, <3>3
  <2>2. {x} \cup Range(s) \subseteq Range(t)
    BY <1>2, <1>3 DEF Range
  <2> QED
    BY <2>1, <2>2
<1>6. ASSUME IsInjective(s), x \notin Range(s) PROVE IsInjective(t)
  <2> SUFFICES ASSUME NEW i \in 1 .. Len(s) + 1, NEW j \in 1 .. Len(s) + 1, t[i] = t[j]
               PROVE  i = j
    BY <1>2 DEF IsInjective
  <2>1. \A k \in 1 .. Len(s) : s[k] # x
    BY <1>2, <1>6 DEF Range
  <2>2. \A k, l \in 1 .. Len(s) : s[k] = s[l] => k = l
    BY <1>2, <1>6 DEF IsInjective
  <2> QED
    BY <1>2, <1>3, <1>4, <2>1, <2>2
<1> QED
  BY <1>1, <1>3, <1>5, <1>6 DEF t

-----------------------------------------------------------------------------
(* Pools *)

\* pool_empty says whether there is no free page.
LEMMA PoolEmpty ==
    ASSUME NEW h \in Headers
    PROVE  pool_empty(h) <=> Free(h) = {}
<1> USE PhysAssumption
<1>1. h.free_stack \in Seq(Pages) /\ h.implicit_next \in 1 .. NumPages + 1
  BY DEF Headers, max_address
<1>2. h.free_stack = <<>> <=> Range(h.free_stack) = {}
  <2>1. /\ DOMAIN h.free_stack = 1 .. Len(h.free_stack) /\ Len(h.free_stack) \in Nat
        /\ h.free_stack = <<>> <=> Len(h.free_stack) = 0
    BY <1>1, EmptySeq, LenProperties
  <2>2. Len(h.free_stack) # 0 => h.free_stack[1] \in Range(h.free_stack)
    BY <2>1 DEF Range
  <2>3. Len(h.free_stack) = 0 => Range(h.free_stack) = {}
    BY <2>1 DEF Range
  <2> QED
    BY <2>1, <2>2, <2>3
<1>3. h.implicit_next >= max_address <=> {i \in Pages : i >= h.implicit_next} = {}
  <2>1. CASE h.implicit_next >= max_address
    BY <1>1, <2>1 DEF max_address, Pages
  <2>2. CASE ~(h.implicit_next >= max_address)
    <3>1. h.implicit_next \in Pages /\ h.implicit_next >= h.implicit_next
      BY <1>1, <2>2 DEF max_address, Pages
    <3> QED
      BY <2>2, <3>1
  <2> QED
    BY <2>1, <2>2
<1> QED
  BY <1>2, <1>3 DEF pool_empty, Free

\* pool_init leaves a pool of free pages.
LEMMA PoolInit ==
    ASSUME NEW b \in BOOLEAN
    PROVE  LET h == [EmptyHeader EXCEPT !.on_list = b]
           IN  /\ PoolOK(h, {}) /\ ~pool_empty(h) /\ ~pool_empty(pool_alloc(h))
               /\ h.next = NULL /\ h.prev = NULL /\ h.on_list = b
<1> USE PhysAssumption
<1> DEFINE h == [EmptyHeader EXCEPT !.on_list = b]
<1>1. h = [free_stack |-> <<>>, implicit_next |-> 1, next |-> NULL, prev |-> NULL,
           on_list |-> b]
  BY DEF EmptyHeader
<1> HIDE DEF h
<1>2. h \in Headers
  BY <1>1, EmptySeq DEF Headers, max_address
<1>3. Range(h.free_stack) = {} /\ IsInjective(h.free_stack)
  BY <1>1 DEF Range, IsInjective
<1>4. Free(h) = Pages
  BY <1>1, <1>3 DEF Free, Pages
<1>5. ~pool_empty(h) /\ ~pool_empty(pool_alloc(h))
  BY <1>1 DEF pool_empty, pool_alloc, max_address
<1> QED
  BY <1>1, <1>2, <1>3, <1>4, <1>5 DEF PoolOK, h

LEMMA PoolReset ==
    PoolOK(EmptyHeader, {}) /\ EmptyHeader.on_list = FALSE /\ EmptyHeader.next = NULL
<1> PICK b \in BOOLEAN : b = FALSE
  OBVIOUS
<1> DEFINE h == [EmptyHeader EXCEPT !.on_list = b]
<1>1. h = [free_stack |-> <<>>, implicit_next |-> 1, next |-> NULL, prev |-> NULL,
           on_list |-> b]
  BY DEF EmptyHeader
<1>2. PoolOK(h, {}) /\ h.on_list = b /\ h.next = NULL
  BY PoolInit
<1> HIDE DEF h
<1>3. h = EmptyHeader
  BY <1>1 DEF EmptyHeader
<1> QED
  BY <1>2, <1>3

\* pool_alloc takes a free page, and leaves the links of the pool alone.
LEMMA PoolAlloc ==
    ASSUME NEW h, NEW used, PoolOK(h, used), ~pool_empty(h)
    PROVE  /\ pool_page(h) \in Pages \ used
           /\ PoolOK(pool_alloc(h), used \cup {pool_page(h)})
           /\ pool_alloc(h).next = h.next /\ pool_alloc(h).prev = h.prev
           /\ pool_alloc(h).on_list = h.on_list
<1> USE PhysAssumption
<1>1. /\ h \in Headers /\ used \subseteq Pages /\ IsInjective(h.free_stack)
      /\ \A i \in Range(h.free_stack) : i < h.implicit_next
      /\ Free(h) = Pages \ used
  BY DEF PoolOK
<1>2. /\ h.free_stack \in Seq(Pages) /\ h.implicit_next \in 1 .. NumPages + 1
      /\ h = [free_stack |-> h.free_stack, implicit_next |-> h.implicit_next,
              next |-> h.next, prev |-> h.prev, on_list |-> h.on_list]
      /\ h.next \in Chunks \cup {NULL} /\ h.prev \in Chunks \cup {NULL}
      /\ h.on_list \in BOOLEAN
  BY <1>1 DEF Headers, max_address
<1> DEFINE g == pool_alloc(h)
           p == pool_page(h)
<1>3. CASE h.free_stack # <<>>
  <2>1. /\ Head(h.free_stack) \in Range(h.free_stack) /\ Head(h.free_stack) \in Pages
        /\ Tail(h.free_stack) \in Seq(Pages) /\ IsInjective(Tail(h.free_stack))
        /\ Range(Tail(h.free_stack)) = Range(h.free_stack) \ {Head(h.free_stack)}
    BY <1>1, <1>2, <1>3, Popped
  <2>2. /\ p = Head(h.free_stack)
        /\ g = [free_stack |-> Tail(h.free_stack), implicit_next |-> h.implicit_next,
                next |-> h.next, prev |-> h.prev, on_list |-> h.on_list]
    BY <1>2, <1>3 DEF pool_page, pool_alloc
  <2> HIDE DEF g, p
  <2>3. g \in Headers
    BY <1>2, <2>1, <2>2 DEF Headers, max_address
  <2>4. p < h.implicit_next /\ p \in Free(h)
    BY <1>1, <2>1, <2>2 DEF Free
  <2>5. Free(g) = Free(h) \ {p}
    BY <1>2, <2>1, <2>2, <2>4 DEF Free, Pages
  <2>6. /\ IsInjective(g.free_stack)
        /\ \A i \in Range(g.free_stack) : i < g.implicit_next
    BY <1>1, <2>1, <2>2
  <2>7. Free(g) = Pages \ (used \cup {p}) /\ p \in Pages \ used
    BY <1>1, <2>4, <2>5
  <2>8. PoolOK(g, used \cup {p})
    BY <1>1, <2>3, <2>6, <2>7 DEF PoolOK
  <2>9. g.next = h.next /\ g.prev = h.prev /\ g.on_list = h.on_list
    BY <2>2
  <2> QED
    BY <2>7, <2>8, <2>9 DEF g, p
<1>4. CASE h.free_stack = <<>>
  <2>1. /\ p = h.implicit_next
        /\ g = [free_stack |-> h.free_stack, implicit_next |-> h.implicit_next + 1,
                next |-> h.next, prev |-> h.prev, on_list |-> h.on_list]
    BY <1>2, <1>4 DEF pool_page, pool_alloc
  <2> HIDE DEF g, p
  <2>2. h.implicit_next \in Pages
    BY <1>2, <1>4 DEF pool_empty, max_address, Pages
  <2>3. g \in Headers
    BY <1>2, <2>1, <2>2 DEF Headers, max_address, Pages
  <2>4. p \in Free(h)
    BY <2>1, <2>2 DEF Free, Pages
  <2>5. Range(h.free_stack) = {}
    BY <1>4 DEF Range
  <2>6. Free(g) = Free(h) \ {p}
    BY <1>2, <2>1, <2>2, <2>5 DEF Free, Pages
  <2>7. /\ IsInjective(g.free_stack)
        /\ \A i \in Range(g.free_stack) : i < g.implicit_next
    BY <1>1, <2>1, <2>5
  <2>8. Free(g) = Pages \ (used \cup {p}) /\ p \in Pages \ used
    BY <1>1, <2>4, <2>6
  <2>9. PoolOK(g, used \cup {p})
    BY <1>1, <2>3, <2>7, <2>8 DEF PoolOK
  <2>10. g.next = h.next /\ g.prev = h.prev /\ g.on_list = h.on_list
    BY <2>1
  <2> QED
    BY <2>8, <2>9, <2>10 DEF g, p
<1> QED
  BY <1>3, <1>4

\* pool_free makes the page free again, and leaves the links of the pool alone.
LEMMA PoolFree ==
    ASSUME NEW h, NEW used, PoolOK(h, used), NEW p \in used
    PROVE  /\ PoolOK(pool_free(h, p), used \ {p})
           /\ Free(pool_free(h, p)) # {}
           /\ pool_free(h, p).next = h.next /\ pool_free(h, p).prev = h.prev
           /\ pool_free(h, p).on_list = h.on_list
<1> USE PhysAssumption
<1>1. /\ h \in Headers /\ used \subseteq Pages /\ IsInjective(h.free_stack)
      /\ \A i \in Range(h.free_stack) : i < h.implicit_next
      /\ Free(h) = Pages \ used /\ p \in Pages
  BY DEF PoolOK
<1>2. /\ h.free_stack \in Seq(Pages) /\ h.implicit_next \in 1 .. NumPages + 1
      /\ h = [free_stack |-> h.free_stack, implicit_next |-> h.implicit_next,
              next |-> h.next, prev |-> h.prev, on_list |-> h.on_list]
      /\ h.next \in Chunks \cup {NULL} /\ h.prev \in Chunks \cup {NULL}
      /\ h.on_list \in BOOLEAN
  BY <1>1 DEF Headers, max_address
<1>3. p \notin Range(h.free_stack) /\ p < h.implicit_next
  <2>1. p \notin Free(h)
    BY <1>1
  <2> QED
    BY <1>1, <1>2, <2>1 DEF Free, Pages
<1> DEFINE g == pool_free(h, p)
           t == <<p>> \o h.free_stack
<1>4. /\ t \in Seq(Pages) /\ IsInjective(t) /\ Range(t) = {p} \cup Range(h.free_stack)
  BY <1>1, <1>2, <1>3, Pushed
<1>5. g = [free_stack |-> t, implicit_next |-> h.implicit_next,
           next |-> h.next, prev |-> h.prev, on_list |-> h.on_list]
  <2>1. g = [h EXCEPT !.free_stack = t]
    BY DEF pool_free
  <2> HIDE DEF g, t
  <2> QED
    BY <1>2, <2>1
<1> HIDE DEF g, t
<1>6. g \in Headers
  BY <1>2, <1>4, <1>5 DEF Headers, max_address
<1>7. Free(g) = Free(h) \cup {p}
  BY <1>1, <1>4, <1>5 DEF Free
<1>8. \A i \in Range(g.free_stack) : i < g.implicit_next
  BY <1>1, <1>3, <1>4, <1>5
<1>9. Free(g) = Pages \ (used \ {p})
  BY <1>1, <1>7
<1>10. PoolOK(g, used \ {p})
  BY <1>1, <1>4, <1>5, <1>6, <1>8, <1>9 DEF PoolOK
<1>11. g.next = h.next /\ g.prev = h.prev /\ g.on_list = h.on_list
  BY <1>5
<1>12. Free(g) # {}
  BY <1>7
<1> QED
  BY <1>10, <1>11, <1>12 DEF g

\* A pool is full when all its pages have been handed out once and none is held.
LEMMA PoolFull ==
    ASSUME NEW h, NEW used, PoolOK(h, used), pool_full(h)
    PROVE  h.implicit_next = max_address /\ used = {} /\ Range(h.free_stack) = Pages
<1> USE PhysAssumption
<1>1. /\ h \in Headers /\ used \subseteq Pages /\ IsInjective(h.free_stack)
      /\ \A i \in Range(h.free_stack) : i < h.implicit_next
      /\ Free(h) = Pages \ used /\ Len(h.free_stack) = NumPages
  BY DEF PoolOK, pool_full
<1> DEFINE s == h.free_stack
           n == h.implicit_next
<1>2. s \in Seq(Pages) /\ n \in 1 .. NumPages + 1 /\ DOMAIN s = 1 .. NumPages
  BY <1>1, LenProperties DEF Headers, max_address
<1>3. \A i \in 1 .. NumPages : s[i] \in Pages /\ s[i] \in Range(s) /\ s[i] < n
  BY <1>1, <1>2, ElementOfSeq DEF Range
<1>4. \A i, j \in 1 .. NumPages : s[i] = s[j] => i = j
  BY <1>1, <1>2 DEF IsInjective
<1> HIDE DEF s, n
<1>5. NumPages \in Nat /\ Pages = 1 .. NumPages
  BY DEF Pages
<1>6. IsFiniteSet(1 .. NumPages) /\ Cardinality(1 .. NumPages) = NumPages
  BY <1>5, FS_Interval
<1>7. IsFiniteSet(1 .. n - 1) /\ Cardinality(1 .. n - 1) = n - 1
  <2> DEFINE m == n - 1
  <2>1. m \in Nat /\ 1 \in Int /\ m \in Int
    BY <1>2, <1>5
  <2> HIDE DEF m
  <2>2. IsFiniteSet(1 .. m) /\ Cardinality(1 .. m) = IF 1 > m THEN 0 ELSE m - 1 + 1
    BY <2>1, FS_Interval, Zenon
  <2>3. IsFiniteSet(1 .. m) /\ Cardinality(1 .. m) = m
    BY <2>1, <2>2
  <2> QED
    BY <2>3 DEF m
<1>8. s \in [1 .. NumPages -> 1 .. n - 1] /\ s \in [1 .. NumPages -> Pages]
  BY <1>2, <1>3, <1>5, SeqDef
<1>9. s \in Injection(1 .. NumPages, 1 .. n - 1) /\ s \in Injection(1 .. NumPages, Pages)
  BY <1>4, <1>8 DEF Injection, IsInjective
<1>10. n = max_address
  <2>1. Cardinality(1 .. NumPages) <= Cardinality(1 .. n - 1)
    BY <1>7, <1>9, FS_Injection, Zenon
  <2>2. NumPages <= n - 1
    BY <1>6, <1>7, <2>1
  <2> QED
    BY <1>2, <1>5, <2>2 DEF max_address
<1>11. Range(s) = Pages
  <2>1. s \in Surjection(1 .. NumPages, Pages)
    BY <1>5, <1>6, <1>9, FS_Injection, Zenon
  <2> QED
    BY <1>2, <1>3, <2>1 DEF Surjection, Range
<1>12. used = {}
  BY <1>1, <1>11 DEF Free, s
<1> QED
  BY <1>10, <1>11, <1>12 DEF s, n

-----------------------------------------------------------------------------
(* The list of pools *)

\* The facts about a list that its changes need
LEMMA ListFacts ==
    ASSUME NEW ps, NEW first, NEW S, NEW s, ListOf(ps, first, S, s)
    PROVE  /\ s \in Seq(Chunks) /\ Len(s) \in Nat /\ DOMAIN s = 1 .. Len(s)
           /\ (s = <<>> <=> Len(s) = 0) /\ (s = <<>> <=> first = NULL)
           /\ \A i \in 1 .. Len(s) : s[i] \in Chunks /\ s[i] \in S /\ ps[s[i]].on_list
           /\ \A c \in S : ps[c].on_list => \E i \in 1 .. Len(s) : c = s[i]
           /\ \A i, j \in 1 .. Len(s) : s[i] = s[j] => i = j
<1>1. /\ s \in Seq(Chunks) /\ IsInjective(s) /\ Range(s) = {c \in S : ps[c].on_list}
      /\ first = IF s = <<>> THEN NULL ELSE s[1]
  BY DEF ListOf
<1>2. Len(s) \in Nat /\ DOMAIN s = 1 .. Len(s) /\ (s = <<>> <=> Len(s) = 0)
  BY <1>1, LenProperties, EmptySeq
<1>3. \A i \in 1 .. Len(s) : s[i] \in Chunks
  BY <1>1, ElementOfSeq
<1>4. \A i \in 1 .. Len(s) : s[i] \in Range(s)
  BY <1>2 DEF Range
<1>5. \A c \in Range(s) : \E i \in 1 .. Len(s) : c = s[i]
  BY <1>2 DEF Range
<1>6. \A i, j \in 1 .. Len(s) : s[i] = s[j] => i = j
  BY <1>1, <1>2 DEF IsInjective
<1>7. s = <<>> <=> first = NULL
  BY <1>1, <1>2, <1>3, PhysAssumption
<1> QED
  BY <1>1, <1>2, <1>3, <1>4, <1>5, <1>6, <1>7

\* A change that leaves the links and the marks alone leaves the list alone.
LEMMA ListSame ==
    ASSUME NEW ps, NEW qs, NEW first, NEW S, NEW T, NEW s, ListOf(ps, first, S, s),
           {c \in S : ps[c].on_list} = {c \in T : qs[c].on_list},
           \A c \in S : ps[c].on_list =>
              qs[c].next = ps[c].next /\ qs[c].prev = ps[c].prev
    PROVE  ListOf(qs, first, T, s)
<1>1. Len(s) \in Nat /\ \A i \in 1 .. Len(s) : s[i] \in S /\ ps[s[i]].on_list
  BY ListFacts
<1>2. \A i \in 1 .. Len(s) : qs[s[i]].next = ps[s[i]].next /\ qs[s[i]].prev = ps[s[i]].prev
  BY <1>1
<1>3. \A i \in 2 .. Len(s) : i \in 1 .. Len(s)
  BY <1>1
<1> QED
  BY <1>2, <1>3 DEF ListOf

\* A list without its head is a list.
LEMMA ListDropHead ==
    ASSUME NEW ps, NEW qs, NEW first, NEW S, NEW s, ListOf(ps, first, S, s),
           first # NULL, ~qs[first].on_list,
           \A c \in S \ {first} : qs[c] = ps[c]
    PROVE  ListOf(qs, ps[first].next, S, Tail(s))
<1>1. /\ s \in Seq(Chunks) /\ Len(s) \in Nat \ {0} /\ s # <<>> /\ DOMAIN s = 1 .. Len(s)
      /\ \A i \in 1 .. Len(s) : s[i] \in Chunks /\ s[i] \in S /\ ps[s[i]].on_list
      /\ \A i, j \in 1 .. Len(s) : s[i] = s[j] => i = j
  BY ListFacts
<1>2. /\ IsInjective(s) /\ Range(s) = {c \in S : ps[c].on_list} /\ first = s[1]
      /\ \A i \in 1 .. Len(s) : ps[s[i]].next = IF i < Len(s) THEN s[i + 1] ELSE NULL
      /\ \A i \in 2 .. Len(s) : ps[s[i]].prev = s[i - 1]
  BY <1>1 DEF ListOf
<1> DEFINE t == Tail(s)
<1>3. /\ t \in Seq(Chunks) /\ IsInjective(t) /\ Range(t) = Range(s) \ {first}
  BY <1>1, <1>2, Popped, HeadTailProperties
<1>4. /\ Len(t) = Len(s) - 1 /\ \A i \in 1 .. Len(t) : t[i] = s[i + 1] /\ i + 1 \in 2 .. Len(s)
      /\ t = <<>> <=> Len(t) = 0
  BY <1>1, <1>3, HeadTailProperties, EmptySeq
<1> HIDE DEF t
<1>5. Range(t) = {c \in S : qs[c].on_list}
  BY <1>2, <1>3
<1>6. ps[first].next = IF t = <<>> THEN NULL ELSE t[1]
  BY <1>1, <1>2, <1>4
<1>7. \A i \in 1 .. Len(t) : t[i] \in S \ {first} /\ qs[t[i]] = ps[t[i]]
  BY <1>1, <1>2, <1>4
<1>8. ASSUME NEW i \in 1 .. Len(t)
      PROVE  qs[t[i]].next = IF i < Len(t) THEN t[i + 1] ELSE NULL
  <2>1. t[i] = s[i + 1] /\ i + 1 \in 1 .. Len(s) /\ (i < Len(t) <=> i + 1 < Len(s))
    BY <1>1, <1>4
  <2>2. qs[t[i]].next = IF i + 1 < Len(s) THEN s[i + 1 + 1] ELSE NULL
    BY <1>2, <1>7, <2>1
  <2>3. i < Len(t) => t[i + 1] = s[i + 1 + 1]
    BY <1>1, <1>4
  <2> QED
    BY <2>1, <2>2, <2>3
<1>9. ASSUME NEW i \in 2 .. Len(t)
      PROVE  qs[t[i]].prev = t[i - 1]
  <2>1. i \in 1 .. Len(t) /\ t[i] = s[i + 1] /\ i + 1 \in 2 .. Len(s)
    BY <1>1, <1>4
  <2>2. qs[t[i]].prev = s[i + 1 - 1]
    BY <1>2, <1>7, <2>1
  <2>3. i - 1 \in 1 .. Len(t) /\ t[i - 1] = s[i - 1 + 1] /\ i + 1 - 1 = i - 1 + 1
    BY <1>1, <1>4
  <2> QED
    BY <2>2, <2>3
<1> QED
  BY <1>3, <1>5, <1>6, <1>8, <1>9 DEF ListOf, t

\* A pool that is not on the list goes to its head.
LEMMA ListPush ==
    ASSUME NEW ps, NEW qs, NEW first, NEW S, NEW s, ListOf(ps, first, S, s),
           first # NULL, NEW c \in S, c \in Chunks, ~ps[c].on_list,
           qs[c].on_list, qs[c].next = first,
           qs[first].prev = c, qs[first].next = ps[first].next,
           \A d \in S \ {c} : qs[d].on_list = ps[d].on_list,
           \A d \in S \ {c, first} : qs[d].next = ps[d].next /\ qs[d].prev = ps[d].prev
    PROVE  ListOf(qs, c, S, <<c>> \o s)
<1>1. /\ s \in Seq(Chunks) /\ Len(s) \in Nat \ {0} /\ s # <<>> /\ DOMAIN s = 1 .. Len(s)
      /\ \A i \in 1 .. Len(s) : s[i] \in Chunks /\ s[i] \in S /\ ps[s[i]].on_list
      /\ \A i, j \in 1 .. Len(s) : s[i] = s[j] => i = j
  BY ListFacts
<1>2. /\ IsInjective(s) /\ Range(s) = {d \in S : ps[d].on_list} /\ first = s[1]
      /\ \A i \in 1 .. Len(s) : ps[s[i]].next = IF i < Len(s) THEN s[i + 1] ELSE NULL
      /\ \A i \in 2 .. Len(s) : ps[s[i]].prev = s[i - 1]
  BY <1>1 DEF ListOf
<1> DEFINE t == <<c>> \o s
<1>3. /\ t \in Seq(Chunks) /\ t # <<>> /\ Len(t) = Len(s) + 1 /\ t[1] = c
      /\ \A i \in 1 .. Len(s) : t[i + 1] = s[i]
      /\ Range(t) = {c} \cup Range(s) /\ IsInjective(t)
  BY <1>1, <1>2, Pushed
<1> HIDE DEF t
<1>4. Range(t) = {d \in S : qs[d].on_list}
  BY <1>2, <1>3
<1>5. \A j \in 2 .. Len(t) : j - 1 \in 1 .. Len(s) /\ t[j] = s[j - 1]
  BY <1>1, <1>3
<1>6. \A i \in 1 .. Len(s) : s[i] # c /\ (i # 1 => s[i] # first)
  BY <1>1, <1>2
<1>7. \A i \in 1 .. Len(s) : qs[s[i]].next = ps[s[i]].next
  BY <1>1, <1>2, <1>6
<1>8. \A i \in 2 .. Len(s) : qs[s[i]].prev = ps[s[i]].prev
  BY <1>1, <1>2, <1>6
<1>9. ASSUME NEW i \in 1 .. Len(t)
      PROVE  qs[t[i]].next = IF i < Len(t) THEN t[i + 1] ELSE NULL
  <2>1. CASE i = 1
    BY <1>1, <1>2, <1>3, <2>1
  <2>2. CASE i # 1
    BY <1>1, <1>2, <1>3, <1>5, <1>7, <2>2
  <2> QED
    BY <2>1, <2>2
<1>10. ASSUME NEW i \in 2 .. Len(t)
       PROVE  qs[t[i]].prev = t[i - 1]
  <2>1. CASE i = 2
    BY <1>1, <1>2, <1>3, <1>5, <2>1
  <2>2. CASE i # 2
    <3>1. i - 1 \in 2 .. Len(s) /\ t[i] = s[i - 1]
      BY <1>1, <1>3, <1>5, <2>2
    <3>2. qs[t[i]].prev = s[i - 1 - 1]
      BY <1>2, <1>8, <3>1
    <3>3. i - 1 \in 2 .. Len(t) /\ t[i - 1] = s[i - 1 - 1]
      BY <1>1, <1>3, <1>5, <2>2
    <3> QED
      BY <3>2, <3>3
  <2> QED
    BY <2>1, <2>2
<1> QED
  BY <1>3, <1>4, <1>9, <1>10 DEF ListOf, t

\* A pool is taken out of the list when its neighbours are linked to each other.
LEMMA ListRemove ==
    ASSUME NEW ps, NEW qs, NEW first, NEW S, NEW s, ListOf(ps, first, S, s),
           NEW c \in S, ps[c].on_list, ~qs[c].on_list,
           \A d \in S \ {c} :
              /\ qs[d].on_list = ps[d].on_list
              /\ qs[d].next = IF c # first /\ d # ps[c].next /\ d = ps[c].prev
                              THEN ps[c].next ELSE ps[d].next
              /\ qs[d].prev = IF d = ps[c].next
                              THEN IF c = first THEN NULL ELSE ps[c].prev
                              ELSE ps[d].prev
    PROVE  \E t : ListOf(qs, IF c = first THEN ps[c].next ELSE first, S, t)
<1>1. /\ s \in Seq(Chunks) /\ Len(s) \in Nat /\ DOMAIN s = 1 .. Len(s)
      /\ \A i \in 1 .. Len(s) : s[i] \in Chunks /\ s[i] \in S /\ ps[s[i]].on_list
      /\ \A i, j \in 1 .. Len(s) : s[i] = s[j] => i = j
      /\ \A d \in S : ps[d].on_list => \E i \in 1 .. Len(s) : d = s[i]
      /\ s = <<>> <=> Len(s) = 0
  BY ListFacts
<1>2. PICK k \in 1 .. Len(s) : c = s[k]
  BY <1>1
<1>3. /\ Range(s) = {d \in S : ps[d].on_list} /\ first = s[1]
      /\ \A i \in 1 .. Len(s) : ps[s[i]].next = IF i < Len(s) THEN s[i + 1] ELSE NULL
      /\ \A i \in 2 .. Len(s) : ps[s[i]].prev = s[i - 1]
  BY <1>1, <1>2 DEF ListOf
<1> DEFINE n == Len(s)
           t == [i \in 1 .. n - 1 |-> IF i < k THEN s[i] ELSE s[i + 1]]
<1>4. n \in Nat \ {0} /\ n - 1 \in Nat /\ k \in 1 .. n
  BY <1>1, <1>2
<1>5. /\ \A i \in 1 .. n - 1 : i < k => i \in 1 .. n /\ t[i] = s[i]
      /\ \A i \in 1 .. n - 1 : i >= k => i + 1 \in 1 .. n /\ t[i] = s[i + 1]
      /\ DOMAIN t = 1 .. n - 1
  BY <1>4
<1>6. t \in Seq(Chunks) /\ Len(t) = n - 1 /\ (t = <<>> <=> n = 1)
  <2>1. \A i \in 1 .. n - 1 : t[i] \in Chunks
    BY <1>1, <1>4, <1>5
  <2>2. t \in [1 .. n - 1 -> Chunks]
    BY <1>5, <2>1
  <2>3. \A m \in Nat : \A f \in [1 .. m -> Chunks] : f \in Seq(Chunks)
    BY SeqDef
  <2>4. t \in Seq(Chunks)
    BY <1>4, <2>2, <2>3, Zenon
  <2>5. Len(t) = n - 1
    BY <1>4, <1>5, <2>4, LenProperties
  <2>6. t = <<>> <=> Len(t) = 0
    BY <2>4, EmptySeq
  <2> QED
    BY <1>4, <2>4, <2>5, <2>6
<1> HIDE DEF t
<1>7. (c = first <=> k = 1) /\ ps[c].next = (IF k < n THEN s[k + 1] ELSE NULL)
      /\ (k # 1 => ps[c].prev = s[k - 1])
  BY <1>1, <1>2, <1>3, <1>4
<1>8. NULL \notin Chunks
  BY PhysAssumption
<1> HIDE DEF n
<1>9. IsInjective(t)
  <2>1. \A i \in 1 .. n - 1 : i < k \/ i >= k
    BY <1>4
  <2> SUFFICES ASSUME NEW i \in 1 .. n - 1, NEW j \in 1 .. n - 1, t[i] = t[j]
               PROVE  i = j
    BY <1>5 DEF IsInjective
  <2>2. CASE i < k /\ j < k
    BY <1>1, <1>4, <1>5, <2>2 DEF n
  <2>3. CASE i < k /\ j >= k
    BY <1>1, <1>4, <1>5, <2>3 DEF n
  <2>4. CASE i >= k /\ j < k
    BY <1>1, <1>4, <1>5, <2>4 DEF n
  <2>5. CASE i >= k /\ j >= k
    BY <1>1, <1>4, <1>5, <2>5 DEF n
  <2> QED
    BY <2>1, <2>2, <2>3, <2>4, <2>5
<1>10. \A i \in 1 .. n - 1 : t[i] \in S \ {c} /\ ps[t[i]].on_list
  BY <1>1, <1>2, <1>4, <1>5 DEF n
<1>11. Range(t) = {d \in S : qs[d].on_list}
  <2>1. Range(t) \subseteq {d \in S : qs[d].on_list}
    BY <1>5, <1>10 DEF Range
  <2>2. ASSUME NEW d \in S, qs[d].on_list PROVE d \in Range(t)
    <3>1. PICK i \in 1 .. n : d = s[i]
      BY <1>1, <2>2 DEF n
    <3>2. i # k
      BY <1>2, <2>2, <3>1
    <3>3. CASE i < k
      <4>1. i \in 1 .. n - 1 /\ t[i] = d
        BY <1>4, <1>5, <3>1, <3>3
      <4> QED
        BY <1>5, <4>1 DEF Range
    <3>4. CASE i > k
      <4>1. i - 1 \in 1 .. n - 1 /\ t[i - 1] = d
        BY <1>4, <1>5, <3>1, <3>4
      <4> QED
        BY <1>5, <4>1 DEF Range
    <3> QED
      BY <1>4, <3>2, <3>3, <3>4
  <2> QED
    BY <2>1, <2>2
<1>12. (IF c = first THEN ps[c].next ELSE first) = IF t = <<>> THEN NULL ELSE t[1]
  <2>1. CASE k = 1
    BY <1>4, <1>5, <1>6, <1>7, <2>1
  <2>2. CASE k # 1
    BY <1>3, <1>4, <1>5, <1>6, <1>7, <2>2
  <2> QED
    BY <2>1, <2>2
<1>13. ASSUME NEW i \in 1 .. n - 1
       PROVE  qs[t[i]].next = IF i < n - 1 THEN t[i + 1] ELSE NULL
  <2>1. t[i] \in S \ {c}
    BY <1>10
  <2>2. CASE i < k - 1
    <3>1. t[i] = s[i] /\ t[i + 1] = s[i + 1] /\ i \in 1 .. n /\ i < n - 1
      BY <1>4, <1>5, <2>2
    <3>2. ps[t[i]].next = s[i + 1]
      BY <1>3, <1>4, <3>1 DEF n
    <3>3. k # 1 => t[i] # ps[c].prev
      BY <1>1, <1>4, <1>7, <2>2, <3>1 DEF n
    <3> QED
      BY <1>7, <2>1, <3>1, <3>2, <3>3
  <2>3. CASE i = k - 1
    <3>1. t[i] = s[k - 1] /\ (i < n - 1 => t[i + 1] = s[k + 1]) /\ k # 1
          /\ (i < n - 1 <=> k < n)
      BY <1>4, <1>5, <2>3
    <3>2. t[i] = ps[c].prev /\ c # first
      BY <1>7, <3>1
    <3>3. t[i] # ps[c].next
      <4>1. CASE k < n
        BY <1>1, <1>4, <1>7, <2>3, <3>1, <4>1 DEF n
      <4>2. CASE ~(k < n)
        BY <1>1, <1>4, <1>7, <1>8, <2>3, <3>1, <4>2 DEF n
      <4> QED
        BY <4>1, <4>2
    <3>4. qs[t[i]].next = ps[c].next
      BY <2>1, <3>2, <3>3
    <3> QED
      BY <1>7, <3>1, <3>4
  <2>4. CASE i >= k
    <3>1. t[i] = s[i + 1] /\ i + 1 \in 1 .. n /\ (i < n - 1 => t[i + 1] = s[i + 1 + 1])
          /\ (i < n - 1 <=> i + 1 < n)
      BY <1>4, <1>5, <2>4
    <3>2. ps[t[i]].next = IF i + 1 < n THEN s[i + 1 + 1] ELSE NULL
      BY <1>3, <1>4, <3>1 DEF n
    <3>3. k # 1 => t[i] # ps[c].prev
      BY <1>1, <1>4, <1>7, <2>4, <3>1 DEF n
    <3> QED
      BY <1>7, <2>1, <3>1, <3>2, <3>3
  <2> QED
    BY <1>4, <2>2, <2>3, <2>4
<1>14. ASSUME NEW i \in 2 .. n - 1
       PROVE  qs[t[i]].prev = t[i - 1]
  <2>1. t[i] \in S \ {c} /\ i \in 1 .. n - 1
    BY <1>4, <1>10
  <2>2. CASE i < k
    <3>1. t[i] = s[i] /\ t[i - 1] = s[i - 1] /\ i \in 2 .. n
      BY <1>4, <1>5, <2>1, <2>2
    <3>2. t[i] # ps[c].next
      <4>1. CASE k < n
        BY <1>1, <1>4, <1>7, <2>2, <3>1, <4>1 DEF n
      <4>2. CASE ~(k < n)
        BY <1>1, <1>4, <1>7, <1>8, <2>2, <3>1, <4>2 DEF n
      <4> QED
        BY <4>1, <4>2
    <3> QED
      BY <1>3, <1>4, <2>1, <3>1, <3>2 DEF n
  <2>3. CASE i = k
    <3>1. t[i] = s[k + 1] /\ t[i - 1] = s[k - 1] /\ k < n /\ k # 1
      BY <1>4, <1>5, <2>1, <2>3
    <3> QED
      BY <1>7, <2>1, <3>1
  <2>4. CASE i > k
    <3>1. t[i] = s[i + 1] /\ i + 1 \in 2 .. n /\ t[i - 1] = s[i] /\ i + 1 - 1 = i /\ k < n
      BY <1>4, <1>5, <2>1, <2>4
    <3>2. t[i] # ps[c].next
      BY <1>1, <1>4, <1>7, <2>4, <3>1 DEF n
    <3>3. ps[t[i]].prev = s[i]
      BY <1>3, <3>1 DEF n
    <3> QED
      BY <2>1, <3>1, <3>2, <3>3
  <2> QED
    BY <1>4, <2>2, <2>3, <2>4
<1>15. ListOf(qs, IF c = first THEN ps[c].next ELSE first, S, t)
  BY <1>6, <1>9, <1>11, <1>12, <1>13, <1>14 DEF ListOf
<1> QED
  BY <1>15

-----------------------------------------------------------------------------
(* The invariant is inductive *)

\* The links of a pool say nothing of its pages.
LEMMA Relinked ==
    ASSUME NEW h, NEW used, PoolOK(h, used), NEW g \in Headers,
           g.free_stack = h.free_stack, g.implicit_next = h.implicit_next
    PROVE  PoolOK(g, used) /\ Free(g) = Free(h)
<1>1. Free(g) = Free(h)
  BY DEF Free
<1> QED
  BY <1>1 DEF PoolOK

\* Memory starts as a stack of all the chunks.
LEMMA InitIInv == Init => IInv
<1> SUFFICES ASSUME Init PROVE IInv
  OBVIOUS
<1> USE PhysAssumption
<1> DEFINE n == Cardinality(Chunks)
<1>1. n \in Nat /\ \E f : f \in Bijection(1 .. n, Chunks)
  BY FS_CardinalityType, Zenon DEF ExistsBijection
<1>2. \E f : f \in [1 .. n -> Chunks] /\ IsInjective(f)
  BY <1>1 DEF Bijection, Injection
<1>3. stack_2MIB \in [1 .. n -> Chunks] /\ IsInjective(stack_2MIB)
  BY <1>2 DEF Init, SetToSeq
<1> HIDE DEF n
<1>4. stack_2MIB \in Seq(Chunks)
  <2>1. \A m \in Nat : \A f \in [1 .. m -> Chunks] : f \in Seq(Chunks)
    BY SeqDef
  <2> QED
    BY <1>1, <1>3, <2>1, Zenon
<1>5. Range(stack_2MIB) = Chunks
  <2>1. stack_2MIB \in Injection(1 .. n, Chunks)
    BY <1>3 DEF Injection
  <2>2. Cardinality(1 .. n) = n
    <3>1. 1 \in Int /\ n \in Int
      BY <1>1
    <3>2. Cardinality(1 .. n) = IF 1 > n THEN 0 ELSE n - 1 + 1
      BY <3>1, FS_Interval, Zenon
    <3> QED
      BY <1>1, <3>2
  <2>3. stack_2MIB \in Surjection(1 .. n, Chunks)
    BY <2>1, <2>2, FS_Injection, Zenon DEF n
  <2> QED
    BY <1>3, <2>3 DEF Surjection, Range
<1>6. Split = {}
  BY <1>5 DEF Split
<1>7. TypeOK
  <2>1. EmptyHeader \in Headers
    BY EmptySeq DEF EmptyHeader, Headers, max_address
  <2> QED
    BY <1>4, <2>1 DEF Init, TypeOK
<1>8. ChunkInv /\ PoolInv /\ ListedInv /\ PanicJustified
  BY <1>3, <1>6
  DEF Init, ChunkInv, PoolInv, ListedInv, PanicJustified, OutOfMemoryIsReal, AssertionsHold
<1>9. ListOf(pools, pool_4KIB, Split, <<>>)
  <2>1. <<>> \in Seq(Chunks) /\ Len(<<>>) = 0 /\ IsInjective(<<>>) /\ Range(<<>>) = {}
    BY EmptySeq DEF IsInjective, Range
  <2> QED
    BY <1>6, <2>1 DEF Init, ListOf
<1>10. ListInv
  BY <1>6, <1>9 DEF ListInv
<1> QED
  BY <1>7, <1>8, <1>10 DEF IInv

\* A chunk that is allocated or freed whole is not split, before or after.
LEMMA Whole ==
    ASSUME IInv, panic = "none", panic' = panic,
           UNCHANGED <<pools, pool_4KIB, used_4KIB>>, Split' = Split,
           stack_2MIB' \in Seq(Chunks), used_2MIB' \subseteq Chunks,
           IsInjective(stack_2MIB'), used_2MIB' \cap Range(stack_2MIB') = {}
    PROVE  IInv'
<1>1. TypeOK'
  BY DEF IInv, TypeOK
<1>2. \A c : UsedPages(c)' = UsedPages(c)
  BY DEF UsedPages
<1>3. ChunkInv' /\ PoolInv' /\ ListedInv'
  BY <1>2 DEF IInv, ChunkInv, PoolInv, ListedInv
<1>4. ListInv'
  BY DEF IInv, ListInv
<1>5. PanicJustified'
  BY DEF PanicJustified, OutOfMemoryIsReal, AssertionsHold
<1> QED
  BY <1>1, <1>3, <1>4, <1>5 DEF IInv

LEMMA Alloc2MIB == IInv /\ phys_alloc_2MIB => IInv'
<1> SUFFICES ASSUME IInv, phys_alloc_2MIB PROVE IInv'
  OBVIOUS
<1> DEFINE c == Head(stack_2MIB)
<1>1. /\ stack_2MIB \in Seq(Chunks) /\ used_2MIB \subseteq Chunks
      /\ IsInjective(stack_2MIB) /\ used_2MIB \cap Range(stack_2MIB) = {}
  BY DEF IInv, TypeOK, ChunkInv
<1>2. /\ stack_2MIB # <<>> /\ used_2MIB' = used_2MIB \cup {c}
      /\ stack_2MIB' = Tail(stack_2MIB) /\ panic = "none" /\ panic' = panic
      /\ UNCHANGED <<pools, pool_4KIB, used_4KIB>>
  BY DEF phys_alloc_2MIB
<1>3. /\ c \in Range(stack_2MIB) /\ c \in Chunks
      /\ Tail(stack_2MIB) \in Seq(Chunks) /\ IsInjective(Tail(stack_2MIB))
      /\ Range(Tail(stack_2MIB)) = Range(stack_2MIB) \ {c}
  BY <1>1, <1>2, Popped
<1> HIDE DEF c
<1>4. Split' = Split /\ used_2MIB' \cap Range(stack_2MIB') = {} /\ used_2MIB' \subseteq Chunks
  BY <1>1, <1>2, <1>3 DEF Split
<1> QED
  BY <1>2, <1>3, <1>4, Whole

LEMMA Free2MIB == ASSUME NEW c \in Chunks PROVE IInv /\ phys_free_2MIB(c) => IInv'
<1> SUFFICES ASSUME IInv, phys_free_2MIB(c) PROVE IInv'
  OBVIOUS
<1>1. /\ stack_2MIB \in Seq(Chunks) /\ used_2MIB \subseteq Chunks
      /\ IsInjective(stack_2MIB) /\ used_2MIB \cap Range(stack_2MIB) = {}
  BY DEF IInv, TypeOK, ChunkInv
<1>2. /\ c \in used_2MIB /\ used_2MIB' = used_2MIB \ {c}
      /\ stack_2MIB' = <<c>> \o stack_2MIB /\ panic = "none" /\ panic' = panic
      /\ UNCHANGED <<pools, pool_4KIB, used_4KIB>>
  BY DEF phys_free_2MIB
<1>3. /\ stack_2MIB' \in Seq(Chunks) /\ Range(stack_2MIB') = {c} \cup Range(stack_2MIB)
      /\ IsInjective(stack_2MIB')
  BY <1>1, <1>2, Pushed
<1>4. Split' = Split /\ used_2MIB' \cap Range(stack_2MIB') = {} /\ used_2MIB' \subseteq Chunks
  BY <1>1, <1>2, <1>3 DEF Split
<1> QED
  BY <1>2, <1>3, <1>4, Whole

\* Facts every step of the 4KiB allocator uses
LEMMA Facts ==
    ASSUME IInv
    PROVE  /\ TypeOK /\ ChunkInv
           /\ \A c \in Split : c \in Chunks /\ PoolOK(pools[c], UsedPages(c))
           /\ \A c \in Chunks \ Split : UsedPages(c) = {}
           /\ panic = "none" => \A c \in Split : pools[c].on_list <=> Free(pools[c]) # {}
           /\ \E s : ListOf(pools, pool_4KIB, Split, s)
           /\ \A c \in Split : ~pools[c].on_list => pools[c].next = NULL
<1>1. \A c \in Chunks \ Split : UsedPages(c) = {}
  BY DEF IInv, ChunkInv, UsedPages
<1> QED
  BY <1>1 DEF IInv, PoolInv, ListedInv, ListInv, Split

\* What a caller is given or gives back is of one pool.
LEMMA UsedAdd ==
    ASSUME NEW c, NEW p \in Pages, used_4KIB' = used_4KIB \cup {<<c, p>>}
    PROVE  /\ UsedPages(c)' = UsedPages(c) \cup {p}
           /\ \A d : d # c => UsedPages(d)' = UsedPages(d)
BY DEF UsedPages

LEMMA UsedRemove ==
    ASSUME NEW c, NEW p \in Pages, used_4KIB' = used_4KIB \ {<<c, p>>}
    PROVE  /\ UsedPages(c)' = UsedPages(c) \ {p}
           /\ \A d : d # c => UsedPages(d)' = UsedPages(d)
BY DEF UsedPages

\* The kernel panics in an allocation only when every page of memory is held.
LEMMA NoChunk ==
    ASSUME IInv, panic = "none", pool_4KIB = NULL, stack_2MIB = <<>>,
           panic' = "no_chunk",
           UNCHANGED <<stack_2MIB, pools, pool_4KIB, used_2MIB, used_4KIB>>
    PROVE  IInv'
<1>1. TypeOK'
  BY DEF IInv, TypeOK
<1>2. (\A c : UsedPages(c)' = UsedPages(c)) /\ Split' = Split
  BY DEF UsedPages, Split
<1>3. ChunkInv' /\ PoolInv' /\ ListedInv' /\ ListInv'
  BY <1>2 DEF IInv, ChunkInv, PoolInv, ListedInv, ListInv
<1>4. ASSUME NEW c \in Chunks \ used_2MIB PROVE UsedPages(c) = Pages
  <2>1. Range(stack_2MIB) = {}
    BY DEF Range
  <2>2. c \in Split
    BY <2>1 DEF Split
  <2>3. PICK s : ListOf(pools, pool_4KIB, Split, s)
    BY Facts
  <2>4. ~pools[c].on_list
    <3>1. Len(s) = 0 /\ (pools[c].on_list => \E i \in 1 .. Len(s) : c = s[i])
      BY <2>2, <2>3, ListFacts
    <3> QED
      BY <3>1
  <2>5. Free(pools[c]) = {} /\ PoolOK(pools[c], UsedPages(c))
    BY <2>2, <2>4, Facts
  <2> QED
    BY <2>5 DEF PoolOK
<1>5. PanicJustified'
  BY <1>2, <1>4 DEF PanicJustified, OutOfMemoryIsReal, AssertionsHold
<1> QED
  BY <1>1, <1>3, <1>5 DEF IInv

\* A chunk is split, and its first page is given away.
LEMMA AllocSplit ==
    ASSUME IInv, phys_alloc_4KIB, pool_4KIB = NULL, stack_2MIB # <<>>
    PROVE  IInv'
<1> USE PhysAssumption
<1> PICK c : c = Head(stack_2MIB)
  OBVIOUS
<1> DEFINE h == [EmptyHeader EXCEPT !.on_list = TRUE]
           g == pool_alloc(h)
           p == pool_page(h)
<1>1. /\ stack_2MIB \in Seq(Chunks) /\ used_2MIB \subseteq Chunks
      /\ IsInjective(stack_2MIB) /\ used_2MIB \cap Range(stack_2MIB) = {}
      /\ pools \in [Chunks -> Headers] /\ used_4KIB \subseteq Chunks \X Pages
  BY DEF IInv, TypeOK, ChunkInv
<1>2. /\ PoolOK(h, {}) /\ ~pool_empty(h) /\ ~pool_empty(g)
      /\ h.next = NULL /\ h.prev = NULL /\ h.on_list = TRUE
  BY PoolInit
<1>3. /\ p \in Pages \ {} /\ PoolOK(g, {} \cup {p})
      /\ g.next = h.next /\ g.prev = h.prev /\ g.on_list = h.on_list
  BY <1>2, PoolAlloc
<1>4. /\ c \in Range(stack_2MIB) /\ c \in Chunks
      /\ Tail(stack_2MIB) \in Seq(Chunks) /\ IsInjective(Tail(stack_2MIB))
      /\ Range(Tail(stack_2MIB)) = Range(stack_2MIB) \ {c}
  BY <1>1, Popped
<1> HIDE DEF h
<1>5. /\ panic = "none" /\ panic' = panic /\ used_2MIB' = used_2MIB
      /\ stack_2MIB' = Tail(stack_2MIB) /\ used_4KIB' = used_4KIB \cup {<<c, p>>}
      /\ pools' = [pools EXCEPT ![c] = g] /\ pool_4KIB' = c
  BY <1>2 DEF phys_alloc_4KIB, h
<1> HIDE DEF g, p
<1>6. c \notin Split /\ Split' = Split \cup {c}
  BY <1>1, <1>4, <1>5 DEF Split
<1>7. g \in Headers
  BY <1>3 DEF PoolOK
<1>8. TypeOK'
  BY <1>1, <1>3, <1>4, <1>5, <1>7 DEF IInv, TypeOK
<1>9. pools'[c] = g /\ \A d \in Split : pools'[d] = pools[d]
  BY <1>1, <1>4, <1>5, <1>6
<1>10. UsedPages(c)' = {} \cup {p} /\ \A d \in Split : UsedPages(d)' = UsedPages(d)
  <2>1. UsedPages(c) = {}
    BY <1>4, <1>6, Facts
  <2> QED
    BY <1>3, <1>5, <1>6, <2>1, UsedAdd
<1>11. ChunkInv'
  BY <1>1, <1>4, <1>5, <1>6 DEF IInv, ChunkInv
<1>12. PoolInv'
  <2>1. PoolOK(pools[c]', UsedPages(c)')
    BY <1>3, <1>9, <1>10
  <2>2. \A d \in Split : PoolOK(pools[d]', UsedPages(d)')
    BY <1>9, <1>10, Facts
  <2> QED
    BY <1>6, <2>1, <2>2 DEF PoolInv
<1>13. ListedInv'
  <2>1. Free(g) # {} /\ g.on_list
    BY <1>2, <1>3, <1>7, PoolEmpty
  <2> QED
    BY <1>5, <1>6, <1>9, <2>1, Facts DEF ListedInv
<1>14. ListInv'
  <2>1. PICK s : ListOf(pools, pool_4KIB, Split, s)
    BY Facts
  <2>2. \A d \in Split : ~pools[d].on_list
    <3>1. Len(s) = 0 /\ \A d \in Split : pools[d].on_list => \E i \in 1 .. Len(s) : d = s[i]
      BY <2>1, ListFacts
    <3> QED
      BY <3>1
  <2>3. <<c>> \in Seq(Chunks) /\ Len(<<c>>) = 1 /\ <<c>>[1] = c /\ DOMAIN <<c>> = {1}
        /\ <<c>> # <<>>
    BY <1>4
  <2>4. IsInjective(<<c>>) /\ Range(<<c>>) = {c}
    BY <2>3 DEF IsInjective, Range
  <2>5. Range(<<c>>) = {d \in Split' : pools'[d].on_list}
    BY <1>2, <1>3, <1>6, <1>9, <2>2, <2>4
  <2>6. /\ \A i \in 1 .. Len(<<c>>) : i = 1 /\ pools'[<<c>>[i]].next = NULL
        /\ \A i \in 2 .. Len(<<c>>) : FALSE
    BY <1>2, <1>3, <1>9, <2>3
  <2>7. ListOf(pools', pool_4KIB', Split', <<c>>)
    BY <1>5, <2>3, <2>4, <2>5, <2>6 DEF ListOf
  <2>8. \A d \in Split' : ~pools'[d].on_list => pools'[d].next = NULL
    BY <1>2, <1>3, <1>6, <1>9, Facts
  <2> QED
    BY <2>7, <2>8 DEF ListInv
<1>15. PanicJustified'
  BY <1>5 DEF PanicJustified, OutOfMemoryIsReal, AssertionsHold
<1> QED
  BY <1>8, <1>11, <1>12, <1>13, <1>14, <1>15 DEF IInv

\* A page of the first pool is given away.  The pool leaves the list with its last.
LEMMA AllocPage ==
    ASSUME IInv, phys_alloc_4KIB, pool_4KIB # NULL
    PROVE  IInv'
<1> USE PhysAssumption
<1> PICK c : c = pool_4KIB
  OBVIOUS
<1> DEFINE h == pools[c]
           g == pool_alloc(h)
           p == pool_page(h)
<1>1. /\ pools \in [Chunks -> Headers] /\ used_4KIB \subseteq Chunks \X Pages
      /\ stack_2MIB \in Seq(Chunks) /\ used_2MIB \subseteq Chunks
  BY DEF IInv, TypeOK
<1>2. PICK s : ListOf(pools, pool_4KIB, Split, s)
  BY Facts
<1>3. c \in Chunks /\ c \in Split /\ h.on_list
  <2>1. /\ Len(s) \in Nat /\ (s = <<>> <=> Len(s) = 0) /\ (s = <<>> <=> pool_4KIB = NULL)
        /\ \A i \in 1 .. Len(s) : s[i] \in Chunks /\ s[i] \in Split /\ pools[s[i]].on_list
    BY <1>2, ListFacts
  <2>2. pool_4KIB = s[1] /\ 1 \in 1 .. Len(s)
    BY <1>2, <2>1 DEF ListOf
  <2> QED
    BY <2>1, <2>2
<1>4. panic = "none"
  BY DEF phys_alloc_4KIB
<1>5. PoolOK(h, UsedPages(c)) /\ ~pool_empty(h)
  <2>1. PoolOK(h, UsedPages(c)) /\ Free(h) # {}
    BY <1>3, <1>4, Facts
  <2> QED
    BY <2>1, PoolEmpty DEF PoolOK
<1>6. /\ p \in Pages \ UsedPages(c) /\ PoolOK(g, UsedPages(c) \cup {p})
      /\ g.next = h.next /\ g.prev = h.prev /\ g.on_list = h.on_list /\ g \in Headers
  BY <1>5, PoolAlloc DEF PoolOK
<1>7. /\ panic' = panic /\ used_2MIB' = used_2MIB
      /\ stack_2MIB' = stack_2MIB /\ used_4KIB' = used_4KIB \cup {<<c, p>>}
      /\ IF pool_empty(g) THEN unlink_emptied(c, g)
         ELSE pools' = [pools EXCEPT ![c] = g] /\ pool_4KIB' = c
  BY <1>5 DEF phys_alloc_4KIB
<1> HIDE DEF g, p
<1>8. Split' = Split
  BY <1>7 DEF Split
<1>9. /\ UsedPages(c)' = UsedPages(c) \cup {p}
      /\ \A d \in Split \ {c} : UsedPages(d)' = UsedPages(d)
  BY <1>6, <1>7, UsedAdd
<1>10. ChunkInv'
  BY <1>3, <1>7, <1>8 DEF IInv, ChunkInv
<1>11. PanicJustified'
  BY <1>4, <1>7 DEF PanicJustified, OutOfMemoryIsReal, AssertionsHold
<1>12. CASE pool_empty(g)
  <2> DEFINE e == [g EXCEPT !.on_list = FALSE, !.next = NULL, !.prev = NULL]
  <2>1. pools' = [pools EXCEPT ![c] = e] /\ pool_4KIB' = h.next
    BY <1>6, <1>7, <1>12 DEF unlink_emptied
  <2>2. /\ e \in Headers /\ e.free_stack = g.free_stack
        /\ e.implicit_next = g.implicit_next
        /\ e.on_list = FALSE /\ e.next = NULL /\ e.prev = NULL
    BY <1>6 DEF Headers
  <2> HIDE DEF e
  <2>3. PoolOK(e, UsedPages(c) \cup {p}) /\ Free(e) = {}
    BY <1>6, <1>12, <2>2, Relinked, PoolEmpty
  <2>4. pools'[c] = e /\ \A d \in Split \ {c} : pools'[d] = pools[d]
    BY <1>1, <1>3, <2>1 DEF Split
  <2>5. h.next \in Chunks \cup {NULL}
    BY <1>1, <1>3 DEF Headers
  <2>6. TypeOK'
    BY <1>1, <1>3, <1>4, <1>6, <1>7, <2>1, <2>2, <2>5 DEF TypeOK
  <2>7. PoolInv'
    <3>1. PoolOK(pools[c]', UsedPages(c)')
      BY <1>9, <2>3, <2>4
    <3>2. \A d \in Split \ {c} : PoolOK(pools[d]', UsedPages(d)')
      BY <1>9, <2>4, Facts
    <3> QED
      BY <1>8, <3>1, <3>2 DEF PoolInv
  <2>8. ListedInv'
    BY <1>3, <1>4, <1>8, <2>2, <2>3, <2>4, Facts DEF ListedInv
  <2>9. ListOf(pools', h.next, Split, Tail(s))
    BY <1>2, <1>3, <2>2, <2>4, ListDropHead
  <2>10. ListInv'
    <3>1. \E t : ListOf(pools', pool_4KIB', Split, t)
      BY <2>1, <2>9
    <3>2. \A d \in Split : ~pools'[d].on_list => pools'[d].next = NULL
      BY <2>2, <2>4, Facts
    <3> QED
      BY <1>8, <3>1, <3>2 DEF ListInv
  <2> QED
    BY <1>10, <1>11, <2>6, <2>7, <2>8, <2>10 DEF IInv
<1>13. CASE ~pool_empty(g)
  <2>1. pools' = [pools EXCEPT ![c] = g] /\ pool_4KIB' = pool_4KIB
    BY <1>7, <1>13
  <2>2. pools'[c] = g /\ \A d \in Split \ {c} : pools'[d] = pools[d]
    BY <1>1, <1>3, <2>1 DEF Split
  <2>3. TypeOK'
    BY <1>1, <1>3, <1>4, <1>6, <1>7, <2>1 DEF TypeOK
  <2>4. PoolInv'
    <3>1. PoolOK(pools[c]', UsedPages(c)')
      BY <1>6, <1>9, <2>2
    <3>2. \A d \in Split \ {c} : PoolOK(pools[d]', UsedPages(d)')
      BY <1>9, <2>2, Facts
    <3> QED
      BY <1>8, <3>1, <3>2 DEF PoolInv
  <2>5. Free(g) # {}
    BY <1>6, <1>13, PoolEmpty
  <2>6. ListedInv'
    BY <1>3, <1>4, <1>6, <1>8, <2>2, <2>5, Facts DEF ListedInv
  <2>7. /\ {d \in Split : pools[d].on_list} = {d \in Split : pools'[d].on_list}
        /\ \A d \in Split : pools'[d].next = pools[d].next /\ pools'[d].prev = pools[d].prev
    BY <1>3, <1>6, <2>2
  <2>8. ListOf(pools', pool_4KIB, Split, s)
    BY <1>2, <2>7, ListSame
  <2>9. ListInv'
    <3>1. \E t : ListOf(pools', pool_4KIB', Split, t)
      BY <2>1, <2>8
    <3>2. \A d \in Split : ~pools'[d].on_list => pools'[d].next = NULL
      BY <1>3, <1>6, <2>2, Facts
    <3> QED
      BY <1>8, <3>1, <3>2 DEF ListInv
  <2> QED
    BY <1>10, <1>11, <2>3, <2>4, <2>6, <2>9 DEF IInv
<1> QED
  BY <1>12, <1>13

\* The headers after the page has been pushed
Freed(c, page) == [pools EXCEPT ![c] = pool_free(pools[c], page)]

\* phys_free_4KIB pushes the page, in every case, before it looks at the list.
LEMMA FreePage ==
    ASSUME IInv, NEW c \in Chunks, NEW page \in Pages, phys_free_4KIB(c, page),
           NEW ps, ps = Freed(c, page)
    PROVE  /\ c \in Split /\ Split' = Split /\ panic = "none" /\ ChunkInv'
           /\ stack_2MIB' = stack_2MIB /\ used_2MIB' = used_2MIB
           /\ used_4KIB' \subseteq Chunks \X Pages
           /\ ps \in [Chunks -> Headers]
           /\ \A d \in Split : PoolOK(ps[d], UsedPages(d)')
           /\ \A d \in Chunks : ps[d].on_list = pools[d].on_list /\ ps[d].next = pools[d].next
           /\ \E s : ListOf(ps, pool_4KIB, Split, s)
<1> USE PhysAssumption
<1>1. /\ panic = "none" /\ <<c, page>> \in used_4KIB
      /\ used_4KIB' = used_4KIB \ {<<c, page>>}
      /\ stack_2MIB' = stack_2MIB /\ used_2MIB' = used_2MIB
  BY DEF phys_free_4KIB
<1>2. /\ pools \in [Chunks -> Headers] /\ used_4KIB \subseteq Chunks \X Pages
  BY DEF IInv, TypeOK
<1>3. c \in Split
  BY <1>1 DEF IInv, ChunkInv
<1>4. Split' = Split
  BY <1>1 DEF Split
<1>5. /\ UsedPages(c)' = UsedPages(c) \ {page}
      /\ \A d : d # c => UsedPages(d)' = UsedPages(d)
  BY <1>1, UsedRemove
<1>6. PoolOK(pools[c], UsedPages(c)) /\ page \in UsedPages(c)
  BY <1>1, <1>3, Facts DEF UsedPages
<1> DEFINE g == pool_free(pools[c], page)
<1>7. /\ PoolOK(g, UsedPages(c) \ {page}) /\ Free(g) # {}
      /\ g.next = pools[c].next /\ g.prev = pools[c].prev /\ g.on_list = pools[c].on_list
  BY <1>6, PoolFree
<1>8. g \in Headers
  BY <1>7 DEF PoolOK
<1>9. ps = [pools EXCEPT ![c] = g]
  BY DEF Freed
<1> HIDE DEF g
<1>10. /\ ps \in [Chunks -> Headers] /\ ps[c] = g
       /\ \A d \in Chunks : d # c => ps[d] = pools[d]
  BY <1>2, <1>8, <1>9
<1>11. \A d \in Chunks : /\ ps[d].on_list = pools[d].on_list
                         /\ ps[d].next = pools[d].next /\ ps[d].prev = pools[d].prev
  BY <1>7, <1>10
<1>12. \A d \in Split : PoolOK(ps[d], UsedPages(d)')
  <2>1. PoolOK(ps[c], UsedPages(c)')
    BY <1>5, <1>7, <1>10
  <2>2. \A d \in Split : d # c => PoolOK(ps[d], UsedPages(d)')
    BY <1>5, <1>10, Facts
  <2> QED
    BY <2>1, <2>2
<1>13. \E s : ListOf(ps, pool_4KIB, Split, s)
  <2>1. PICK s : ListOf(pools, pool_4KIB, Split, s)
    BY Facts
  <2>2. Split \subseteq Chunks
    BY DEF Split
  <2>3. {d \in Split : pools[d].on_list} = {d \in Split : ps[d].on_list}
    BY <1>11, <2>2
  <2>4. \A d \in Split : ps[d].next = pools[d].next /\ ps[d].prev = pools[d].prev
    BY <1>11, <2>2
  <2>5. ListOf(ps, pool_4KIB, Split, s)
    BY <2>1, <2>3, <2>4, ListSame
  <2> QED
    BY <2>5
<1>14. ChunkInv'
  BY <1>1, <1>4 DEF IInv, ChunkInv
<1> QED
  BY <1>1, <1>2, <1>3, <1>4, <1>10, <1>11, <1>12, <1>13, <1>14

\* Afterwards the pool has a free page, and every other pool is as it was.
LEMMA FreeListed ==
    ASSUME IInv, NEW c \in Chunks, NEW page \in Pages, phys_free_4KIB(c, page),
           NEW ps, ps = Freed(c, page)
    PROVE  /\ Free(ps[c]) # {}
           /\ \A d \in Split : d # c => (ps[d].on_list <=> Free(ps[d]) # {})
<1>1. panic = "none" /\ <<c, page>> \in used_4KIB /\ pools \in [Chunks -> Headers]
  BY DEF phys_free_4KIB, IInv, TypeOK
<1>2. c \in Split
  BY <1>1 DEF IInv, ChunkInv
<1>3. PoolOK(pools[c], UsedPages(c)) /\ page \in UsedPages(c)
  BY <1>1, <1>2, Facts DEF UsedPages
<1>4. Free(pool_free(pools[c], page)) # {}
  BY <1>3, PoolFree
<1> DEFINE g == pool_free(pools[c], page)
<1>5. ps = [pools EXCEPT ![c] = g]
  BY DEF Freed
<1>6. Free(g) # {}
  BY <1>4
<1> HIDE DEF g
<1>7. ps[c] = g /\ \A d \in Chunks : d # c => ps[d] = pools[d]
  BY <1>1, <1>5
<1>8. \A d \in Split : d # c => ps[d] = pools[d]
  BY <1>7 DEF Split
<1> QED
  BY <1>1, <1>6, <1>7, <1>8, Facts

\* The pool whose last page comes back leaves the list, wherever it is there.
LEMMA FreeRelease ==
    ASSUME IInv, NEW c \in Chunks, NEW page \in Pages, phys_free_4KIB(c, page),
           NEW ps, ps = Freed(c, page),
           pool_4KIB # NULL, ps[c].on_list, pool_full(ps[c])
    PROVE  IInv'
<1> USE PhysAssumption
<1>1. /\ c \in Split /\ Split' = Split /\ panic = "none" /\ ChunkInv'
      /\ stack_2MIB' = stack_2MIB /\ used_2MIB' = used_2MIB
      /\ used_4KIB' \subseteq Chunks \X Pages
      /\ ps \in [Chunks -> Headers]
      /\ \A d \in Split : PoolOK(ps[d], UsedPages(d)')
      /\ \A d \in Chunks : ps[d].on_list = pools[d].on_list /\ ps[d].next = pools[d].next
  BY FreePage
<1>2. PICK s : ListOf(ps, pool_4KIB, Split, s)
  BY FreePage
<1>3. UsedPages(c)' = {} /\ ps[c].implicit_next = max_address
  BY <1>1, PoolFull
<1>4. release(ps, c)
  BY DEF phys_free_4KIB, Freed
<1>5. /\ panic' = "bad_address"
      /\ pools' = [unlink(ps, c) EXCEPT ![c] = EmptyHeader]
      /\ pool_4KIB' = IF c = pool_4KIB THEN ps[c].next ELSE pool_4KIB
  BY <1>3, <1>4 DEF release, max_address
<1>6. PoolOK(EmptyHeader, {}) /\ EmptyHeader.on_list = FALSE /\ EmptyHeader.next = NULL
  BY PoolReset
<1>7. \A d \in Chunks :
         /\ unlink(ps, c)[d] \in Headers
         /\ unlink(ps, c)[d].free_stack = ps[d].free_stack
         /\ unlink(ps, c)[d].implicit_next = ps[d].implicit_next
         /\ unlink(ps, c)[d].on_list = ps[d].on_list
         /\ unlink(ps, c)[d].next =
              IF c # pool_4KIB /\ d # ps[c].next /\ d = ps[c].prev
              THEN ps[c].next ELSE ps[d].next
         /\ unlink(ps, c)[d].prev =
              IF d = ps[c].next THEN IF c = pool_4KIB THEN NULL ELSE ps[c].prev
              ELSE ps[d].prev
  <2> TAKE d \in Chunks
  <2>1. /\ ps[c].next \in Chunks \cup {NULL} /\ ps[c].prev \in Chunks \cup {NULL}
        /\ ps[d] \in Headers
    BY <1>1 DEF Headers
  <2>2. unlink(ps, c)[d] =
          IF c = pool_4KIB
          THEN IF d = ps[c].next THEN [ps[d] EXCEPT !.prev = NULL] ELSE ps[d]
          ELSE IF d = ps[c].next THEN [ps[d] EXCEPT !.prev = ps[c].prev]
          ELSE IF d = ps[c].prev THEN [ps[d] EXCEPT !.next = ps[c].next]
          ELSE ps[d]
    BY DEF unlink
  <2>3. CASE c = pool_4KIB
    BY <2>1, <2>2, <2>3 DEF Headers
  <2>4. CASE c # pool_4KIB
    BY <2>1, <2>2, <2>4 DEF Headers
  <2> QED
    BY <2>3, <2>4
<1>8. /\ DOMAIN unlink(ps, c) = Chunks
      /\ pools' \in [Chunks -> Headers] /\ pools'[c] = EmptyHeader
      /\ \A d \in Chunks : d # c => pools'[d] = unlink(ps, c)[d]
  <2>1. unlink(ps, c) = [d \in Chunks |-> unlink(ps, c)[d]]
    BY DEF unlink
  <2>2. unlink(ps, c) \in [Chunks -> Headers]
    BY <1>7, <2>1
  <2>3. EmptyHeader \in Headers
    BY <1>6 DEF PoolOK
  <2> QED
    BY <1>5, <2>2, <2>3
<1>9. Split \subseteq Chunks
  BY DEF Split
<1>10. TypeOK'
  <2>1. ps[c].next \in Chunks \cup {NULL}
    BY <1>1 DEF Headers
  <2> QED
    BY <1>1, <1>5, <1>8, <2>1 DEF IInv, TypeOK
<1>11. PoolInv'
  <2>1. PoolOK(pools[c]', UsedPages(c)')
    BY <1>3, <1>6, <1>8
  <2>2. ASSUME NEW d \in Split, d # c PROVE PoolOK(pools[d]', UsedPages(d)')
    <3>1. d \in Chunks /\ pools'[d] = unlink(ps, c)[d]
      BY <1>8, <1>9, <2>2
    <3>2. /\ pools'[d] \in Headers /\ pools'[d].free_stack = ps[d].free_stack
          /\ pools'[d].implicit_next = ps[d].implicit_next
      BY <1>7, <3>1
    <3>3. PoolOK(ps[d], UsedPages(d)')
      BY <1>1
    <3> QED
      BY <3>2, <3>3, Relinked
  <2> QED
    BY <1>1, <2>1, <2>2 DEF PoolInv
<1>12. ListedInv' /\ PanicJustified'
  BY <1>5 DEF ListedInv, PanicJustified, OutOfMemoryIsReal, AssertionsHold
<1>13. \A d \in Split \ {c} :
          /\ pools'[d].on_list = ps[d].on_list
          /\ pools'[d].next = IF c # pool_4KIB /\ d # ps[c].next /\ d = ps[c].prev
                              THEN ps[c].next ELSE ps[d].next
          /\ pools'[d].prev = IF d = ps[c].next
                              THEN IF c = pool_4KIB THEN NULL ELSE ps[c].prev
                              ELSE ps[d].prev
  <2> TAKE d \in Split \ {c}
  <2>1. d \in Chunks /\ pools'[d] = unlink(ps, c)[d]
    BY <1>8, <1>9
  <2> QED
    BY <1>7, <2>1
<1>14. ListInv'
  <2>1. ~pools'[c].on_list
    BY <1>6, <1>8
  <2>2. \E t : ListOf(pools', pool_4KIB', Split, t)
    <3>1. \E t : ListOf(pools', IF c = pool_4KIB THEN ps[c].next ELSE pool_4KIB, Split, t)
      <4> PICK qs : qs = pools'
        OBVIOUS
      <4>1. /\ ListOf(ps, pool_4KIB, Split, s) /\ c \in Split
            /\ ps[c].on_list /\ ~qs[c].on_list
        BY <1>1, <1>2, <2>1
      <4>2. \A d \in Split \ {c} :
               /\ qs[d].on_list = ps[d].on_list
               /\ qs[d].next = IF c # pool_4KIB /\ d # ps[c].next /\ d = ps[c].prev
                               THEN ps[c].next ELSE ps[d].next
               /\ qs[d].prev = IF d = ps[c].next
                               THEN IF c = pool_4KIB THEN NULL ELSE ps[c].prev
                               ELSE ps[d].prev
        BY <1>13, Zenon
      <4>3. \E t : ListOf(qs, IF c = pool_4KIB THEN ps[c].next ELSE pool_4KIB, Split, t)
        BY <4>1, <4>2, ListRemove, SMTT(60)
      <4> QED
        BY <4>3
    <3> QED
      BY <1>5, <3>1
  <2>3. ASSUME NEW d \in Split, ~pools'[d].on_list PROVE pools'[d].next = NULL
    <3>1. CASE d = c
      BY <1>6, <1>8, <3>1
    <3>2. CASE d # c
      <4>1. ~ps[d].on_list /\ ps[d].next = NULL
        BY <1>1, <1>9, <1>13, <2>3, <3>2, Facts
      <4>2. c # pool_4KIB => ps[c].prev \in Split /\ ps[ps[c].prev].on_list
        <5> SUFFICES ASSUME c # pool_4KIB
                     PROVE  ps[c].prev \in Split /\ ps[ps[c].prev].on_list
          OBVIOUS
        <5>1. /\ Len(s) \in Nat /\ (s = <<>> <=> Len(s) = 0)
              /\ \A i \in 1 .. Len(s) : s[i] \in Split /\ ps[s[i]].on_list
              /\ \A b \in Split : ps[b].on_list => \E i \in 1 .. Len(s) : b = s[i]
          BY <1>2, ListFacts
        <5>2. PICK i \in 1 .. Len(s) : c = s[i]
          BY <1>1, <5>1
        <5>3. i \in 2 .. Len(s) /\ i - 1 \in 1 .. Len(s)
          BY <1>2, <5>1, <5>2 DEF ListOf
        <5>4. ps[c].prev = s[i - 1]
          BY <1>2, <5>2, <5>3 DEF ListOf
        <5> QED
          BY <5>1, <5>3, <5>4
      <4> QED
        BY <1>13, <3>2, <4>1, <4>2
    <3> QED
      BY <3>1, <3>2
  <2> QED
    BY <1>1, <2>2, <2>3 DEF ListInv
<1> QED
  BY <1>1, <1>10, <1>11, <1>12, <1>14 DEF IInv

\* A page comes back and the pool stays where it is, or goes to the head of the
\* list, or there is no list and the kernel panics.
LEMMA FreeKeep ==
    ASSUME IInv, NEW c \in Chunks, NEW page \in Pages, phys_free_4KIB(c, page),
           NEW ps, ps = Freed(c, page),
           pools' = ps, pool_4KIB' = pool_4KIB,
           \/ panic' = "bad_free"
           \/ panic' = panic /\ ps[c].on_list
    PROVE  IInv'
<1>1. /\ c \in Split /\ Split' = Split /\ panic = "none" /\ ChunkInv'
      /\ stack_2MIB' = stack_2MIB /\ used_2MIB' = used_2MIB
      /\ used_4KIB' \subseteq Chunks \X Pages
      /\ ps \in [Chunks -> Headers]
      /\ \A d \in Split : PoolOK(ps[d], UsedPages(d)')
      /\ \A d \in Chunks : ps[d].on_list = pools[d].on_list /\ ps[d].next = pools[d].next
      /\ \E s : ListOf(ps, pool_4KIB, Split, s)
  BY FreePage
<1>2. Split \subseteq Chunks
  BY DEF Split
<1>3. TypeOK'
  BY <1>1 DEF IInv, TypeOK
<1>4. PoolInv'
  BY <1>1 DEF PoolInv
<1>5. ListedInv'
  BY <1>1, FreeListed DEF ListedInv
<1>6. ListInv'
  <2>1. \A d \in Split : ~ps[d].on_list => ps[d].next = NULL
    BY <1>1, <1>2, Facts
  <2> QED
    BY <1>1, <2>1 DEF ListInv
<1>7. PanicJustified'
  BY <1>1 DEF PanicJustified, OutOfMemoryIsReal, AssertionsHold
<1> QED
  BY <1>1, <1>3, <1>4, <1>5, <1>6, <1>7 DEF IInv

LEMMA FreeRelink ==
    ASSUME IInv, NEW c \in Chunks, NEW page \in Pages, phys_free_4KIB(c, page),
           NEW ps, ps = Freed(c, page),
           pool_4KIB # NULL, ~ps[c].on_list
    PROVE  IInv'
<1>1. /\ c \in Split /\ Split' = Split /\ panic = "none" /\ ChunkInv'
      /\ stack_2MIB' = stack_2MIB /\ used_2MIB' = used_2MIB
      /\ used_4KIB' \subseteq Chunks \X Pages
      /\ ps \in [Chunks -> Headers]
      /\ \A d \in Split : PoolOK(ps[d], UsedPages(d)')
      /\ \A d \in Chunks : ps[d].on_list = pools[d].on_list /\ ps[d].next = pools[d].next
  BY FreePage
<1>2. PICK s : ListOf(ps, pool_4KIB, Split, s)
  BY FreePage
<1>3. Split \subseteq Chunks
  BY DEF Split
<1>4. relink(ps, c)
  BY DEF phys_free_4KIB, Freed
<1> PICK f : f = pool_4KIB
  OBVIOUS
<1>5. f \in Chunks /\ f \in Split /\ ps[f].on_list /\ f # c
  <2>1. /\ Len(s) \in Nat /\ (s = <<>> <=> Len(s) = 0) /\ (s = <<>> <=> f = NULL)
        /\ \A i \in 1 .. Len(s) : s[i] \in Chunks /\ s[i] \in Split /\ ps[s[i]].on_list
    BY <1>2, ListFacts
  <2>2. f = s[1] /\ 1 \in 1 .. Len(s)
    BY <1>2, <2>1 DEF ListOf
  <2> QED
    BY <2>1, <2>2
<1> DEFINE e == [ps[f] EXCEPT !.prev = c]
           g == [ps[c] EXCEPT !.next = f, !.prev = NULL, !.on_list = TRUE]
<1>6. /\ panic' = panic /\ pool_4KIB' = c
      /\ pools' = [ps EXCEPT ![f] = e, ![c] = g]
  BY <1>1, <1>4, <1>5 DEF relink
<1>7. /\ e \in Headers /\ e.free_stack = ps[f].free_stack
      /\ e.implicit_next = ps[f].implicit_next
      /\ e.prev = c /\ e.next = ps[f].next /\ e.on_list = ps[f].on_list
  BY <1>1, <1>5 DEF Headers
<1>8. /\ g \in Headers /\ g.free_stack = ps[c].free_stack
      /\ g.implicit_next = ps[c].implicit_next
      /\ g.next = f /\ g.on_list = TRUE
  <2>1. ps[c] \in Headers
    BY <1>1
  <2> QED
    BY <1>5, <2>1 DEF Headers
<1> HIDE DEF e, g
<1>9. /\ pools' \in [Chunks -> Headers] /\ pools'[c] = g /\ pools'[f] = e
      /\ \A d \in Chunks \ {c, f} : pools'[d] = ps[d]
  BY <1>1, <1>5, <1>6, <1>7, <1>8
<1>10. TypeOK'
  BY <1>1, <1>6, <1>9 DEF IInv, TypeOK
<1>11. \A d \in Split : PoolOK(pools'[d], UsedPages(d)') /\ Free(pools'[d]) = Free(ps[d])
  <2> TAKE d \in Split
  <2>1. PoolOK(ps[d], UsedPages(d)')
    BY <1>1
  <2>2. /\ pools'[d] \in Headers /\ pools'[d].free_stack = ps[d].free_stack
        /\ pools'[d].implicit_next = ps[d].implicit_next
    BY <1>3, <1>7, <1>8, <1>9
  <2> QED
    BY <2>1, <2>2, Relinked
<1>12. PoolInv'
  BY <1>1, <1>11 DEF PoolInv
<1>13. \A d \in Split \ {c} : pools'[d].on_list = ps[d].on_list
  BY <1>3, <1>7, <1>9
<1>14. \A d \in Split \ {c} : pools'[d].next = ps[d].next
  BY <1>3, <1>7, <1>9
<1>15. ListedInv'
  <2>1. \A d \in Split : d # c => (ps[d].on_list <=> Free(ps[d]) # {})
    BY FreeListed
  <2>2. \A d \in Split : d # c => (pools'[d].on_list <=> Free(pools'[d]) # {})
    BY <1>11, <1>13, <2>1
  <2>3. Free(pools'[c]) # {} /\ pools'[c].on_list
    BY <1>1, <1>8, <1>9, <1>11, FreeListed
  <2> QED
    BY <1>1, <2>2, <2>3 DEF ListedInv
<1>16. ListInv'
  <2>1. ListOf(pools', c, Split, <<c>> \o s)
    <3>1. /\ pools'[c].on_list /\ pools'[c].next = f
          /\ pools'[f].prev = c /\ pools'[f].next = ps[f].next
          /\ \A d \in Split \ {c, f} : pools'[d].next = ps[d].next /\ pools'[d].prev = ps[d].prev
      BY <1>3, <1>5, <1>7, <1>8, <1>9
    <3>2. ListOf(ps, f, Split, s) /\ f # NULL /\ c \in Split /\ ~ps[c].on_list
      BY <1>1, <1>2
    <3> QED
      BY ONLY <1>13, <3>1, <3>2, c \in Chunks, ListPush
  <2>2. \A d \in Split : ~pools'[d].on_list => pools'[d].next = NULL
    BY <1>1, <1>3, <1>8, <1>9, <1>13, <1>14, Facts
  <2> QED
    BY <1>1, <1>6, <2>1, <2>2 DEF ListInv
<1>17. PanicJustified'
  BY <1>1, <1>6 DEF PanicJustified, OutOfMemoryIsReal, AssertionsHold
<1> QED
  BY <1>1, <1>10, <1>12, <1>15, <1>16, <1>17 DEF IInv

\* Every step keeps the invariant.
LEMMA NextIInv == IInv /\ [Next]_vars => IInv'
<1> SUFFICES ASSUME IInv, [Next]_vars PROVE IInv'
  OBVIOUS
<1>1. CASE phys_alloc_2MIB
  BY <1>1, Alloc2MIB
<1>2. ASSUME NEW c \in Chunks, phys_free_2MIB(c) PROVE IInv'
  BY <1>2, Free2MIB
<1>3. CASE phys_alloc_4KIB
  <2>1. CASE pool_4KIB = NULL /\ stack_2MIB = <<>>
    BY <1>3, <2>1, NoChunk DEF phys_alloc_4KIB
  <2>2. CASE pool_4KIB = NULL /\ stack_2MIB # <<>>
    BY <1>3, <2>2, AllocSplit
  <2>3. CASE pool_4KIB # NULL
    BY <1>3, <2>3, AllocPage
  <2> QED
    BY <2>1, <2>2, <2>3
<1>4. ASSUME NEW c \in Chunks, NEW page \in Pages, phys_free_4KIB(c, page) PROVE IInv'
  <2> PICK ps : ps = Freed(c, page)
    OBVIOUS
  <2>1. CASE pool_4KIB = NULL
    BY <1>4, <2>1, FreeKeep DEF phys_free_4KIB, Freed
  <2>2. CASE pool_4KIB # NULL /\ ps[c].on_list /\ pool_full(ps[c])
    BY <1>4, <2>2, FreeRelease
  <2>3. CASE pool_4KIB # NULL /\ ~ps[c].on_list
    BY <1>4, <2>3, FreeRelink
  <2>4. CASE pool_4KIB # NULL /\ ps[c].on_list /\ ~pool_full(ps[c])
    <3>1. pools' = ps /\ pool_4KIB' = pool_4KIB /\ panic' = panic
      BY <1>4, <2>4 DEF phys_free_4KIB, Freed
    <3> QED
      BY <1>4, <2>4, <3>1, FreeKeep
  <2> QED
    BY <2>1, <2>2, <2>3, <2>4
<1>5. CASE UNCHANGED vars
  BY <1>5 DEF vars, IInv, TypeOK, ChunkInv, PoolInv, ListedInv, ListInv, PanicJustified,
     OutOfMemoryIsReal, AssertionsHold, Split, UsedPages
<1> QED
  BY <1>1, <1>2, <1>3, <1>4, <1>5 DEF Next

\* The inductive invariant: every pool accounts for its pages, and some sequence
\* of pools is what the links of the list say.
THEOREM Invariance == Spec => []IInv
<1> QED
  BY InitIInv, NextIInv, PTL DEF Spec

-----------------------------------------------------------------------------
(* What the invariant says *)

\* A set of numbers has a least element.
LEMMA Least == ASSUME NEW T, T \subseteq Nat, T # {} PROVE \E m \in T : \A k \in T : m <= k
<1> DEFINE R == {ss \in Nat \X Nat : ss[1] < ss[2]}
<1>1. OpToRel(<, Nat) = R
  BY DEF OpToRel
<1>2. IsWellFoundedOn(R, Nat)
  BY <1>1, NatLessThanWellFounded, Zenon
<1> HIDE DEF R
<1>3. PICK m \in T : \A y \in T : ~(<<y, m>> \in R)
  BY <1>2, WFMin, Zenon
<1>4. ASSUME NEW y \in T PROVE m <= y
  <2>1. y \in Nat /\ m \in Nat /\ <<y, m>> \notin R
    BY <1>3
  <2> QED
    BY <2>1 DEF R
<1> QED
  BY <1>4

\* The pools reached by enough next pointers are those of the list.
LEMMA ReachedIsRange ==
    ASSUME NEW s, ListOf(pools, pool_4KIB, Split, s), NEW n \in Nat, Len(s) <= n + 1
    PROVE  Reached(n) = Range(s)
<1> DEFINE F(g) == [i \in 0 .. n |->
                      IF i = 0 THEN {pool_4KIB} \ {NULL}
                      ELSE g[i - 1] \cup ({pools[c].next : c \in g[i - 1]} \ {NULL})]
           W == [i \in 0 .. n |-> {s[j] : j \in {k \in 1 .. Len(s) : k <= i + 1}}]
           a == CHOOSE g : g = F(g)
<1>1. /\ Len(s) \in Nat /\ DOMAIN s = 1 .. Len(s) /\ (s = <<>> <=> Len(s) = 0)
      /\ \A i \in 1 .. Len(s) : s[i] # NULL
      /\ pool_4KIB = IF s = <<>> THEN NULL ELSE s[1]
      /\ \A i \in 1 .. Len(s) : pools[s[i]].next = IF i < Len(s) THEN s[i + 1] ELSE NULL
  BY ListFacts, PhysAssumption DEF ListOf
<1>2. \A i \in 0 .. n : W[i] = {s[j] : j \in {k \in 1 .. Len(s) : k <= i + 1}}
  OBVIOUS
<1>3. W[0] = {pool_4KIB} \ {NULL}
  <2>1. CASE s = <<>>
    BY <1>1, <1>2, <2>1
  <2>2. CASE s # <<>>
    <3>1. {k \in 1 .. Len(s) : k <= 0 + 1} = {1}
      BY <1>1, <2>2
    <3>2. W[0] = {s[1]}
      BY <1>2, <3>1
    <3> QED
      BY <1>1, <2>2, <3>2
  <2> QED
    BY <2>1, <2>2
<1>4. ASSUME NEW i \in 1 .. n
      PROVE  W[i] = W[i - 1] \cup ({pools[c].next : c \in W[i - 1]} \ {NULL})
  <2> DEFINE N == {pools[c].next : c \in W[i - 1]} \ {NULL}
  <2>1. /\ W[i] = {s[j] : j \in {k \in 1 .. Len(s) : k <= i + 1}}
        /\ W[i - 1] = {s[j] : j \in {k \in 1 .. Len(s) : k <= i}}
    BY <1>2
  <2> HIDE DEF W
  <2>2. W[i - 1] \subseteq W[i]
    BY <2>1
  <2>3. ASSUME NEW x \in N PROVE x \in W[i]
    <3>1. PICK c \in W[i - 1] : x = pools[c].next /\ x # NULL
      BY <2>3
    <3>2. PICK j \in 1 .. Len(s) : j <= i /\ c = s[j]
      BY <2>1
    <3>3. j < Len(s) /\ x = s[j + 1]
      BY <1>1, <3>1, <3>2
    <3>4. j + 1 \in 1 .. Len(s) /\ j + 1 <= i + 1
      BY <1>1, <3>2, <3>3
    <3> QED
      BY <2>1, <3>3, <3>4
  <2>4. ASSUME NEW x \in W[i], x \notin W[i - 1] PROVE x \in N
    <3>1. PICK j \in 1 .. Len(s) : j <= i + 1 /\ x = s[j]
      BY <2>1
    <3>2. j = i + 1
      BY <1>1, <2>1, <2>4, <3>1
    <3>3. i \in 1 .. Len(s) /\ i < Len(s) /\ pools[s[i]].next = x /\ s[i] \in W[i - 1]
      BY <1>1, <2>1, <3>1, <3>2
    <3>4. x # NULL
      BY <1>1, <3>1
    <3> QED
      BY <3>3, <3>4
  <2> QED
    BY <2>2, <2>3, <2>4
<1>5. W = F(W)
  <2>1. \A i \in 0 .. n : i = 0 \/ i \in 1 .. n
    OBVIOUS
  <2>2. \A i \in 0 .. n : W[i] = F(W)[i]
    BY <1>3, <1>4, <2>1
  <2>3. W = [i \in 0 .. n |-> W[i]] /\ F(W) = [i \in 0 .. n |-> F(W)[i]]
    OBVIOUS
  <2> HIDE DEF W, F
  <2> QED
    BY <2>2, <2>3
<1> HIDE DEF W
<1>6. a = F(a)
  BY <1>5, Zenon
<1>7. Reached(n) = a[n]
  BY Zenon DEF Reached
<1> HIDE DEF a
<1>8. \A i \in 0 .. n : a[i] = W[i]
  <2> DEFINE T == {i \in 0 .. n : a[i] # W[i]}
  <2> SUFFICES ASSUME T # {} PROVE FALSE
    OBVIOUS
  <2>1. PICK m \in T : \A k \in T : m <= k
    <3>1. T \subseteq Nat
      OBVIOUS
    <3> HIDE DEF T
    <3> QED
      BY <3>1, Least
  <2>2. m # 0
    BY <1>3, <1>6, <2>1
  <2>3. m \in 1 .. n /\ m - 1 \in 0 .. n /\ a[m - 1] = W[m - 1]
    BY <2>1, <2>2
  <2>4. a[m] = a[m - 1] \cup ({pools[c].next : c \in a[m - 1]} \ {NULL})
    BY <1>6, <2>3
  <2> QED
    BY <1>4, <2>1, <2>3, <2>4
<1>9. W[n] = Range(s)
  <2>1. {k \in 1 .. Len(s) : k <= n + 1} = 1 .. Len(s)
    BY <1>1
  <2>2. W[n] = {s[j] : j \in 1 .. Len(s)}
    BY <1>2, <2>1
  <2> QED
    BY <1>1, <2>2 DEF Range
<1> QED
  BY <1>7, <1>8, <1>9

\* A list is no longer than the number of chunks.
LEMMA ListLength ==
    ASSUME NEW ps, NEW first, NEW S, NEW s, ListOf(ps, first, S, s)
    PROVE  Len(s) <= Cardinality(Chunks) /\ Cardinality(Chunks) \in Nat
<1>1. /\ s \in Seq(Chunks) /\ Len(s) \in Nat
      /\ \A i, j \in 1 .. Len(s) : s[i] = s[j] => i = j
  BY ListFacts
<1>2. s \in [1 .. Len(s) -> Chunks] /\ DOMAIN s = 1 .. Len(s)
  BY <1>1, LenProperties
<1>3. s \in Injection(1 .. Len(s), Chunks)
  BY <1>1, <1>2 DEF Injection, IsInjective
<1>4. IsFiniteSet(Chunks)
  BY PhysAssumption
<1>5. Cardinality(1 .. Len(s)) <= Cardinality(Chunks)
  BY <1>3, <1>4, FS_Injection, Zenon
<1>6. Cardinality(1 .. Len(s)) = Len(s)
  <2>1. 1 \in Int /\ Len(s) \in Int
    BY <1>1
  <2>2. Cardinality(1 .. Len(s)) = IF 1 > Len(s) THEN 0 ELSE Len(s) - 1 + 1
    BY <2>1, FS_Interval, Zenon
  <2> QED
    BY <1>1, <2>2
<1>7. Cardinality(Chunks) \in Nat
  BY <1>4, FS_CardinalityType
<1> QED
  BY <1>5, <1>6, <1>7

LEMMA IInvPages == IInv => PagesAccounted
<1> SUFFICES ASSUME IInv PROVE PagesAccounted
  OBVIOUS
<1>1. TypeOK /\ ChunkInv /\ \A c \in Split : PoolOK(pools[c], UsedPages(c))
  BY DEF IInv, PoolInv
<1>2. \A c : Free(pools[c]) = FreePages(c)
  BY DEF Free, FreePages
<1>3. NoDoubleUse
  <2>1. \A c \in Split :
          /\ FreePages(c) \cap UsedPages(c) = {}
          /\ IsInjective(pools[c].free_stack)
          /\ \A i \in Range(pools[c].free_stack) : i < pools[c].implicit_next
    BY <1>1, <1>2 DEF PoolOK
  <2> QED
    BY <1>1, <2>1 DEF NoDoubleUse, ChunkInv
<1>4. NoPageLost
  <2>1. \A c \in Split : FreePages(c) \cup UsedPages(c) = Pages
    BY <1>1, <1>2 DEF PoolOK
  <2>2. panic = "none" => \A c \in Split : pools[c].on_list <=> FreePages(c) # {}
    BY <1>2 DEF IInv, ListedInv
  <2> QED
    BY <2>1, <2>2 DEF NoPageLost
<1> QED
  BY <1>1, <1>3, <1>4 DEF PagesAccounted

LEMMA IInvList == IInv => ListIntact
<1> SUFFICES ASSUME IInv PROVE ListIntact
  OBVIOUS
<1>1. PICK s : ListOf(pools, pool_4KIB, Split, s)
  BY Facts
<1>2. /\ Len(s) \in Nat
      /\ \A i \in 1 .. Len(s) : s[i] \in Split
      /\ \A c \in Split : pools[c].on_list => \E i \in 1 .. Len(s) : c = s[i]
  BY <1>1, ListFacts
<1>3. Reached(Cardinality(Chunks)) = {c \in Split : pools[c].on_list}
  <2>1. Len(s) <= Cardinality(Chunks) + 1 /\ Cardinality(Chunks) \in Nat
    BY <1>1, <1>2, ListLength
  <2>2. Reached(Cardinality(Chunks)) = Range(s)
    BY <1>1, <2>1, ReachedIsRange
  <2> QED
    BY <1>1, <2>2 DEF ListOf
<1>4. ASSUME NEW c \in Split, pools[c].next # NULL
      PROVE  pools[c].next \in Split /\ pools[pools[c].next].prev = c
  <2>1. pools[c].on_list
    BY <1>4, Facts
  <2>2. PICK i \in 1 .. Len(s) : c = s[i]
    BY <1>2, <2>1
  <2>3. i < Len(s) /\ pools[c].next = s[i + 1]
    BY <1>1, <1>4, <2>2 DEF ListOf
  <2>4. i + 1 \in 2 .. Len(s) /\ i + 1 \in 1 .. Len(s) /\ i + 1 - 1 = i
    BY <1>2, <2>3
  <2>5. pools[s[i + 1]].prev = s[i + 1 - 1]
    BY <1>1, <2>4 DEF ListOf
  <2> QED
    BY <1>2, <2>2, <2>3, <2>4, <2>5
<1> QED
  BY <1>3, <1>4 DEF ListIntact

\* No page of memory is used twice or forgotten, however many chunks and pages
\* there are.
THEOREM PagesAlwaysAccounted == Spec => []PagesAccounted
<1> QED
  BY Invariance, IInvPages, PTL

\* The doubly linked list of pools holds exactly the pools with a free page, and
\* its prev pointers undo its next pointers.
THEOREM ListAlwaysIntact == Spec => []ListIntact
<1> QED
  BY Invariance, IInvList, PTL

\* The kernel stops in an allocation only when memory is out, and no assertion of
\* the allocator fails.
THEOREM PanicAlwaysJustified == Spec => []PanicJustified
<1>1. IInv => PanicJustified
  BY DEF IInv
<1> QED
  BY <1>1, Invariance, PTL

-----------------------------------------------------------------------------
(* The ELF loader: multiples of a page size *)

LEMMA Multiple ==
    ASSUME NEW s \in Nat \ {0}, NEW v \in Nat
    PROVE  v % s \in 0 .. s - 1 /\ \E q \in Nat : v = q * s + (v % s)
<1>1. v % s \in 0 .. s - 1
  BY SMT
<1>2. v \div s \in Nat
  BY SMT
<1>3. v = (v \div s) * s + (v % s)
  BY SMT
<1> QED
  BY <1>1, <1>2, <1>3, Zenon

LEMMA Remainder ==
    ASSUME NEW s \in Nat \ {0}, NEW q \in Nat, NEW f \in 0 .. s - 1
    PROVE  (q * s + f) % s = f
<1> DEFINE v == q * s + f
<1>0. q * s \in Nat /\ v \in Nat
  BY SMT
<1>1. PICK p \in Nat : v = p * s + (v % s)
  BY <1>0, Multiple
<1>2. v % s \in 0 .. s - 1
  BY <1>0, Multiple
<1>3. ~(p < q)
  <2>1. SUFFICES ASSUME p < q PROVE FALSE
    OBVIOUS
  <2>2. (q - p) * s >= s
    BY <2>1, SMT
  <2>3. q * s = p * s + (q - p) * s
    BY SMT
  <2> QED
    BY <1>0, <1>1, <1>2, <2>2, <2>3, SMT
<1>4. ~(q < p)
  <2>1. SUFFICES ASSUME q < p PROVE FALSE
    OBVIOUS
  <2>2. (p - q) * s >= s
    BY <2>1, SMT
  <2>3. p * s = q * s + (p - q) * s
    BY SMT
  <2> QED
    BY <1>0, <1>1, <1>2, <2>2, <2>3, SMT
<1>5. p = q
  BY <1>3, <1>4
<1> QED
  BY <1>0, <1>1, <1>2, <1>5, SMT

\* One multiple of a size is below another only if a whole page fits between.
LEMMA Spaced ==
    ASSUME NEW s \in Nat \ {0}, NEW a \in Nat, NEW b \in Nat,
           a % s = 0, b % s = 0, a < b
    PROVE  a + s <= b
<1>1. PICK p \in Nat : a = p * s + (a % s)
  BY Multiple
<1>2. PICK q \in Nat : b = q * s + (b % s)
  BY Multiple
<1>3. p * s \in Nat /\ q * s \in Nat
  BY SMT
<1>4. p < q
  <2>1. SUFFICES ASSUME q <= p PROVE FALSE
    OBVIOUS
  <2>2. (p - q) * s >= 0
    BY <2>1, SMT
  <2>3. p * s = q * s + (p - q) * s
    BY SMT
  <2> QED
    BY <1>1, <1>2, <1>3, <2>2, <2>3, SMT
<1>5. (q - p) * s >= s
  BY <1>4, SMT
<1>6. q * s = p * s + (q - p) * s
  BY SMT
<1> QED
  BY <1>1, <1>2, <1>3, <1>5, <1>6, SMT

\* The page an address is in starts at a multiple of the size.
LEMMA BaseOf ==
    ASSUME NEW s \in Nat \ {0}, NEW a \in Nat
    PROVE  /\ Base(a, s) \in Nat /\ Base(a, s) % s = 0
           /\ Base(a, s) <= a /\ a < Base(a, s) + s
           /\ a % s = 0 => Base(a, s) = a
<1>1. PICK q \in Nat : a = q * s + (a % s)
  BY Multiple
<1>2. a % s \in 0 .. s - 1
  BY Multiple
<1>3. q * s \in Nat
  BY SMT
<1>4. Base(a, s) = q * s
  BY <1>1, <1>2, <1>3, SMT DEF Base
<1>5. (q * s + 0) % s = 0
  BY Remainder, SMT
<1>6. (q * s) % s = 0
  BY <1>3, <1>5, SMT
<1> QED
  BY <1>1, <1>2, <1>3, <1>4, <1>6, SMT

\* Moving by whole pages moves the start of the page.
LEMMA BaseMoves ==
    ASSUME NEW s \in Nat \ {0}, NEW a \in Nat, NEW m \in Nat
    PROVE  /\ m * s \in Nat /\ Base(a + m * s, s) = Base(a, s) + m * s
           /\ (Base(a, s) + m * s) % s = 0
<1>1. PICK q \in Nat : a = q * s + (a % s)
  BY Multiple
<1>2. a % s \in 0 .. s - 1
  BY Multiple
<1>3. q * s \in Nat /\ m * s \in Nat /\ (q + m) * s \in Nat /\ q + m \in Nat
  BY SMT
<1>4. (q + m) * s = q * s + m * s
  BY SMT
<1>5. ((q + m) * s + (a % s)) % s = a % s
  BY <1>2, <1>3, Remainder
<1>6. a + m * s = (q + m) * s + (a % s)
  BY <1>1, <1>2, <1>3, <1>4, SMT
<1>7. (a + m * s) % s = a % s
  BY <1>5, <1>6
<1>8. Base(a, s) = q * s /\ Base(a + m * s, s) = (q + m) * s
  <2>1. Base(a, s) = q * s
    BY <1>1, <1>2, <1>3, SMT DEF Base
  <2>2. Base(a + m * s, s) = ((q + m) * s + (a % s)) - (a % s)
    BY <1>6, <1>7, Zenon DEF Base
  <2>3. a % s \in Nat
    BY <1>2, SMT
  <2>4. \A x, r \in Nat : (x + r) - r = x
    BY SMT
  <2> QED
    BY <1>3, <2>1, <2>2, <2>3, <2>4, Zenon
<1>9. ((q + m) * s + 0) % s = 0
  BY <1>3, Remainder, SMT
<1>10. ((q + m) * s) % s = 0
  BY <1>3, <1>9, SMT
<1> QED
  BY <1>3, <1>4, <1>8, <1>10

\* A large page starts at a small one.
LEMMA LargeIsSmall ==
    ASSUME NEW s \in Nat \ {0}, NEW l \in Nat \ {0}, l % s = 0, NEW a \in Nat, a % l = 0
    PROVE  a % s = 0
<1>1. PICK q \in Nat : a = q * l + (a % l)
  BY Multiple
<1>2. PICK p \in Nat : l = p * s + (l % s)
  BY Multiple
<1>3. p * s \in Nat /\ q * p \in Nat /\ q * l \in Nat /\ (q * p) * s \in Nat
  BY SMT
<1>4. l = p * s /\ a = q * l
  BY <1>1, <1>2, <1>3, SMT
<1>5. q * (p * s) = (q * p) * s
  BY SMT
<1>6. a = (q * p) * s
  BY <1>4, <1>5
<1>7. ((q * p) * s + 0) % s = 0
  BY <1>3, Remainder, SMT
<1> QED
  BY <1>3, <1>6, <1>7, SMT

-----------------------------------------------------------------------------
(* Pages *)

Sizes == {PAGE_SMALL_SIZE, PAGE_LARGE_SIZE}

\* A page, and one of the process's own part
PageOK(p) ==
    /\ p = [base |-> p.base, size |-> p.size]
    /\ p.base \in Nat /\ p.size \in Sizes /\ p.base % p.size = 0
UserPage(p) == PageOK(p) /\ p.base + p.size <= USER_END

LEMMA SizeFacts ==
    /\ PAGE_SMALL_SIZE \in Nat \ {0} /\ PAGE_LARGE_SIZE \in Nat \ {0}
    /\ PAGE_SMALL_SIZE < PAGE_LARGE_SIZE
    /\ PAGE_LARGE_SIZE % PAGE_SMALL_SIZE = 0
    /\ USER_END \in Nat \ {0} /\ \A z \in Sizes : USER_END % z = 0
    /\ ADDRESSES \in Nat \ {0} /\ USER_END < ADDRESSES
    /\ TRANSLATED \in Nat \ {0} /\ USER_END < TRANSLATED
    /\ KERNEL_BASE \in Nat /\ USER_END <= KERNEL_BASE
<1>1. /\ PAGE_SMALL_SIZE \in Nat \ {0} /\ PAGE_LARGE_SIZE \in Nat
      /\ PAGE_SMALL_SIZE < PAGE_LARGE_SIZE /\ USER_END \in Nat \ {0}
      /\ PAGE_LARGE_SIZE % PAGE_SMALL_SIZE = 0 /\ USER_END % PAGE_LARGE_SIZE = 0
      /\ ADDRESSES \in Nat /\ ADDRESSES >= TRANSLATED
  BY ElfAssumption
<1>2. PAGE_LARGE_SIZE \in Nat \ {0}
  BY <1>1, SMT
<1>3. USER_END % PAGE_SMALL_SIZE = 0
  BY <1>1, <1>2, LargeIsSmall
<1>4. /\ TRANSLATED \in Nat \ {0} /\ USER_END < TRANSLATED
      /\ ADDRESSES \in Nat \ {0} /\ USER_END < ADDRESSES
      /\ KERNEL_BASE \in Nat /\ USER_END <= KERNEL_BASE
  BY <1>1, SMT DEF TRANSLATED, KERNEL_BASE
<1> QED
  BY <1>1, <1>2, <1>3, <1>4 DEF Sizes

\* What is below a bound is left alone by its remainder.
LEMMA BelowBound ==
    ASSUME NEW t \in Nat \ {0}, NEW a \in Nat
    PROVE  a % t \in Nat /\ a % t < t /\ (a < t => a % t = a)
<1>1. a % t \in 0 .. t - 1
  BY Multiple
<1>2. CASE a < t
  <2>1. a \in 0 .. t - 1
    BY <1>2, SMT
  <2>2. (0 * t + a) % t = a
    BY <2>1, Remainder
  <2>3. 0 * t + a = a
    BY SMT
  <2> QED
    BY <1>1, <2>2, <2>3, SMT
<1> QED
  BY <1>1, <1>2, SMT

\* The page tables find a page at every address, and the process's own at its own.
LEMMA PageAt ==
    ASSUME NEW a \in Nat, NEW z \in Sizes
    PROVE  /\ PageOK([base |-> Base(Translated(a), z), size |-> z])
           /\ a < USER_END => /\ Translated(a) = a
                              /\ UserPage([base |-> Base(a, z), size |-> z])
<1>1. z \in Nat \ {0} /\ USER_END \in Nat /\ USER_END % z = 0
  BY SizeFacts DEF Sizes
<1>2. ASSUME NEW b \in Nat PROVE Base(b, z) \in Nat /\ Base(b, z) % z = 0 /\ Base(b, z) <= b
  BY <1>1, BaseOf
<1>3. Translated(a) \in Nat /\ (a < USER_END => Translated(a) = a)
  BY SizeFacts, BelowBound, SMT DEF Translated
<1>4. PageOK([base |-> Base(Translated(a), z), size |-> z])
  BY <1>2, <1>3 DEF PageOK
<1>5. CASE a < USER_END
  <2>1. Base(a, z) < USER_END
    BY <1>1, <1>2, <1>5, SMT
  <2>2. Base(a, z) + z <= USER_END
    BY <1>1, <1>2, <2>1, Spaced
  <2> QED
    BY <1>2, <1>3, <1>4, <1>5, <2>2 DEF PageOK, UserPage
<1> QED
  BY <1>4, <1>5

\* Two pages that share an address are nested.
LEMMA Nested ==
    ASSUME NEW p, PageOK(p), NEW q, PageOK(q), Span(p) \cap Span(q) # {}, q.size <= p.size
    PROVE  q.base \in Span(p) /\ (q.size = p.size => q.base = p.base)
<1>1. /\ p.base \in Nat /\ q.base \in Nat /\ p.size \in Nat \ {0} /\ q.size \in Nat \ {0}
      /\ p.base % p.size = 0 /\ q.base % q.size = 0
  BY SizeFacts DEF PageOK, Sizes
<1>2. PICK x : x \in Span(p) /\ x \in Span(q)
  OBVIOUS
<1>3. /\ x \in Int /\ p.base <= x /\ x < p.base + p.size
      /\ q.base <= x /\ x < q.base + q.size
  BY <1>1, <1>2, SMT DEF Span
<1>4. p.base % q.size = 0
  <2>1. p.size = q.size \/ (p.size = PAGE_LARGE_SIZE /\ q.size = PAGE_SMALL_SIZE)
    BY SizeFacts, SMT DEF PageOK, Sizes
  <2> QED
    BY <1>1, <2>1, SizeFacts, LargeIsSmall
<1>5. ~(q.base < p.base)
  BY <1>1, <1>3, <1>4, Spaced, SMT
<1>6. q.size = p.size => ~(p.base < q.base)
  BY <1>1, <1>3, Spaced, SMT
<1> QED
  BY <1>1, <1>3, <1>5, <1>6, SMT DEF Span

PagesOK ==
    /\ \A p \in pages : PageOK(p)
    /\ DOMAIN byte = Mapped
    /\ \A a \in Mapped : byte[a] \in Nat \cup {Junk}

\* What is kept is apart from the new page.
LEMMA KeptApart ==
    ASSUME PagesOK, NEW p, PageOK(p), InTheWay(p) = {}, NEW q \in pages \ Replaced(p)
    PROVE  Span(p) \cap Span(q) = {}
<1>1. SUFFICES ASSUME Span(p) \cap Span(q) # {} PROVE FALSE
  OBVIOUS
<1>2. PageOK(q) /\ q \in pages
  BY DEF PagesOK
<1>3. p.size \in Nat /\ q.size \in Nat /\ p.base \in Nat
  BY <1>2, SizeFacts DEF PageOK, Sizes
<1>4. CASE q.size < p.size
  BY <1>1, <1>2, <1>3, <1>4, Nested, SMT DEF Replaced
<1>5. CASE p.size <= q.size
  <2>1. p.base \in Span(q)
    BY <1>1, <1>2, <1>5, Nested
  <2> QED
    BY <1>2, <1>3, <1>5, <2>1, SMT DEF InTheWay
<1> QED
  BY <1>3, <1>4, <1>5, SMT

\* What virt_map_page does when it does not panic
LEMMA MapsPage ==
    ASSUME PagesOK, NEW a \in Nat, NEW z \in Sizes, NEW h,
           \A i \in 0 .. z - 1 : h[i] \in Nat \cup {Junk},
           NEW next, next # "panic", virt_map_page(a, z, h, next), at' # "panic",
           NEW p, p = [base |-> Base(Translated(a), z), size |-> z]
    PROVE  /\ at' = next /\ PagesOK' /\ PageOK(p)
           /\ InTheWay(p) = {} /\ ~Exhausted(z)
           /\ pages' = (pages \ Replaced(p)) \cup {p}
           /\ \A x \in Span(p) : x \in Mapped' /\ byte'[x] = h[x - p.base]
           /\ \A q \in pages \ Replaced(p) : \A x \in Span(q) :
                  x \in Mapped' /\ byte'[x] = byte[x]
<1> DEFINE kept == pages \ Replaced(p)
<1>1. PageOK(p)
  BY PageAt
<1>2. p.base = Base(Translated(a), z) /\ p.size = z
  OBVIOUS
<1>3. /\ InTheWay(p) = {} /\ ~Exhausted(z) /\ at' = next
      /\ pages' = kept \cup {p}
      /\ byte' = [b \in Span(p) \cup UNION {Span(q) : q \in kept} |->
                        IF b \in Span(p) THEN h[b - p.base] ELSE byte[b]]
  BY Zenon DEF virt_map_page
<1>4. Mapped' = Span(p) \cup UNION {Span(q) : q \in kept}
  BY <1>3 DEF Mapped, Span
<1>5. \A x \in Span(p) : x \in Mapped' /\ byte'[x] = h[x - p.base]
  BY <1>3, <1>4
<1>6. \A q \in kept : \A x \in Span(q) : x \in Mapped' /\ byte'[x] = byte[x]
  BY <1>1, <1>3, <1>4, KeptApart
<1>7. PagesOK'
  <2>1. \A q \in pages' : PageOK(q)
    BY <1>1, <1>3 DEF PagesOK
  <2>2. DOMAIN byte' = Mapped'
    BY <1>3, <1>4
  <2>3. ASSUME NEW x \in Mapped' PROVE byte'[x] \in Nat \cup {Junk}
    <3>1. CASE x \in Span(p)
      <4>1. x - p.base \in 0 .. z - 1
        BY <1>1, <1>2, <3>1, SizeFacts, SMT DEF Span, PageOK, Sizes
      <4> QED
        BY <1>5, <3>1, <4>1
    <3>2. CASE x \notin Span(p)
      <4>1. PICK q \in kept : x \in Span(q)
        BY <1>4, <3>2
      <4>2. x \in Mapped
        BY <4>1 DEF Mapped
      <4> QED
        BY <1>6, <4>1, <4>2 DEF PagesOK
    <3> QED
      BY <3>1, <3>2
  <2> QED
    BY <2>1, <2>2, <2>3 DEF PagesOK, PageOK
<1> QED
  BY <1>1, <1>3, <1>5, <1>6, <1>7

-----------------------------------------------------------------------------
(* Where the loader is *)

Current == file.segments[seg - 1]

WhereOK ==
    /\ file \in Files
    /\ at \in {"start", "headers", "pages", "stack", "done", "panic"}
    /\ seg \in 1 .. Len(file.segments) + 1
    /\ {left, vaddr, load_offset, amount_left} \subseteq Nat /\ vaddr < ADDRESSES
    /\ at # "done" => result = "none"
    /\ at = "pages" =>
           /\ seg > 1 /\ Current.load /\ ~BadVaddr(Current)
           /\ left \in 1 .. num_pages(Current)
           /\ amount_left <= Current.filesz
           /\ Canonical(Current) => vaddr + amount_left = Current.vaddr + Current.filesz
           /\ load_offset + amount_left = Current.offset + Current.filesz
    /\ at = "stack" =>
           left <= StackPages /\ vaddr = StackBase + (StackPages - left) * PAGE_SMALL_SIZE

LEMMA SegmentFacts ==
    ASSUME NEW f \in Files, NEW n \in DOMAIN f.segments, NEW s, s = f.segments[n]
    PROVE  /\ s.offset \in Nat /\ s.vaddr \in Nat /\ s.filesz \in Nat /\ s.memsz \in Nat
           /\ s.load \in BOOLEAN /\ s.filesz <= s.memsz /\ s.vaddr < ADDRESSES
           /\ Canonical(s) /\ ~BadVaddr(s) => s.vaddr + s.memsz < USER_END
           /\ s.vaddr + s.memsz < USER_END => Canonical(s) /\ ~BadVaddr(s)
           /\ page_size(s) \in Sizes /\ page_size(s) \in Nat \ {0}
           /\ num_pages(s) \in Nat \ {0}
           /\ (num_pages(s) - 1) * page_size(s) \in Nat
           /\ (num_pages(s) - 1) * page_size(s) <= s.memsz
           /\ s.memsz < num_pages(s) * page_size(s)
           /\ num_pages(s) - 1 = s.memsz \div page_size(s)
<1>1. f.segments \in Seq(Segment) /\ s.filesz <= s.memsz
  BY ElfAssumption
<1>2. s \in Segment
  BY <1>1
<1>3. /\ s.offset \in Nat /\ s.vaddr \in Nat /\ s.filesz \in Nat /\ s.memsz \in Nat
      /\ s.load \in BOOLEAN
  BY <1>2, SMT DEF Segment
<1>12. s.vaddr < ADDRESSES
  BY <1>2, SizeFacts, SMT DEF Segment
<1>0. /\ Canonical(s) /\ ~BadVaddr(s) => s.vaddr + s.memsz < USER_END
      /\ s.vaddr + s.memsz < USER_END => Canonical(s) /\ ~BadVaddr(s)
  <2> DEFINE end == s.vaddr + s.memsz
  <2>1. end \in Nat /\ s.vaddr <= end
    BY <1>3, SMT
  <2>2. end < ADDRESSES => end % ADDRESSES = end
    BY <2>1, SizeFacts, BelowBound
  <2> QED
    BY <1>3, <1>12, <2>1, <2>2, SizeFacts, SMT DEF Canonical, BadVaddr
<1>4. page_size(s) \in Sizes /\ page_size(s) \in Nat \ {0}
  BY SizeFacts DEF page_size, Sizes
<1> DEFINE z == page_size(s)
           q == s.memsz \div z
<1>5. z \in Nat \ {0}
  BY <1>4
<1> HIDE DEF z
<1>6. q \in Nat /\ s.memsz % z \in 0 .. z - 1 /\ s.memsz = q * z + (s.memsz % z)
  <2>1. q \in Nat
    BY <1>3, <1>5, SMT
  <2>2. s.memsz % z \in 0 .. z - 1
    BY <1>3, <1>5, Multiple
  <2>3. s.memsz = q * z + (s.memsz % z)
    BY <1>3, <1>5, SMT
  <2> QED
    BY <2>1, <2>2, <2>3
<1>7. num_pages(s) = q + 1
  BY DEF num_pages, z
<1> HIDE DEF q
<1>8. q * z \in Nat /\ (q + 1) * z = q * z + z
  BY <1>5, <1>6, SMT
<1>9. q * z <= s.memsz /\ s.memsz < (q + 1) * z
  BY <1>3, <1>5, <1>6, <1>8, SMT
<1>10. q + 1 \in Nat \ {0} /\ (q + 1) - 1 = q
  BY <1>6, SMT
<1>11. num_pages(s) - 1 = q /\ q = s.memsz \div page_size(s)
  BY <1>7, <1>10 DEF q, z
<1> QED
  BY <1>0, <1>1, <1>3, <1>4, <1>7, <1>8, <1>9, <1>10, <1>11, <1>12 DEF z

\* The segment whose pages are being loaded
LEMMA CurrentFacts ==
    ASSUME WhereOK, at = "pages"
    PROVE  /\ seg - 1 \in DOMAIN file.segments /\ seg - 1 \in Nat
           /\ page_size(Current) \in Sizes
           /\ vaddr \in Nat
           /\ Canonical(Current) =>
                  /\ vaddr < USER_END /\ Current.vaddr + Current.filesz < USER_END
                  /\ vaddr + amount_left = Current.vaddr + Current.filesz
           /\ \A c : \A i \in 0 .. page_size(Current) - 1 :
                  Loaded(page_size(Current), c)[i] \in Nat \cup {Junk}
<1>1. file \in Files /\ file.segments \in Seq(Segment)
  BY ElfAssumption DEF WhereOK
<1>2. seg \in 1 .. Len(file.segments) + 1 /\ seg > 1 /\ Len(file.segments) \in Nat
  BY <1>1 DEF WhereOK
<1>3. seg - 1 \in 1 .. Len(file.segments)
  BY <1>2, SMT
<1>4. DOMAIN file.segments = 1 .. Len(file.segments)
  BY <1>1
<1>5. seg - 1 \in DOMAIN file.segments /\ seg - 1 \in Nat
  BY <1>2, <1>3, <1>4, SMT
<1>6. /\ Current.vaddr \in Nat /\ Current.memsz \in Nat /\ Current.filesz <= Current.memsz
      /\ Current.filesz \in Nat /\ page_size(Current) \in Sizes
      /\ Canonical(Current) /\ ~BadVaddr(Current) => Current.vaddr + Current.memsz < USER_END
  BY <1>1, <1>5, SegmentFacts DEF Current
<1>7. /\ ~BadVaddr(Current)
      /\ Canonical(Current) => vaddr + amount_left = Current.vaddr + Current.filesz
      /\ vaddr \in Nat /\ amount_left \in Nat /\ load_offset \in Nat
  BY DEF WhereOK
<1>8. Canonical(Current) => /\ vaddr < USER_END /\ Current.vaddr + Current.filesz < USER_END
                            /\ vaddr + amount_left = Current.vaddr + Current.filesz
  BY <1>6, <1>7, SizeFacts, SMT
<1>9. page_size(Current) \in Nat
  BY <1>6, SizeFacts DEF Sizes
<1>10. ASSUME NEW i \in 0 .. page_size(Current) - 1, NEW c
       PROVE  Loaded(page_size(Current), c)[i] \in Nat \cup {Junk}
  <2>1. Loaded(page_size(Current), c)[i] = IF i < c THEN load_offset + i ELSE 0
    BY Zenon DEF Loaded
  <2>2. load_offset + i \in Nat
    BY <1>7, <1>9, <1>10, SMT
  <2> QED
    BY <2>1, <2>2
<1> QED
  BY <1>5, <1>6, <1>7, <1>8, <1>10

\* The pages of the stack and the context
LEMMA StackFacts ==
    ASSUME WhereOK, at = "stack"
    PROVE  /\ PAGE_SMALL_SIZE \in Sizes
           /\ left > 0 => /\ vaddr \in Nat /\ vaddr < USER_END
                          /\ vaddr % PAGE_SMALL_SIZE = 0
                          /\ (StackPages - left) * PAGE_SMALL_SIZE \in Nat
                          /\ StackPages - left \in 0 .. StackPages - 1
                          /\ vaddr + PAGE_SMALL_SIZE <= USER_END
                          /\ vaddr + PAGE_SMALL_SIZE =
                                 StackBase + (StackPages - (left - 1)) * PAGE_SMALL_SIZE
           /\ ContextBase \in Nat /\ ContextBase < USER_END
           /\ ContextBase % PAGE_SMALL_SIZE = 0
<1>1. /\ {StackBase, ContextBase, StackPages} \subseteq Nat
      /\ StackBase % PAGE_SMALL_SIZE = 0
      /\ StackBase + StackPages * PAGE_SMALL_SIZE <= USER_END
  BY ElfAssumption
<1>2. StackBase \in Nat /\ StackPages \in Nat
  BY <1>1
<1>3. PAGE_SMALL_SIZE \in Nat \ {0} /\ USER_END \in Nat
  BY SizeFacts
<1>4. left \in Nat /\ left <= StackPages
      /\ vaddr = StackBase + (StackPages - left) * PAGE_SMALL_SIZE
  BY DEF WhereOK
<1>5. ASSUME left > 0
      PROVE  /\ vaddr \in Nat /\ vaddr < USER_END /\ vaddr % PAGE_SMALL_SIZE = 0
             /\ (StackPages - left) * PAGE_SMALL_SIZE \in Nat
             /\ StackPages - left \in 0 .. StackPages - 1
             /\ vaddr + PAGE_SMALL_SIZE <= USER_END
             /\ vaddr + PAGE_SMALL_SIZE =
                    StackBase + (StackPages - (left - 1)) * PAGE_SMALL_SIZE
  <2>1. StackPages - left \in Nat /\ StackPages - left \in 0 .. StackPages - 1 /\ left - 1 \in Nat
    BY <1>2, <1>4, <1>5, SMT
  <2> DEFINE k == StackPages - left
  <2>2. StackPages = k + left /\ k \in Nat /\ StackPages - (left - 1) = k + 1
    BY <1>2, <1>4, <2>1, SMT
  <2> HIDE DEF k
  <2>3. /\ k * PAGE_SMALL_SIZE \in Nat /\ left * PAGE_SMALL_SIZE >= PAGE_SMALL_SIZE
        /\ (k + 1) * PAGE_SMALL_SIZE = k * PAGE_SMALL_SIZE + PAGE_SMALL_SIZE
    BY <1>3, <1>4, <1>5, <2>2, SMT
  <2>4. StackPages * PAGE_SMALL_SIZE = k * PAGE_SMALL_SIZE + left * PAGE_SMALL_SIZE
    BY <1>3, <1>4, <2>2, SMT
  <2>5. vaddr = StackBase + k * PAGE_SMALL_SIZE
    BY <1>4 DEF k
  <2>6. vaddr \in Nat /\ vaddr < USER_END /\ vaddr + PAGE_SMALL_SIZE <= USER_END
        /\ vaddr + PAGE_SMALL_SIZE = StackBase + (k + 1) * PAGE_SMALL_SIZE
    <3>1. left * PAGE_SMALL_SIZE \in Nat
      BY <1>3, <1>4, SMT
    <3> QED
      BY <1>1, <1>2, <1>3, <2>3, <2>4, <2>5, <3>1, SMT
  <2>7. vaddr % PAGE_SMALL_SIZE = 0
    <3>1. Base(StackBase, PAGE_SMALL_SIZE) = StackBase
      BY <1>1, <1>2, <1>3, BaseOf
    <3>2. (Base(StackBase, PAGE_SMALL_SIZE) + k * PAGE_SMALL_SIZE) % PAGE_SMALL_SIZE = 0
      BY <1>2, <1>3, <2>2, BaseMoves
    <3> QED
      BY <2>5, <3>1, <3>2, Zenon
  <2> QED
    BY <2>1, <2>2, <2>3, <2>5, <2>6, <2>7 DEF k
<1>6. /\ ContextBase \in Nat /\ ContextBase < USER_END
      /\ ContextBase % PAGE_SMALL_SIZE = 0
  BY ElfAssumption
<1> QED
  BY <1>5, <1>6 DEF Sizes

-----------------------------------------------------------------------------
(* Types, and where the loader is *)

PlacesInv == PagesOK /\ WhereOK /\ UserOnly

\* The process's part stays its own when the page mapped is in it.
LEMMA UserStays ==
    ASSUME UserOnly, file' = file, NEW p, pages' \subseteq pages \cup {p},
           (\A n \in Loads(file) : Canonical(file.segments[n])) => UserPage(p)
    PROVE  UserOnly'
BY DEF UserOnly, UserPage, Loads, Canonical

LEMMA NoneAdded ==
    ASSUME UserOnly, file' = file, pages' \subseteq pages
    PROVE  UserOnly'
BY DEF UserOnly, Loads, Canonical

\* virt_map_page adds the page of the address, or none.
LEMMA MapsOne ==
    ASSUME NEW a \in Nat, NEW z \in Sizes, NEW h, NEW next, virt_map_page(a, z, h, next),
           UserOnly, file' = file,
           (\A n \in Loads(file) : Canonical(file.segments[n])) => a < USER_END
    PROVE  UserOnly'
<1> DEFINE p == [base |-> Base(Translated(a), z), size |-> z]
<1>1. pages' \subseteq pages \cup {p}
  BY Zenon DEF virt_map_page
<1>2. a < USER_END => UserPage(p)
  BY PageAt
<1> HIDE DEF p
<1> QED
  BY <1>1, <1>2, UserStays

LEMMA PlacesStart == LoaderInit => PlacesInv
<1> SUFFICES ASSUME LoaderInit PROVE PlacesInv
  OBVIOUS
<1> USE DEF LoaderInit, LoaderBegin
<1>1. file \in Files /\ file.segments \in Seq(Segment)
  BY ElfAssumption
<1>2. WhereOK
  BY <1>1, SizeFacts, SMT DEF WhereOK
<1>3. ASSUME NEW p \in pages PROVE UserPage(p)
  <2>1. PICK a \in OldBytes : p = [base |-> Base(a, PAGE_SMALL_SIZE), size |-> PAGE_SMALL_SIZE]
    OBVIOUS
  <2>2. a \in Nat /\ a < USER_END
    BY ElfAssumption, SizeFacts, SMT
  <2> QED
    BY <2>1, <2>2, PageAt DEF Sizes
<1>4. DOMAIN byte = Mapped /\ \A a \in Mapped : byte[a] = Junk
  BY Zenon
<1> QED
  BY <1>2, <1>3, <1>4 DEF PlacesInv, PagesOK, UserPage, UserOnly

\* When virt_map_page panics, nothing is mapped.
LEMMA MapsNothing ==
    ASSUME NEW a, NEW z, NEW h, NEW next, next # "panic",
           virt_map_page(a, z, h, next), at' = "panic"
    PROVE  UNCHANGED <<pages, byte>>
BY DEF virt_map_page

LEMMA StaysOK ==
    ASSUME PagesOK, UNCHANGED <<pages, byte>>
    PROVE  PagesOK'
BY DEF PagesOK, PageOK, Mapped, Span

LEMMA ResetOK ==
    ASSUME pages' = {}, byte' = <<>>
    PROVE  PagesOK'
<1>1. Mapped' = {}
  BY DEF Mapped
<1>2. DOMAIN byte' = {}
  OBVIOUS
<1> QED
  BY <1>1, <1>2 DEF PagesOK

LEMMA PlacesHeader == ASSUME PlacesInv, CheckHeader PROVE PlacesInv'
<1> USE DEF CheckHeader, Return
<1>1. PagesOK'
  BY StaysOK, ResetOK DEF PlacesInv
<1>2. WhereOK'
  BY DEF PlacesInv, WhereOK
<1>3. UserOnly'
  BY NoneAdded DEF PlacesInv
<1> QED
  BY <1>1, <1>2, <1>3 DEF PlacesInv

LEMMA PlacesNext == ASSUME PlacesInv, NextHeader PROVE PlacesInv'
<1> USE DEF NextHeader
<1>1. PagesOK' /\ UserOnly'
  BY StaysOK, NoneAdded DEF PlacesInv
<1>2. WhereOK /\ file' = file /\ file \in Files /\ at = "headers"
  BY DEF PlacesInv, WhereOK
<1>3. file.segments \in Seq(Segment) /\ Len(file.segments) \in Nat
      /\ DOMAIN file.segments = 1 .. Len(file.segments)
  BY <1>2, ElfAssumption
<1>4. seg \in 1 .. Len(file.segments) + 1 /\ result = "none"
  BY <1>2 DEF WhereOK
<1>5. CASE seg > Len(file.segments)
  <2>1. /\ at' = "stack" /\ left' = StackPages /\ vaddr' = StackBase
        /\ UNCHANGED <<seg, load_offset, amount_left, result>>
    BY <1>5
  <2>2. StackPages \in Nat /\ StackBase \in Nat
    BY ElfAssumption
  <2>3. /\ StackPages <= StackPages /\ StackBase < ADDRESSES
        /\ StackBase = StackBase + (StackPages - StackPages) * PAGE_SMALL_SIZE
    <3>1. StackBase + StackPages * PAGE_SMALL_SIZE <= USER_END
      BY ElfAssumption
    <3>2. StackPages * PAGE_SMALL_SIZE \in Nat
      BY <2>2, SizeFacts, SMT
    <3> QED
      BY <2>2, <3>1, <3>2, SizeFacts, SMT
  <2>4. WhereOK'
    BY <1>2, <2>1, <2>2, <2>3 DEF WhereOK
  <2> QED
    BY <1>1, <2>4 DEF PlacesInv
<1>6. CASE ~(seg > Len(file.segments))
  <2> DEFINE s == file.segments[seg]
  <2>1. seg \in DOMAIN file.segments /\ seg' = seg + 1
        /\ seg + 1 \in 1 .. Len(file.segments) + 1 /\ (seg + 1) - 1 = seg /\ seg + 1 > 1
    BY <1>3, <1>4, <1>6, SMT
  <2>2. Current' = s
    BY <1>2, <2>1 DEF Current
  <2>3. /\ s.offset \in Nat /\ s.vaddr \in Nat /\ s.filesz \in Nat /\ s.memsz \in Nat
        /\ s.load \in BOOLEAN /\ num_pages(s) \in Nat \ {0} /\ s.vaddr < ADDRESSES
    BY <1>2, <2>1, SegmentFacts
  <2>4. CASE ~s.load
    <3>1. UNCHANGED <<at, left, vaddr, load_offset, amount_left, result>>
      BY <1>6, <2>4
    <3> QED
      BY <1>1, <1>2, <2>1, <3>1 DEF PlacesInv, WhereOK
  <2>5. CASE s.load /\ BadVaddr(s)
    <3>1. at' = "done" /\ UNCHANGED <<left, vaddr, load_offset, amount_left>>
      BY <1>6, <2>5 DEF Return
    <3> QED
      BY <1>1, <1>2, <2>1, <3>1 DEF PlacesInv, WhereOK
  <2>6. CASE s.load /\ ~BadVaddr(s)
    <3>1. /\ at' = "pages" /\ left' = num_pages(s) /\ vaddr' = s.vaddr
          /\ load_offset' = s.offset /\ amount_left' = s.filesz /\ UNCHANGED result
      BY <1>6, <2>6
    <3>2. {left', vaddr', load_offset', amount_left'} \subseteq Nat /\ vaddr' < ADDRESSES
      BY <2>3, <3>1
    <3>3. num_pages(s) \in 1 .. num_pages(s) /\ s.filesz <= s.filesz
      BY <2>3, SMT
    <3>4. /\ seg' > 1 /\ Current'.load /\ ~BadVaddr(Current')
          /\ left' \in 1 .. num_pages(Current')
          /\ amount_left' <= Current'.filesz
          /\ vaddr' + amount_left' = Current'.vaddr + Current'.filesz
          /\ load_offset' + amount_left' = Current'.offset + Current'.filesz
      BY <2>1, <2>2, <2>6, <3>1, <3>3
    <3>5. WhereOK'
      BY <1>2, <1>4, <2>1, <3>1, <3>2, <3>4 DEF WhereOK, BadVaddr, Canonical, num_pages, page_size
    <3> QED
      BY <1>1, <3>5 DEF PlacesInv
  <2> QED
    BY <2>4, <2>5, <2>6
<1> QED
  BY <1>5, <1>6

LEMMA PlacesLoad == ASSUME PlacesInv, LoadPage PROVE PlacesInv'
<1> DEFINE size == page_size(Current)
           copied == LessOf(size, amount_left)
           next == IF left = 1 THEN "headers" ELSE "pages"
<1>1. /\ at = "pages" /\ left > 0
      /\ virt_map_page(vaddr, size, Loaded(size, copied), next)
      /\ vaddr' = (vaddr + copied) % ADDRESSES /\ load_offset' = load_offset + copied
      /\ amount_left' = amount_left - copied /\ left' = left - 1
      /\ UNCHANGED <<file, seg, result>>
  BY Zenon DEF LoadPage, Current
<1>2. PagesOK /\ WhereOK
  BY DEF PlacesInv
<1>3. next # "panic" /\ next \in {"headers", "pages"}
  OBVIOUS
<1>4. at' \in {"panic", next}
  BY <1>1 DEF virt_map_page
<1>5. PagesOK'
  <2>1. CASE at' = "panic"
    BY <1>1, <1>2, <1>3, <2>1, MapsNothing, StaysOK
  <2>2. CASE at' # "panic"
    BY <1>1, <1>2, <1>3, <2>2, CurrentFacts, MapsPage
  <2> QED
    BY <2>1, <2>2
<1>14. UserOnly'
  <2>1. seg - 1 \in Loads(file)
    BY <1>1, <1>2, CurrentFacts DEF WhereOK, Loads, Current
  <2>2. (\A n \in Loads(file) : Canonical(file.segments[n])) => vaddr < USER_END
    BY <1>1, <1>2, <2>1, CurrentFacts DEF Current
  <2> HIDE DEF next, copied
  <2> QED
    BY <1>1, <1>2, <2>2, CurrentFacts, MapsOne DEF PlacesInv
<1>6. /\ {left, vaddr, load_offset, amount_left} \subseteq Nat /\ result = "none"
      /\ left \in 1 .. num_pages(Current) /\ amount_left <= Current.filesz
      /\ Canonical(Current) =>
             /\ vaddr + amount_left = Current.vaddr + Current.filesz
             /\ Current.vaddr + Current.filesz < USER_END
      /\ load_offset + amount_left = Current.offset + Current.filesz
  BY <1>1, <1>2, CurrentFacts DEF WhereOK
<1>7. size \in Nat /\ Current.filesz \in Nat /\ num_pages(Current) \in Nat
  BY <1>1, <1>2, CurrentFacts, SegmentFacts DEF WhereOK, Current
<1> HIDE DEF size
<1>8. copied \in Nat /\ copied <= amount_left
  BY <1>6, <1>7, SMT DEF LessOf
<1> HIDE DEF copied
<1>9. /\ {left', vaddr', load_offset', amount_left'} \subseteq Nat /\ vaddr' < ADDRESSES
      /\ amount_left' <= Current.filesz
      /\ Canonical(Current) => vaddr' + amount_left' = Current.vaddr + Current.filesz
      /\ load_offset' + amount_left' = Current.offset + Current.filesz
  <2>1. /\ left - 1 \in Nat /\ vaddr + copied \in Nat /\ load_offset + copied \in Nat
        /\ amount_left - copied \in Nat /\ amount_left - copied <= Current.filesz
        /\ (vaddr + copied) + (amount_left - copied) = vaddr + amount_left
        /\ (load_offset + copied) + (amount_left - copied) = load_offset + amount_left
        /\ vaddr + copied <= vaddr + amount_left
    BY <1>6, <1>7, <1>8, SMT
  <2>2. /\ vaddr' \in Nat /\ vaddr' < ADDRESSES
        /\ vaddr + copied < ADDRESSES => vaddr' = vaddr + copied
    BY <1>1, <2>1, SizeFacts, BelowBound
  <2>3. Canonical(Current) => vaddr + copied < ADDRESSES
    <3>1. vaddr + copied <= vaddr + amount_left /\ vaddr + amount_left \in Nat
      BY <1>6, <2>1, SMT
    <3> QED
      BY <1>6, <2>1, <3>1, SizeFacts, SMT
  <2> QED
    BY <1>1, <1>6, <2>1, <2>2, <2>3
<1>10. at' = "pages" => left' \in 1 .. num_pages(Current)
  BY <1>1, <1>4, <1>6, <1>7, SMT
<1>11. Current' = Current
  BY <1>1 DEF Current
<1>12. WhereOK'
  BY <1>1, <1>2, <1>3, <1>4, <1>9, <1>10, <1>11
     DEF WhereOK, BadVaddr, Canonical, num_pages, page_size
<1> QED
  BY <1>5, <1>12, <1>14 DEF PlacesInv

LEMMA PlacesStack == ASSUME PlacesInv, MapStack PROVE PlacesInv'
<1>1. PagesOK /\ WhereOK /\ UserOnly /\ at = "stack" /\ UNCHANGED <<file, seg, load_offset, amount_left>>
  BY DEF PlacesInv, MapStack
<1>2. left \in Nat /\ left <= StackPages /\ result = "none" /\ StackPages \in Nat
  BY <1>1, ElfAssumption DEF WhereOK
<1> DEFINE zeros == [i \in 0 .. PAGE_SMALL_SIZE - 1 |-> 0]
           rest == [i \in 0 .. PAGE_SMALL_SIZE - 1 |-> Junk]
<1>3. CASE left > 0 /\ virt_map_page(vaddr, PAGE_SMALL_SIZE, zeros, "stack")
           /\ left' = left - 1 /\ vaddr' = vaddr + PAGE_SMALL_SIZE /\ UNCHANGED result
  <2>1. at' \in {"stack", "panic"}
    BY <1>3 DEF virt_map_page
  <2>2. PagesOK'
    <3>1. CASE at' = "panic"
      BY <1>1, <1>3, <3>1, MapsNothing, StaysOK
    <3>2. CASE at' # "panic"
      <4>1. \A i \in 0 .. PAGE_SMALL_SIZE - 1 : zeros[i] \in Nat \cup {Junk}
        OBVIOUS
      <4> HIDE DEF zeros
      <4> QED
        BY <1>1, <1>3, <3>2, <4>1, StackFacts, MapsPage
    <3> QED
      BY <3>1, <3>2
  <2>3. left - 1 \in Nat /\ left - 1 <= StackPages
    BY <1>2, <1>3, SMT
  <2>4. vaddr + PAGE_SMALL_SIZE = StackBase + (StackPages - (left - 1)) * PAGE_SMALL_SIZE
        /\ vaddr + PAGE_SMALL_SIZE \in Nat /\ vaddr + PAGE_SMALL_SIZE < ADDRESSES
    <3>1. vaddr \in Nat /\ PAGE_SMALL_SIZE \in Nat /\ vaddr + PAGE_SMALL_SIZE <= USER_END
      BY <1>1, <1>3, StackFacts, SizeFacts
    <3>2. vaddr + PAGE_SMALL_SIZE \in Nat /\ vaddr + PAGE_SMALL_SIZE < ADDRESSES
      BY <3>1, SizeFacts, SMT
    <3> QED
      BY <1>1, <1>3, <3>2, StackFacts
  <2>5. WhereOK'
    BY <1>1, <1>3, <2>1, <2>3, <2>4 DEF WhereOK
  <2>6. UserOnly'
    <3> HIDE DEF zeros
    <3> QED
      BY <1>1, <1>3, StackFacts, MapsOne
  <2> QED
    BY <2>2, <2>5, <2>6 DEF PlacesInv
<1>4. CASE left = 0 /\ virt_map_page(ContextBase, PAGE_SMALL_SIZE, rest, "done")
           /\ UNCHANGED <<left, vaddr>>
           /\ result' = IF at' = "done" THEN "NO_ERROR" ELSE result
  <2>1. at' \in {"done", "panic"}
    BY <1>4 DEF virt_map_page
  <2>2. PagesOK'
    <3>1. CASE at' = "panic"
      BY <1>1, <1>4, <3>1, MapsNothing, StaysOK
    <3>2. CASE at' # "panic"
      <4>1. \A i \in 0 .. PAGE_SMALL_SIZE - 1 : rest[i] \in Nat \cup {Junk}
        OBVIOUS
      <4> HIDE DEF rest
      <4> QED
        BY <1>1, <1>4, <3>2, <4>1, StackFacts, MapsPage
    <3> QED
      BY <3>1, <3>2
  <2>3. WhereOK'
    BY <1>1, <1>2, <1>4, <2>1 DEF WhereOK
  <2>4. UserOnly'
    <3> HIDE DEF rest
    <3> QED
      BY <1>1, <1>4, StackFacts, MapsOne
  <2> QED
    BY <2>2, <2>3, <2>4 DEF PlacesInv
<1> QED
  BY <1>3, <1>4, Zenon DEF MapStack

LEMMA PlacesStep == PlacesInv /\ [LoaderNext]_loader_vars => PlacesInv'
<1> SUFFICES ASSUME PlacesInv, [LoaderNext]_loader_vars PROVE PlacesInv'
  OBVIOUS
<1>1. CASE UNCHANGED loader_vars
  <2>1. UNCHANGED <<pages, byte>> /\ PagesOK' /\ UserOnly'
    BY <1>1, StaysOK, NoneAdded DEF loader_vars, PlacesInv
  <2>2. WhereOK'
    BY <1>1 DEF loader_vars, PlacesInv, WhereOK, Current, BadVaddr, Canonical, num_pages, page_size
  <2> QED
    BY <2>1, <2>2 DEF PlacesInv
<1> QED
  BY <1>1, PlacesHeader, PlacesNext, PlacesLoad, PlacesStack DEF LoaderNext

-----------------------------------------------------------------------------
(* A refused header costs nothing *)

HeaderInv ==
    at = "start" \/ result \notin {"none", "NO_ERROR", "BAD_VADDR"} => OldBytes \subseteq Mapped

LEMMA HeaderStart == LoaderInit => HeaderInv
<1> SUFFICES ASSUME LoaderInit, NEW a \in OldBytes PROVE a \in Mapped
  BY DEF HeaderInv
<1> DEFINE p == [base |-> Base(a, PAGE_SMALL_SIZE), size |-> PAGE_SMALL_SIZE]
<1>1. p \in pages
  BY DEF LoaderInit, LoaderBegin
<1>2. a \in Nat /\ PAGE_SMALL_SIZE \in Nat \ {0}
  BY ElfAssumption, SizeFacts, SMT
<1>3. /\ p.base = Base(a, PAGE_SMALL_SIZE) /\ p.size = PAGE_SMALL_SIZE
      /\ p.base \in Nat /\ p.base <= a /\ a < p.base + p.size
  BY <1>2, BaseOf
<1> HIDE DEF p
<1>4. a \in Span(p)
  BY <1>2, <1>3, SMT DEF Span
<1> QED
  BY <1>1, <1>4 DEF Mapped

LEMMA HeaderStep ==
    ASSUME PlacesInv, HeaderInv, [LoaderNext]_loader_vars
    PROVE  HeaderInv'
<1> USE DEF HeaderInv
<1>0. at # "done" => result = "none"
  BY DEF PlacesInv, WhereOK
<1>1. CASE CheckHeader
  <2>1. at' # "start" /\ (result' # "none" => pages' = pages)
    BY <1>0, <1>1 DEF CheckHeader, Return
  <2>2. pages' = pages => Mapped' = Mapped
    BY DEF Mapped, Span
  <2> QED
    BY <1>1, <2>1, <2>2 DEF CheckHeader
<1>2. CASE NextHeader
  BY <1>0, <1>2 DEF NextHeader, Return
<1>3. CASE LoadPage
  <2>1. at' # "start" /\ result' = result /\ at = "pages"
    BY <1>3 DEF LoadPage, virt_map_page
  <2> QED
    BY <1>0, <2>1
<1>4. CASE MapStack
  <2>1. at' # "start" /\ result' \in {"NO_ERROR", result} /\ at = "stack"
    BY <1>4, Zenon DEF MapStack, virt_map_page
  <2> QED
    BY <1>0, <2>1
<1>5. CASE UNCHANGED loader_vars
  <2>1. UNCHANGED <<at, result>> /\ Mapped' = Mapped
    BY <1>5 DEF loader_vars, Mapped, Span
  <2> QED
    BY <2>1
<1> QED
  BY <1>1, <1>2, <1>3, <1>4, <1>5 DEF LoaderNext

-----------------------------------------------------------------------------
(* A loaded program is in memory *)

\* The first n bytes of segment s are in memory as the file says.
InPlace(s, n) ==
    \A i \in 0 .. n - 1 :
        /\ s.vaddr + i \in Mapped
        /\ byte[s.vaddr + i] = IF i < s.filesz THEN s.offset + i ELSE 0

\* The segments the loader is done with
Passed == IF at = "pages" THEN seg - 1 ELSE seg

CurrentInv ==
    LET s == Current
        z == page_size(s)
        m == num_pages(s) - left
    IN  /\ InPlace(s, m * z)
        /\ \A k \in 0 .. m - 1 : [base |-> s.vaddr + k * z, size |-> z] \in pages
        /\ vaddr = s.vaddr + LessOf(m * z, s.filesz)

ImageInv ==
    AsLinked(file) =>
        /\ at = "start" => seg = 1
        /\ at \in {"headers", "pages", "stack"} \/ result = "NO_ERROR" =>
               \A n \in Loads(file) :
                   n < Passed => InPlace(file.segments[n], file.segments[n].memsz)
        /\ at = "stack" \/ result = "NO_ERROR" => seg > Len(file.segments)
        /\ at = "pages" => CurrentInv

LEMMA ImageStart == LoaderInit => ImageInv
BY DEF LoaderInit, LoaderBegin, ImageInv

\* What is below the new page stays.
LEMMA BelowStays ==
    ASSUME PagesOK, NEW p, PageOK(p),
           \A q \in pages \ Replaced(p) : \A x \in Span(q) :
                  x \in Mapped' /\ byte'[x] = byte[x],
           NEW x \in Mapped, x < p.base
    PROVE  x \in Mapped' /\ byte'[x] = byte[x]
<1>1. PICK q \in pages : x \in Span(q)
  BY DEF Mapped
<1>2. PageOK(q)
  BY DEF PagesOK
<1>3. q.base \in Nat /\ q.size \in Nat /\ p.base \in Nat /\ p.size \in Nat
  BY <1>2, SizeFacts DEF PageOK, Sizes
<1>4. q.base \notin Span(p)
  BY <1>1, <1>3, SMT DEF Span
<1>5. q \notin Replaced(p)
  BY <1>4 DEF Replaced
<1> QED
  BY <1>1, <1>5

\* A small page replaces nothing.
LEMMA SmallReplacesNone ==
    ASSUME PagesOK, NEW p, p.size = PAGE_SMALL_SIZE
    PROVE  Replaced(p) = {}
<1> SUFFICES ASSUME NEW q \in Replaced(p) PROVE FALSE
  OBVIOUS
<1>1. PageOK(q) /\ q.size < p.size
  BY DEF Replaced, PagesOK
<1> QED
  BY <1>1, SizeFacts, SMT DEF PageOK, Sizes

LEMMA InPlaceStays ==
    ASSUME NEW s, NEW n,
           \A i \in 0 .. n - 1 : s.vaddr + i \in Mapped =>
               s.vaddr + i \in Mapped' /\ byte'[s.vaddr + i] = byte[s.vaddr + i],
           InPlace(s, n)
    PROVE  InPlace(s, n)'
BY DEF InPlace

LEMMA ImageHeader == ASSUME PlacesInv, ImageInv, CheckHeader PROVE ImageInv'
<1>1. WhereOK /\ file' = file /\ seg' = seg
  BY DEF PlacesInv, CheckHeader
<1>2. at' \in {"done", "panic", "headers"}
  BY DEF CheckHeader, Return
<1>3. at = "start" /\ result = "none" /\ file \in Files
  BY <1>1 DEF CheckHeader, WhereOK
<1>4. SUFFICES ASSUME AsLinked(file) PROVE ImageInv'
  BY <1>1 DEF ImageInv, AsLinked, Canonical, Loads, page_size
<1>5. seg = 1
  BY <1>3, <1>4 DEF ImageInv
<1>6. \A n \in Loads(file) : ~(n < seg)
  <2>1. file.segments \in Seq(Segment)
    BY <1>3, ElfAssumption
  <2> QED
    BY <1>5, <2>1, SMT DEF Loads
<1>7. CASE at' = "headers"
  <2>1. Passed' = seg /\ result' = "none" /\ Loads(file)' = Loads(file)
    BY <1>1, <1>3, <1>7 DEF Passed, CheckHeader, Return, Loads
  <2> QED
    BY <1>1, <1>6, <1>7, <2>1 DEF ImageInv
<1>8. CASE at' # "headers" /\ result' # "NO_ERROR"
  BY <1>2, <1>8 DEF ImageInv
<1>9. CASE at' # "headers" /\ result' = "NO_ERROR"
  <2>1. file.header # "NO_ERROR"
    BY <1>3, ElfAssumption
  <2> QED
    BY <1>3, <1>9, <2>1 DEF CheckHeader, Return
<1> QED
  BY <1>7, <1>8, <1>9


LEMMA ImageNext == ASSUME PlacesInv, ImageInv, NextHeader PROVE ImageInv'
<1>1. /\ WhereOK /\ file' = file /\ file \in Files /\ at = "headers" /\ result = "none"
      /\ UNCHANGED <<pages, byte>>
  BY DEF PlacesInv, NextHeader, WhereOK
<1>2. file.segments \in Seq(Segment) /\ Len(file.segments) \in Nat /\ seg \in Nat
      /\ DOMAIN file.segments = 1 .. Len(file.segments)
      /\ seg \in 1 .. Len(file.segments) + 1
  BY <1>1, ElfAssumption DEF WhereOK
<1>3. SUFFICES ASSUME AsLinked(file) PROVE ImageInv'
  BY <1>1 DEF ImageInv, AsLinked, Canonical, Loads, page_size
<1>4. \A n \in Loads(file) : n < seg => InPlace(file.segments[n], file.segments[n].memsz)'
  <2>1. Mapped' = Mapped
    BY <1>1 DEF Mapped, Span
  <2> QED
    BY <1>1, <1>3, <2>1 DEF ImageInv, Passed, InPlace
<1>5. Loads(file)' = Loads(file) /\ Loads(file) \subseteq Nat
  BY <1>1, <1>2 DEF Loads
<1>6. CASE seg > Len(file.segments)
  <2>1. at' = "stack" /\ seg' = seg /\ result' = result /\ Passed' = seg
    BY <1>6 DEF NextHeader, Passed
  <2> QED
    BY <1>1, <1>4, <1>5, <1>6, <2>1 DEF ImageInv
<1>7. CASE ~(seg > Len(file.segments))
  <2> DEFINE s == file.segments[seg]
  <2>1. seg' = seg + 1 /\ (seg + 1) - 1 = seg /\ seg \in DOMAIN file.segments
    BY <1>2, <1>7, SMT DEF NextHeader
  <2>2. CASE ~s.load
    <3>1. at' = at /\ result' = result /\ Passed' = seg + 1
      BY <1>1, <1>7, <2>1, <2>2 DEF NextHeader, Passed
    <3>2. seg \notin Loads(file)
      BY <2>2 DEF Loads
    <3>3. \A n \in Loads(file) : n < seg + 1 => n < seg
      BY <1>2, <1>5, <3>2, SMT
    <3> QED
      BY <1>1, <1>4, <1>5, <3>1, <3>3 DEF ImageInv
  <2>3. CASE s.load /\ BadVaddr(s)
    BY <1>7, <2>3 DEF NextHeader, Return, ImageInv
  <2>4. CASE s.load /\ ~BadVaddr(s)
    <3>1. at' = "pages" /\ left' = num_pages(s) /\ vaddr' = s.vaddr /\ result' = result
      BY <1>7, <2>4 DEF NextHeader
    <3>2. Passed' = seg /\ Current' = s
      BY <1>1, <2>1, <3>1 DEF Passed, Current
    <3>3. /\ num_pages(s) \in Nat /\ page_size(s) \in Nat /\ s.filesz \in Nat
          /\ s.vaddr \in Nat
      BY <1>1, <2>1, SegmentFacts
    <3>4. num_pages(s) - num_pages(s) = 0 /\ 0 * page_size(s) = 0
      BY <3>3, SMT
    <3>5. LessOf(0, s.filesz) = 0 /\ s.vaddr + 0 = s.vaddr
      BY <3>3, SMT DEF LessOf
    <3>6. InPlace(s, 0)' /\ 0 .. 0 - 1 = {}
      BY SMT DEF InPlace
    <3>7. /\ page_size(Current)' = page_size(s) /\ num_pages(Current)' = num_pages(s)
          /\ LessOf(0, Current.filesz)' = LessOf(0, s.filesz)
      BY <3>2 DEF page_size, num_pages, LessOf
    <3>8. CurrentInv'
      <4>1. InPlace(Current, 0)'
        BY <3>6 DEF InPlace
      <4>2. (num_pages(Current) - left)' = 0
        BY <3>1, <3>4, <3>7
      <4>3. ((num_pages(Current) - left) * page_size(Current))' = 0
        BY <3>4, <3>7, <4>2
      <4>4. InPlace(Current, (num_pages(Current) - left) * page_size(Current))'
        BY <4>1, <4>3 DEF InPlace
      <4>5. (vaddr = Current.vaddr
                + LessOf((num_pages(Current) - left) * page_size(Current), Current.filesz))'
        BY <3>1, <3>2, <3>5, <4>3 DEF LessOf
      <4>6. (\A k \in 0 .. (num_pages(Current) - left) - 1 :
                [base |-> Current.vaddr + k * page_size(Current),
                 size |-> page_size(Current)] \in pages)'
        BY <3>6, <4>2
      <4> QED
        BY <4>4, <4>5, <4>6, Zenon DEF CurrentInv
    <3> QED
      BY <1>1, <1>4, <1>5, <3>1, <3>2, <3>8 DEF ImageInv
  <2> QED
    BY <2>2, <2>3, <2>4
<1> QED
  BY <1>6, <1>7

LEMMA ImageStack == ASSUME PlacesInv, ImageInv, MapStack PROVE ImageInv'
<1>1. /\ PagesOK /\ WhereOK /\ file' = file /\ file \in Files /\ at = "stack"
      /\ seg' = seg
  BY DEF PlacesInv, MapStack, WhereOK
<1>2. SUFFICES ASSUME AsLinked(file), at' # "panic" PROVE ImageInv'
  <2>1. at' = "panic" => result' \in {"none"}
    BY <1>1, Zenon DEF MapStack, WhereOK
  <2> QED
    BY <1>1, <2>1 DEF ImageInv, AsLinked, Canonical, Loads, page_size
<1>3. /\ \A n \in Loads(file) : n < seg => InPlace(file.segments[n], file.segments[n].memsz)
      /\ seg > Len(file.segments)
  BY <1>1, <1>2 DEF ImageInv, Passed
<1>4. ASSUME NEW a \in Nat, NEW h, NEW next, next # "panic", a < USER_END,
             \A i \in 0 .. PAGE_SMALL_SIZE - 1 : h[i] \in Nat \cup {Junk},
             virt_map_page(a, PAGE_SMALL_SIZE, h, next)
      PROVE  at' = next /\ \A x \in Mapped : x \in Mapped' /\ byte'[x] = byte[x]
  <2> DEFINE p == [base |-> Base(a, PAGE_SMALL_SIZE), size |-> PAGE_SMALL_SIZE]
  <2>1. PAGE_SMALL_SIZE \in Sizes /\ Translated(a) = a
    BY <1>4, PageAt DEF Sizes
  <2>2. /\ at' = next
        /\ \A q \in pages \ Replaced(p) : \A x \in Span(q) :
               x \in Mapped' /\ byte'[x] = byte[x]
    BY <1>1, <1>2, <1>4, <2>1, MapsPage
  <2>3. Replaced(p) = {}
    BY <1>1, SmallReplacesNone
  <2> QED
    BY <2>2, <2>3 DEF Mapped
<1>5. at' \in {"stack", "done"} /\ \A x \in Mapped : x \in Mapped' /\ byte'[x] = byte[x]
  <2> DEFINE zeros == [i \in 0 .. PAGE_SMALL_SIZE - 1 |-> 0]
             rest == [i \in 0 .. PAGE_SMALL_SIZE - 1 |-> Junk]
  <2>1. /\ \A i \in 0 .. PAGE_SMALL_SIZE - 1 : zeros[i] \in Nat \cup {Junk}
        /\ \A i \in 0 .. PAGE_SMALL_SIZE - 1 : rest[i] \in Nat \cup {Junk}
    OBVIOUS
  <2>2. \/ left > 0 /\ virt_map_page(vaddr, PAGE_SMALL_SIZE, zeros, "stack")
        \/ virt_map_page(ContextBase, PAGE_SMALL_SIZE, rest, "done")
    BY Zenon DEF MapStack
  <2> HIDE DEF zeros, rest
  <2>3. CASE left > 0 /\ virt_map_page(vaddr, PAGE_SMALL_SIZE, zeros, "stack")
    <3>1. vaddr \in Nat /\ vaddr < USER_END
      BY <1>1, <2>3, StackFacts
    <3>2. at' = "stack" /\ \A x \in Mapped : x \in Mapped' /\ byte'[x] = byte[x]
      BY <1>4, <2>1, <2>3, <3>1
    <3> QED
      BY <3>2
  <2>4. CASE virt_map_page(ContextBase, PAGE_SMALL_SIZE, rest, "done")
    <3>1. ContextBase \in Nat /\ ContextBase < USER_END
      BY <1>1, StackFacts
    <3>2. at' = "done" /\ \A x \in Mapped : x \in Mapped' /\ byte'[x] = byte[x]
      BY <1>4, <2>1, <2>4, <3>1
    <3> QED
      BY <3>2
  <2> QED
    BY <2>2, <2>3, <2>4
<1>6. \A n \in Loads(file) : n < seg => InPlace(file.segments[n], file.segments[n].memsz)'
  BY <1>1, <1>3, <1>5, InPlaceStays
<1>7. Loads(file)' = Loads(file) /\ Passed' = seg
  BY <1>1, <1>5 DEF Loads, Passed
<1> QED
  BY <1>1, <1>3, <1>5, <1>6, <1>7 DEF ImageInv


\* The address has kept up with the pages, or the next page would be in the way.
LEMMA InStep ==
    ASSUME PlacesInv, at = "pages", CurrentInv, AsLinked(file),
           NEW s, s = Current, NEW z, z = page_size(s), NEW m, m = num_pages(s) - left,
           InTheWay([base |-> Base(vaddr, z), size |-> z]) = {}
    PROVE  /\ m \in Nat /\ m * z \in Nat /\ m * z <= s.filesz
           /\ vaddr = s.vaddr + m * z /\ Base(vaddr, z) = vaddr
           /\ amount_left = s.filesz - m * z /\ load_offset = s.offset + m * z
           /\ vaddr + amount_left < USER_END
<1>1. WhereOK /\ PagesOK /\ seg - 1 \in DOMAIN file.segments /\ file \in Files
  BY CurrentFacts DEF PlacesInv, WhereOK
<1>2. /\ s.offset \in Nat /\ s.vaddr \in Nat /\ s.filesz \in Nat /\ s.memsz \in Nat
      /\ z \in Nat \ {0} /\ z \in Sizes /\ num_pages(s) \in Nat
  BY <1>1, SegmentFacts DEF Current
<1>0. seg - 1 \in Loads(file) /\ Canonical(s)
  <2>1. seg - 1 \in Loads(file)
    BY <1>1 DEF WhereOK, Loads, Current
  <2> QED
    BY <2>1 DEF AsLinked, Current
<1>3. /\ left \in 1 .. num_pages(s)
      /\ vaddr \in Nat /\ amount_left \in Nat /\ load_offset \in Nat
      /\ vaddr + amount_left = s.vaddr + s.filesz
      /\ load_offset + amount_left = s.offset + s.filesz
      /\ vaddr < USER_END /\ vaddr + amount_left < USER_END
  BY <1>0, <1>1, CurrentFacts DEF WhereOK
<1>4. m \in Nat
  BY <1>2, <1>3, SMT
<1>5. m * z \in Nat
  BY <1>2, <1>4, SMT
<1>6. /\ \A k \in 0 .. m - 1 : [base |-> s.vaddr + k * z, size |-> z] \in pages
      /\ vaddr = s.vaddr + LessOf(m * z, s.filesz)
  BY DEF CurrentInv
<1>7. s.vaddr % z = 0
  BY <1>0 DEF AsLinked, Current
<1>8. m * z <= s.filesz
  <2> SUFFICES ASSUME s.filesz < m * z PROVE FALSE
    BY <1>2, <1>5, SMT
  <2>1. vaddr = s.vaddr + s.filesz
    BY <1>2, <1>5, <1>6, SMT DEF LessOf
  <2>2. PICK k \in Nat : s.filesz = k * z + (s.filesz % z)
    BY <1>2, Multiple
  <2>3. s.filesz % z \in 0 .. z - 1
    BY <1>2, Multiple
  <2>4. k * z \in Nat
    BY <1>2, SMT
  <2>5. k * z <= s.filesz /\ s.filesz < k * z + z
    BY <1>2, <2>2, <2>3, <2>4, SMT
  <2>6. k < m
    <3> SUFFICES ASSUME m <= k PROVE FALSE
      BY <1>4, SMT
    <3>1. (k - m) * z >= 0 /\ k * z = m * z + (k - m) * z
      BY <1>2, <1>4, SMT
    <3> QED
      BY <1>2, <1>5, <2>4, <2>5, <3>1, SMT
  <2> DEFINE q == [base |-> s.vaddr + k * z, size |-> z]
             p == [base |-> Base(vaddr, z), size |-> z]
  <2>7. q \in pages /\ PageOK(q) /\ PageOK(p)
    <3>1. k \in 0 .. m - 1
      BY <1>4, <2>6, SMT
    <3>2. q \in pages
      BY <1>6, <3>1
    <3> QED
      BY <1>1, <1>2, <1>3, <3>2, PageAt DEF PagesOK, UserPage
  <2>8. vaddr \in Span(p) /\ vaddr \in Span(q)
    <3>1. Base(vaddr, z) \in Nat /\ Base(vaddr, z) <= vaddr /\ vaddr < Base(vaddr, z) + z
      BY <1>2, <1>3, BaseOf
    <3>2. s.vaddr + k * z <= vaddr /\ vaddr < (s.vaddr + k * z) + z
      BY <1>2, <2>1, <2>4, <2>5, SMT
    <3>3. vaddr \in Base(vaddr, z) .. Base(vaddr, z) + z - 1
      BY <1>2, <1>3, <3>1, SMT
    <3>4. vaddr \in s.vaddr + k * z .. (s.vaddr + k * z) + z - 1
      BY <1>2, <1>3, <2>4, <3>2, SMT
    <3> QED
      BY <3>3, <3>4 DEF Span
  <2>9. p.size = z /\ q.size = z /\ z <= z
    BY <1>2, SMT
  <2> HIDE DEF p, q
  <2>10. Span(q) \cap Span(p) # {} /\ p.size <= q.size
    BY <2>8, <2>9
  <2>11. p.base \in Span(q)
    BY <2>7, <2>10, Nested
  <2>12. q \in InTheWay(p)
    BY <2>7, <2>9, <2>11 DEF InTheWay
  <2> QED
    BY <2>12 DEF p
<1>9. vaddr = s.vaddr + m * z
  BY <1>2, <1>5, <1>6, <1>8, SMT DEF LessOf
<1>10. Base(vaddr, z) = vaddr
  <2>1. Base(s.vaddr, z) = s.vaddr
    BY <1>2, <1>7, BaseOf
  <2>2. PICK v \in Nat : v = s.vaddr
    BY <1>2
  <2>3. Base(v + m * z, z) = Base(v, z) + m * z
    BY <1>2, <1>4, BaseMoves
  <2> QED
    BY <1>9, <2>1, <2>2, <2>3, Zenon
<1>11. amount_left = s.filesz - m * z /\ load_offset = s.offset + m * z
  <2>1. PICK a \in Nat : a = m * z
    BY <1>5
  <2>2. PICK f \in Nat, w \in Nat, g \in Nat : f = s.filesz /\ w = s.vaddr /\ g = s.offset
    BY <1>2
  <2>3. vaddr \in Nat /\ amount_left \in Nat /\ load_offset \in Nat
    BY <1>3
  <2>4. vaddr + amount_left = w + f /\ load_offset + amount_left = g + f /\ vaddr = w + a
    BY <1>3, <1>9, <2>1, <2>2
  <2>5. amount_left = f - a /\ load_offset = g + a
    BY <2>3, <2>4, SMT
  <2> QED
    BY <2>1, <2>2, <2>5
<1> QED
  BY <1>3, <1>4, <1>5, <1>8, <1>9, <1>10, <1>11

LEMMA ImageLoad ==
    ASSUME PlacesInv, ImageInv, LoadPage,
           NEW s, s = Current, NEW z, z = page_size(s), NEW m, m = num_pages(s) - left,
           NEW p, p = [base |-> Base(vaddr, z), size |-> z]
    PROVE  ImageInv'
<1> DEFINE copied == LessOf(z, amount_left)
           next == IF left = 1 THEN "headers" ELSE "pages"
<1>1. /\ at = "pages" /\ left > 0
      /\ virt_map_page(vaddr, z, Loaded(z, copied), next)
      /\ vaddr' = (vaddr + copied) % ADDRESSES /\ left' = left - 1
      /\ UNCHANGED <<file, seg, result>>
  BY Zenon DEF LoadPage, Current
<1>2. PagesOK /\ WhereOK /\ file \in Files
  BY DEF PlacesInv, WhereOK
<1>3. SUFFICES ASSUME AsLinked(file), at' # "panic" PROVE ImageInv'
  <2>1. result' = "none"
    BY <1>1, <1>2 DEF WhereOK
  <2> QED
    BY <1>1, <2>1 DEF ImageInv, AsLinked, Canonical, Loads, page_size
<1>4. /\ s.offset \in Nat /\ s.vaddr \in Nat /\ s.filesz \in Nat /\ s.memsz \in Nat
      /\ z \in Sizes /\ z \in Nat \ {0} /\ num_pages(s) \in Nat
      /\ s.memsz < num_pages(s) * z
      /\ seg - 1 \in DOMAIN file.segments /\ seg - 1 \in Nat /\ left \in 1 .. num_pages(s)
      /\ vaddr \in Nat /\ amount_left \in Nat
  BY <1>1, <1>2, CurrentFacts, SegmentFacts DEF Current, WhereOK
<1>5. /\ at' = next /\ PageOK(p) /\ InTheWay(p) = {}
      /\ pages' = (pages \ Replaced(p)) \cup {p}
      /\ \A x \in Span(p) : x \in Mapped' /\ byte'[x] = Loaded(z, copied)[x - p.base]
      /\ \A q \in pages \ Replaced(p) : \A x \in Span(q) :
             x \in Mapped' /\ byte'[x] = byte[x]
  <2>1. next # "panic"
    OBVIOUS
  <2>2. Canonical(Current)
    <3>1. seg - 1 \in Loads(file)
      BY <1>1, <1>2, <1>4 DEF WhereOK, Loads, Current
    <3> QED
      BY <1>3, <3>1 DEF AsLinked, Current
  <2>3. Translated(vaddr) = vaddr
    BY <1>1, <1>2, <1>4, <2>2, CurrentFacts, PageAt
  <2> HIDE DEF next, copied
  <2> QED
    BY <1>1, <1>2, <1>3, <2>1, <2>3, CurrentFacts, MapsPage
<1>6. CurrentInv
  BY <1>1, <1>3 DEF ImageInv
<1>7. /\ m \in Nat /\ m * z \in Nat /\ m * z <= s.filesz
      /\ vaddr = s.vaddr + m * z /\ Base(vaddr, z) = vaddr
      /\ amount_left = s.filesz - m * z /\ load_offset = s.offset + m * z
      /\ vaddr + amount_left < USER_END
  BY <1>1, <1>3, <1>5, <1>6, InStep
<1>8. /\ InPlace(s, m * z)
      /\ \A k \in 0 .. m - 1 : [base |-> s.vaddr + k * z, size |-> z] \in pages
  BY <1>6 DEF CurrentInv
<1>9. /\ p.base = s.vaddr + m * z /\ p.size = z
      /\ p = [base |-> s.vaddr + m * z, size |-> z]
  BY <1>7
<1>10. Current' = s /\ page_size(Current)' = z
  BY <1>1 DEF Current, page_size
<1>11. \A x \in Mapped : x < p.base => x \in Mapped' /\ byte'[x] = byte[x]
  BY <1>2, <1>5, BelowStays
<1>12. \A i \in 0 .. z - 1 : Loaded(z, copied)[i] =
           IF m * z + i < s.filesz THEN s.offset + (m * z + i) ELSE 0
  <2> SUFFICES ASSUME NEW i \in 0 .. z - 1
               PROVE  Loaded(z, copied)[i] =
                          IF m * z + i < s.filesz THEN s.offset + (m * z + i) ELSE 0
    OBVIOUS
  <2>1. Loaded(z, copied)[i] = IF i < copied THEN load_offset + i ELSE 0
    BY Zenon DEF Loaded
  <2> DEFINE a == m * z
  <2>2. a \in Nat /\ amount_left = s.filesz - a /\ load_offset = s.offset + a /\ a <= s.filesz
    BY <1>7
  <2> HIDE DEF a
  <2>3. i < copied <=> a + i < s.filesz
    BY <1>4, <2>2, SMT DEF LessOf
  <2>4. load_offset + i = s.offset + (a + i)
    BY <1>4, <2>2, SMT
  <2> QED
    BY <2>1, <2>3, <2>4 DEF a
<1> HIDE DEF copied, next
<1>13. (m + 1) * z \in Nat /\ (m + 1) * z = m * z + z
  BY <1>4, <1>7, SMT
<1>14. InPlace(s, (m + 1) * z)'
  <2> SUFFICES ASSUME NEW i \in 0 .. (m + 1) * z - 1
               PROVE  /\ s.vaddr + i \in Mapped'
                      /\ byte'[s.vaddr + i] = IF i < s.filesz THEN s.offset + i ELSE 0
    BY DEF InPlace
  <2>1. CASE i < m * z
    <3>1. /\ s.vaddr + i \in Mapped
          /\ byte[s.vaddr + i] = IF i < s.filesz THEN s.offset + i ELSE 0
      BY <1>7, <1>8, <1>13, <2>1, SMT DEF InPlace
    <3>2. s.vaddr + i < p.base
      BY <1>4, <1>7, <1>9, <1>13, <2>1, SMT
    <3> QED
      BY <1>11, <3>1, <3>2
  <2>2. CASE m * z <= i
    <3> DEFINE j == i - m * z
    <3>1. j \in 0 .. z - 1 /\ m * z + j = i
      BY <1>4, <1>7, <1>13, <2>2, SMT
    <3>2. s.vaddr + i \in Span(p) /\ (s.vaddr + i) - p.base = j
      <4>1. \A v, a, k, y \in Nat : k \in 0 .. y - 1 =>
                /\ v + (a + k) \in v + a .. (v + a) + y - 1
                /\ (v + (a + k)) - (v + a) = k
        BY SMT
      <4>2. j \in Nat
        BY <1>4, <3>1, SMT
      <4> HIDE DEF j
      <4>3. /\ s.vaddr + (m * z + j) \in s.vaddr + m * z .. (s.vaddr + m * z) + z - 1
            /\ (s.vaddr + (m * z + j)) - (s.vaddr + m * z) = j
        <5>1. PICK v \in Nat, a \in Nat, y \in Nat : v = s.vaddr /\ a = m * z /\ y = z
          BY <1>4, <1>7
        <5> QED
          BY <3>1, <4>1, <4>2, <5>1
      <4> QED
        BY <1>9, <3>1, <4>3, Zenon DEF Span
    <3> HIDE DEF j
    <3> QED
      BY <1>5, <1>12, <3>1, <3>2
  <2> QED
    BY <1>4, <1>7, <1>13, <2>1, <2>2, SMT
<1>15. \A n \in Loads(file) : n < seg - 1 => InPlace(file.segments[n], file.segments[n].memsz)'
  <2> SUFFICES ASSUME NEW n \in Loads(file), n < seg - 1
               PROVE  InPlace(file.segments[n], file.segments[n].memsz)'
    BY <1>1 DEF InPlace
  <2>0. PICK t : t = file.segments[n]
    OBVIOUS
  <2>1. n \in DOMAIN file.segments /\ seg - 1 \in Loads(file)
    BY <1>1, <1>2, <1>4 DEF Loads, WhereOK, Current
  <2>2. t.vaddr \in Nat /\ t.memsz \in Nat
    BY <1>2, <2>0, <2>1, SegmentFacts
  <2>3. t.vaddr + t.memsz <= s.vaddr
    BY <1>3, <2>0, <2>1 DEF AsLinked, Current
  <2>4. InPlace(t, t.memsz)
    BY <1>1, <1>3, <2>0 DEF ImageInv, Passed
  <2>5. \A i \in 0 .. t.memsz - 1 : t.vaddr + i < p.base
    BY <1>4, <1>7, <1>9, <2>2, <2>3, SMT
  <2>6. InPlace(t, t.memsz)'
    BY <1>11, <2>4, <2>5 DEF InPlace
  <2> QED
    BY <1>1, <2>0, <2>6 DEF InPlace
<1>16. Loads(file)' = Loads(file) /\ Loads(file) \subseteq Nat
  <2>1. file.segments \in Seq(Segment)
    BY <1>2, ElfAssumption
  <2> QED
    BY <1>1, <2>1 DEF Loads
<1>17. at' = "pages" => CurrentInv'
  <2> SUFFICES ASSUME at' = "pages" PROVE CurrentInv'
    OBVIOUS
  <2>1. (num_pages(Current) - left)' = m + 1 /\ page_size(Current)' = z /\ Current' = s
    <3>1. num_pages(s) - (left - 1) = (num_pages(s) - left) + 1
      BY <1>4, SMT
    <3>2. num_pages(Current)' = num_pages(s)
      BY <1>10 DEF num_pages, page_size
    <3> QED
      BY <1>1, <1>10, <3>1, <3>2
  <2>2. InPlace(Current, (num_pages(Current) - left) * page_size(Current))'
    BY <1>1, <1>14, <2>1 DEF InPlace
  <2>3. ASSUME NEW k \in 0 .. (m + 1) - 1
        PROVE  [base |-> s.vaddr + k * z, size |-> z] \in pages'
    <3>1. CASE k = m
      BY <1>5, <1>9, <3>1
    <3>2. CASE k \in 0 .. m - 1
      <4> DEFINE q == [base |-> s.vaddr + k * z, size |-> z]
      <4>1. q \in pages /\ q.size = z
        BY <1>8, <3>2
      <4>2. q \notin Replaced(p)
        <5>1. ~(z < z)
          BY <1>4, SMT
        <5> QED
          BY <1>9, <4>1, <5>1 DEF Replaced
      <4> QED
        BY <1>5, <4>1, <4>2
    <3> QED
      BY <1>7, <3>1, <3>2, SMT
  <2>4. vaddr' = s.vaddr + LessOf((m + 1) * z, s.filesz)
    <3>1. /\ vaddr + copied \in Nat /\ vaddr + copied < USER_END
          /\ vaddr + copied = s.vaddr + LessOf((m + 1) * z, s.filesz)
      BY <1>4, <1>7, <1>13, SizeFacts, SMT DEF LessOf, copied
    <3>2. vaddr + copied < ADDRESSES
      BY <3>1, SizeFacts, SMT
    <3> QED
      BY <1>1, <3>1, <3>2, SizeFacts, BelowBound
  <2>5. (\A k \in 0 .. (num_pages(Current) - left) - 1 :
             [base |-> Current.vaddr + k * page_size(Current),
              size |-> page_size(Current)] \in pages)'
    BY <2>1, <2>3
  <2>6. (vaddr = Current.vaddr
            + LessOf((num_pages(Current) - left) * page_size(Current), Current.filesz))'
    BY <1>1, <2>1, <2>4 DEF LessOf
  <2> QED
    BY <2>2, <2>5, <2>6, Zenon DEF CurrentInv
<1>18. at' = "headers" => InPlace(s, s.memsz)'
  <2> SUFFICES ASSUME at' = "headers" PROVE InPlace(s, s.memsz)'
    OBVIOUS
  <2>1. left = 1
    BY <1>5 DEF next
  <2>2. m + 1 = num_pages(s)
    BY <1>4, <2>1, SMT
  <2>3. s.memsz < (m + 1) * z
    BY <1>4, <2>2
  <2>4. 0 .. s.memsz - 1 \subseteq 0 .. (m + 1) * z - 1
    BY <1>4, <1>13, <2>3, SMT
  <2> QED
    BY <1>14, <2>4 DEF InPlace
<1>19. CASE at' = "pages"
  <2>1. Passed' = seg - 1 /\ result' = "none"
    BY <1>1, <1>2, <1>19 DEF Passed, WhereOK
  <2> QED
    BY <1>1, <1>15, <1>16, <1>17, <1>19, <2>1 DEF ImageInv
<1>20. CASE at' = "headers"
  <2>1. Passed' = seg /\ result' = "none"
    BY <1>1, <1>2, <1>20 DEF Passed, WhereOK
  <2>2. \A n \in Loads(file) : n < seg => n < seg - 1 \/ n = seg - 1
    BY <1>2, <1>4, <1>16, SMT DEF WhereOK
  <2>3. InPlace(file.segments[seg - 1], file.segments[seg - 1].memsz)'
    BY <1>1, <1>18, <1>20 DEF Current, InPlace
  <2> QED
    BY <1>1, <1>15, <1>16, <1>20, <2>1, <2>2, <2>3 DEF ImageInv
<1> QED
  BY <1>5, <1>19, <1>20 DEF next


LEMMA ImageStep ==
    ASSUME PlacesInv, ImageInv, [LoaderNext]_loader_vars
    PROVE  ImageInv'
<1>1. CASE UNCHANGED loader_vars
  <2>1. /\ UNCHANGED <<file, at, seg, left, vaddr, result, pages, byte>>
        /\ Mapped' = Mapped
    BY <1>1 DEF loader_vars, Mapped, Span
  <2> QED
    BY <2>1 DEF ImageInv, AsLinked, Canonical, Loads, Passed, CurrentInv, Current, InPlace,
                page_size, num_pages, LessOf
<1>2. CASE LoadPage
  <2>1. PICK s, z, m, p : /\ s = Current /\ z = page_size(s) /\ m = num_pages(s) - left
                          /\ p = [base |-> Base(vaddr, z), size |-> z]
    OBVIOUS
  <2> QED
    BY <1>2, <2>1, ImageLoad
<1> QED
  BY <1>1, <1>2, ImageHeader, ImageNext, ImageStack DEF LoaderNext

LEMMA ImageFollows == PlacesInv /\ ImageInv => ImageLoaded
<1> SUFFICES ASSUME PlacesInv, ImageInv, result = "NO_ERROR", AsLinked(file),
                    NEW n \in Loads(file)
             PROVE  InPlace(file.segments[n], file.segments[n].memsz)
  BY DEF ImageLoaded, InPlace
<1>1. at = "done" /\ seg > Len(file.segments) /\ file \in Files
  BY DEF PlacesInv, WhereOK, ImageInv
<1>2. file.segments \in Seq(Segment) /\ n \in 1 .. Len(file.segments)
  BY <1>1, ElfAssumption DEF Loads
<1>3. Len(file.segments) \in Nat /\ seg \in Nat
  BY <1>2 DEF PlacesInv, WhereOK
<1>4. n < Passed
  BY <1>1, <1>2, <1>3, SMT DEF Passed
<1> QED
  BY <1>4 DEF ImageInv

LEMMA TypesHold == PlacesInv => LoaderTypeOK /\ UserOnly
<1> SUFFICES ASSUME PlacesInv PROVE LoaderTypeOK /\ UserOnly
  OBVIOUS
<1>1. file.segments \in Seq(Segment)
  BY ElfAssumption DEF PlacesInv, WhereOK
<1>2. seg \in Nat
  BY <1>1, SMT DEF PlacesInv, WhereOK
<1>3. LoaderTypeOK
  <2>1. vaddr \in Nat /\ vaddr < ADDRESSES /\ ADDRESSES \in Nat
    BY SizeFacts DEF PlacesInv, WhereOK
  <2>2. vaddr \in 0 .. ADDRESSES - 1
    BY <2>1, SMT
  <2> QED
    BY <1>2, <2>2 DEF PlacesInv, WhereOK, PagesOK, PageOK, Sizes, LoaderTypeOK
<1>4. UserOnly
  BY DEF PlacesInv
<1> QED
  BY <1>3, <1>4

LEMMA HeaderHarmless == HeaderInv => HeaderErrorsHarmless
BY DEF HeaderInv, HeaderErrorsHarmless

-----------------------------------------------------------------------------
(* A program with room for its pages is loaded *)

AllPages(f) == UNION {PagesOf(f, n) : n \in Loads(f) \cup {0}}

LEMMA LoadsFacts ==
    ASSUME NEW f \in Files, NEW n \in Loads(f)
    PROVE  /\ n \in DOMAIN f.segments /\ n \in Nat /\ n # 0 /\ n <= Len(f.segments)
           /\ PagesOf(f, n) = FirstPages(f.segments[n], num_pages(f.segments[n]))
<1>1. f.segments \in Seq(Segment)
  BY ElfAssumption
<1>2. n \in 1 .. Len(f.segments) /\ Len(f.segments) \in Nat
  BY <1>1 DEF Loads
<1>3. n \in Nat /\ n # 0 /\ n <= Len(f.segments)
  BY <1>2, SMT
<1> QED
  BY <1>1, <1>2, <1>3 DEF PagesOf, Loads

\* The pages of a segment are pages of the user's part, one behind the other.
LEMMA SegmentPages ==
    ASSUME NEW f \in Files, Fits(f), NEW n \in Loads(f),
           NEW s, s = f.segments[n], NEW z, z = page_size(s),
           NEW k \in 0 .. num_pages(s) - 1
    PROVE  /\ [base |-> Base(s.vaddr, z) + k * z, size |-> z] \in PagesOf(f, n)
           /\ UserPage([base |-> Base(s.vaddr, z) + k * z, size |-> z])
           /\ k * z \in Nat /\ Base(s.vaddr, z) + k * z \in Nat
<1>1. /\ s.vaddr \in Nat /\ s.memsz \in Nat /\ z \in Nat \ {0} /\ z \in Sizes
      /\ num_pages(s) \in Nat \ {0} /\ (num_pages(s) - 1) * z \in Nat
      /\ (num_pages(s) - 1) * z <= s.memsz
  BY LoadsFacts, SegmentFacts
<1>2. s.vaddr + s.memsz < USER_END /\ USER_END \in Nat
  BY SizeFacts DEF Fits
<1>3. /\ k \in Nat /\ (num_pages(s) - 1) - k \in Nat
      /\ num_pages(s) - 1 = k + ((num_pages(s) - 1) - k)
  BY <1>1, SMT
<1>4. /\ k * z \in Nat /\ (Base(s.vaddr, z) + k * z) % z = 0
      /\ Base(s.vaddr, z) \in Nat /\ Base(s.vaddr, z) <= s.vaddr
  <2>1. PICK v \in Nat : v = s.vaddr
    BY <1>1
  <2>2. k * z \in Nat /\ (Base(v, z) + k * z) % z = 0
    BY <1>1, <1>3, BaseMoves
  <2>3. Base(v, z) \in Nat /\ Base(v, z) <= v
    BY <1>1, BaseOf
  <2> QED
    BY <2>1, <2>2, <2>3
<1>5. k * z <= (num_pages(s) - 1) * z
  <2>1. PICK r \in Nat : num_pages(s) - 1 = k + r
    BY <1>3
  <2>2. (k + r) * z = k * z + r * z /\ r * z \in Nat
    BY <1>1, <1>3, SMT
  <2> QED
    BY <1>4, <2>1, <2>2, SMT
<1>6. Base(s.vaddr, z) + k * z < USER_END /\ Base(s.vaddr, z) + k * z \in Nat
  BY <1>1, <1>2, <1>4, <1>5, SMT
<1>7. (Base(s.vaddr, z) + k * z) + z <= USER_END
  BY <1>1, <1>2, <1>4, <1>6, SizeFacts, Spaced
<1>8. [base |-> Base(s.vaddr, z) + k * z, size |-> z] \in PagesOf(f, n)
  BY LoadsFacts DEF FirstPages
<1> QED
  BY <1>1, <1>4, <1>6, <1>7, <1>8 DEF UserPage, PageOK

LEMMA StackPage ==
    ASSUME NEW k \in 0 .. StackPages - 1
    PROVE  /\ [base |-> StackBase + k * PAGE_SMALL_SIZE, size |-> PAGE_SMALL_SIZE] \in OwnPages
           /\ UserPage([base |-> StackBase + k * PAGE_SMALL_SIZE, size |-> PAGE_SMALL_SIZE])
           /\ k * PAGE_SMALL_SIZE \in Nat
           /\ StackBase + k * PAGE_SMALL_SIZE \in StackBase .. StackBase + StackPages * PAGE_SMALL_SIZE - 1
           /\ (StackBase + k * PAGE_SMALL_SIZE) + PAGE_SMALL_SIZE
                    <= StackBase + StackPages * PAGE_SMALL_SIZE
<1>1. /\ StackBase \in Nat /\ StackPages \in Nat /\ PAGE_SMALL_SIZE \in Nat \ {0}
      /\ StackBase % PAGE_SMALL_SIZE = 0 /\ USER_END \in Nat
      /\ StackBase + StackPages * PAGE_SMALL_SIZE <= USER_END
  BY ElfAssumption
<1>2. PICK r \in Nat : StackPages = (k + 1) + r
  <2>1. StackPages - (k + 1) \in Nat /\ StackPages = (k + 1) + (StackPages - (k + 1))
    BY <1>1, SMT
  <2> QED
    BY <2>1
<1>3. k \in Nat
  BY <1>1, SMT
<1> DEFINE S == PAGE_SMALL_SIZE
<1>4. /\ k * S \in Nat /\ r * S \in Nat /\ ((k + 1) + r) * S = (k * S + S) + r * S
  BY <1>1, <1>3, SMT
<1>5. (StackBase + k * S) % S = 0
  <2>1. Base(StackBase, S) = StackBase
    BY <1>1, BaseOf
  <2>2. (Base(StackBase, S) + k * S) % S = 0
    BY <1>1, <1>3, BaseMoves
  <2> QED
    BY <2>1, <2>2, Zenon
<1>6. StackPages * S = (k * S + S) + r * S
  BY <1>2, <1>4
<1>7. /\ StackBase + k * S \in Nat
      /\ StackBase + k * S \in StackBase .. StackBase + StackPages * S - 1
      /\ (StackBase + k * S) + S <= StackBase + StackPages * S
      /\ (StackBase + k * S) + S <= USER_END
  BY <1>1, <1>4, <1>6, SMT
<1>8. [base |-> StackBase + k * S, size |-> S] \in OwnPages
  BY DEF OwnPages
<1> QED
  BY <1>4, <1>5, <1>7, <1>8 DEF UserPage, PageOK, Sizes

LEMMA ContextPage ==
    /\ [base |-> ContextBase, size |-> PAGE_SMALL_SIZE] \in OwnPages
    /\ UserPage([base |-> ContextBase, size |-> PAGE_SMALL_SIZE])
<1>1. /\ ContextBase \in Nat /\ ContextBase < USER_END /\ USER_END \in Nat
      /\ PAGE_SMALL_SIZE \in Nat \ {0} /\ ContextBase % PAGE_SMALL_SIZE = 0
      /\ USER_END % PAGE_SMALL_SIZE = 0 /\ PAGE_SMALL_SIZE \in Sizes
  BY ElfAssumption, SizeFacts DEF Sizes
<1>2. ContextBase + PAGE_SMALL_SIZE <= USER_END
  BY <1>1, Spaced
<1> QED
  BY <1>1, <1>2 DEF OwnPages, UserPage, PageOK

LEMMA AllOK ==
    ASSUME NEW f \in Files, Fits(f), NEW p \in AllPages(f)
    PROVE  PageOK(p) /\ p.base + p.size <= USER_END
<1> USE DEF UserPage
<1>1. PICK n \in Loads(f) \cup {0} : p \in PagesOf(f, n)
  BY DEF AllPages
<1>2. CASE n = 0
  BY <1>1, <1>2, StackPage, ContextPage DEF PagesOf, OwnPages
<1>3. CASE n \in Loads(f)
  <2>1. PICK s, z : s = f.segments[n] /\ z = page_size(s)
    OBVIOUS
  <2>2. PICK k \in 0 .. num_pages(s) - 1 : p = [base |-> Base(s.vaddr, z) + k * z, size |-> z]
    BY <1>1, <1>3, <2>1, LoadsFacts DEF FirstPages
  <2> QED
    BY <1>3, <2>1, <2>2, SegmentPages
<1> QED
  BY <1>2, <1>3

\* There is memory for a page that is not mapped yet.
LEMMA MemoryLeft ==
    ASSUME NEW f \in Files, Fits(f), NEW T \in SUBSET AllPages(f),
           NEW p \in AllPages(f) \ T
    PROVE  LET c == Cardinality({q \in T : q.size = p.size})
           IN  c \in Nat /\ c < IF p.size = PAGE_LARGE_SIZE THEN LargeMemory ELSE Memory
<1> DEFINE A == {q \in AllPages(f) : q.size = p.size}
           C == {q \in T : q.size = p.size}
           g == [q \in A |-> q.base]
<1>1. USER_END \in Nat /\ Memory \in Nat /\ LargeMemory \in Nat
  BY ElfAssumption
<1>2. IsFiniteSet(A)
  <2>1. IsFiniteSet(0 .. USER_END)
    BY <1>1, FS_Interval
  <2>2. ASSUME NEW q \in A PROVE q.base \in 0 .. USER_END
    <3>1. PageOK(q) /\ q.base + q.size <= USER_END
      BY AllOK
    <3> QED
      BY <1>1, <3>1, SizeFacts, SMT DEF PageOK, Sizes
  <2>3. ASSUME NEW q \in A, NEW r \in A, q.base = r.base PROVE q = r
    <3>1. PageOK(q) /\ PageOK(r) /\ q.size = r.size
      BY AllOK
    <3> QED
      BY <2>3, <3>1, Zenon DEF PageOK
  <2>4. g \in [A -> 0 .. USER_END]
    BY <2>2
  <2>5. \A q, r \in A : g[q] = g[r] => q = r
    BY <2>3
  <2>6. g \in Injection(A, 0 .. USER_END)
    BY <2>4, <2>5 DEF Injection, IsInjective
  <2> QED
    BY <2>1, <2>6, FS_Injection
<1>3. p \in A /\ C \subseteq A \ {p}
  OBVIOUS
<1>4. Cardinality(A) \in Nat
  BY <1>2, FS_CardinalityType
<1>5. IsFiniteSet(A \ {p}) /\ Cardinality(A \ {p}) = Cardinality(A) - 1
  BY <1>2, <1>3, FS_RemoveElement
<1>6. IsFiniteSet(C) /\ Cardinality(C) <= Cardinality(A) - 1 /\ Cardinality(C) \in Nat
  BY <1>3, <1>5, FS_Subset, FS_CardinalityType
<1>7. p.size \in Sizes
  BY AllOK DEF PageOK
<1>8. Cardinality(A) <= IF p.size = PAGE_LARGE_SIZE THEN LargeMemory ELSE Memory
  BY <1>7, SizeFacts DEF Fits, AllPages, Sizes
<1> HIDE DEF A, C
<1>9. Cardinality(C) < IF p.size = PAGE_LARGE_SIZE THEN LargeMemory ELSE Memory
  BY <1>1, <1>4, <1>6, <1>8, SMT
<1> QED
  BY <1>6, <1>9 DEF C


\* A page of the program is mapped when it is apart from those there are.
LEMMA Placed ==
    ASSUME PlacesInv, Fits(file), NEW p \in AllPages(file), pages \subseteq AllPages(file),
           \A q \in pages : Span(q) \cap Span(p) = {},
           NEW a \in Nat, a < USER_END, NEW z, NEW h, NEW next,
           p = [base |-> Base(a, z), size |-> z], virt_map_page(a, z, h, next)
    PROVE  at' = next /\ pages' \subseteq pages \cup {p}
<1>1. file \in Files /\ PageOK(p) /\ p.base + p.size <= USER_END /\ p.size = z
  BY AllOK DEF PlacesInv, WhereOK
<1>2. p.base \in Span(p)
  BY <1>1, SizeFacts, SMT DEF Span, PageOK, Sizes
<1>5. \A q \in KernelPages : p.base \notin Span(q)
  <2> SUFFICES ASSUME NEW q \in KernelPages PROVE p.base \notin Span(q)
    OBVIOUS
  <2>1. q.base \in USER_END .. TRANSLATED - 1 /\ q.size \in Nat
    BY ElfAssumption
  <2>2. p.base \in Nat /\ p.size \in Nat \ {0}
    BY <1>1, SizeFacts DEF PageOK, Sizes
  <2> QED
    BY <1>1, <2>1, <2>2, SizeFacts, SMT DEF Span
<1>3. InTheWay(p) = {} /\ p \notin pages
  BY <1>2, <1>5 DEF InTheWay
<1>6. p = [base |-> Base(Translated(a), z), size |-> z]
  <2>1. z \in Sizes
    BY <1>1 DEF PageOK
  <2> QED
    BY <2>1, PageAt
<1>4. ~Exhausted(z)
  <2>1. /\ Count(z) \in Nat
        /\ Count(z) < IF z = PAGE_LARGE_SIZE THEN LargeMemory ELSE Memory
    BY <1>1, <1>3, MemoryLeft DEF Count
  <2>2. Memory \in Nat /\ LargeMemory \in Nat
    BY ElfAssumption
  <2> QED
    BY <2>1, <2>2, SMT DEF Exhausted
<1> QED
  BY <1>3, <1>4, <1>6, Zenon DEF virt_map_page

\* While the program is loaded, the pages are those of the segments passed and
\* the first of the current segment or of the stack.
BackedInv ==
    Fits(file) /\ FileBacked(file) =>
        /\ at # "panic" /\ result # "BAD_VADDR"
        /\ at = "start" => seg = 1
        /\ at \in {"headers", "pages", "stack"} => \A p \in pages :
               \/ \E n \in Loads(file) : n < Passed /\ p \in PagesOf(file, n)
               \/ /\ at = "pages"
                  /\ \E k \in 0 .. (num_pages(Current) - left) - 1 :
                         p = [base |-> Base(Current.vaddr, page_size(Current))
                                           + k * page_size(Current),
                              size |-> page_size(Current)]
               \/ /\ at = "stack"
                  /\ \E k \in 0 .. (StackPages - left) - 1 :
                         p = [base |-> StackBase + k * PAGE_SMALL_SIZE,
                              size |-> PAGE_SMALL_SIZE]
        /\ at = "pages" =>
               vaddr = Current.vaddr + (num_pages(Current) - left) * page_size(Current)

LEMMA SameFile ==
    ASSUME file' = file
    PROVE  Fits(file)' = Fits(file) /\ FileBacked(file)' = FileBacked(file)
<1>1. Fits(file)' = Fits(file)
  OBVIOUS
<1>2. FileBacked(file)' = FileBacked(file)
  OBVIOUS
<1> QED
  BY <1>1, <1>2

LEMMA BackedStart == LoaderInit => BackedInv
BY DEF LoaderInit, LoaderBegin, BackedInv

LEMMA BackedHeader == ASSUME PlacesInv, BackedInv, CheckHeader PROVE BackedInv'
<1>1. SUFFICES ASSUME Fits(file), FileBacked(file) PROVE BackedInv'
  BY SameFile DEF BackedInv, CheckHeader
<1>2. file.header = "ok" /\ file.entry # 0 /\ at = "start" /\ seg = 1
  BY <1>1 DEF Fits, CheckHeader, BackedInv
<1>3. at' = "headers" /\ pages' = {} /\ result' = result
  BY <1>2 DEF CheckHeader, Return
<1> QED
  BY <1>1, <1>3 DEF BackedInv

LEMMA BackedNext == ASSUME PlacesInv, BackedInv, NextHeader PROVE BackedInv'
<1>1. /\ WhereOK /\ file' = file /\ file \in Files /\ at = "headers" /\ result = "none"
      /\ UNCHANGED pages
  BY DEF PlacesInv, NextHeader, WhereOK
<1>2. SUFFICES ASSUME Fits(file), FileBacked(file) PROVE BackedInv'
  BY <1>1, SameFile DEF BackedInv
<1>3. file.segments \in Seq(Segment) /\ Len(file.segments) \in Nat /\ seg \in Nat
      /\ seg \in 1 .. Len(file.segments) + 1
      /\ DOMAIN file.segments = 1 .. Len(file.segments)
  BY <1>1, ElfAssumption DEF WhereOK
<1>4. \A p \in pages : \E n \in Loads(file) : n < seg /\ p \in PagesOf(file, n)
  BY <1>1, <1>2 DEF BackedInv, Passed
<1>5. Loads(file)' = Loads(file) /\ \A n : PagesOf(file, n)' = PagesOf(file, n)
  BY <1>1 DEF Loads, PagesOf, OwnPages, FirstPages, page_size, num_pages
<1>6. CASE seg > Len(file.segments)
  <2>1. at' = "stack" /\ result' = result /\ Passed' = seg
    BY <1>6 DEF NextHeader, Passed
  <2> QED
    BY <1>1, <1>4, <1>5, <2>1 DEF BackedInv
<1>7. CASE ~(seg > Len(file.segments))
  <2> DEFINE s == file.segments[seg]
  <2>1. seg' = seg + 1 /\ (seg + 1) - 1 = seg /\ seg \in DOMAIN file.segments
    BY <1>3, <1>7, SMT DEF NextHeader
  <2>2. \A n \in Loads(file) : n < seg => n < seg + 1
    BY <1>1, <1>3, LoadsFacts, SMT
  <2>3. CASE ~s.load
    <3>1. at' = at /\ result' = result /\ Passed' = seg + 1
      BY <1>1, <1>7, <2>1, <2>3 DEF NextHeader, Passed
    <3> QED
      BY <1>1, <1>4, <1>5, <2>2, <3>1 DEF BackedInv
  <2>4. CASE s.load
    <3>1. ~BadVaddr(s)
      <4>1. s.vaddr + s.memsz < USER_END
        BY <1>2, <2>1, <2>4 DEF Fits, Loads
      <4> QED
        BY <1>1, <2>1, <4>1, SegmentFacts
    <3>2. at' = "pages" /\ left' = num_pages(s) /\ vaddr' = s.vaddr /\ result' = result
      BY <1>7, <2>4, <3>1 DEF NextHeader
    <3>3. Passed' = seg /\ Current' = s
      BY <1>1, <2>1, <3>2 DEF Passed, Current
    <3>4. num_pages(s) \in Nat /\ page_size(s) \in Nat /\ s.vaddr \in Nat
      BY <1>1, <2>1, SegmentFacts
    <3>5. page_size(Current)' = page_size(s) /\ num_pages(Current)' = num_pages(s)
      BY <3>3 DEF page_size, num_pages
    <3>6. num_pages(s) - num_pages(s) = 0 /\ 0 * page_size(s) = 0 /\ s.vaddr + 0 = s.vaddr
      BY <3>4, SMT
    <3>7. (vaddr = Current.vaddr + (num_pages(Current) - left) * page_size(Current))'
      BY <3>2, <3>3, <3>5, <3>6
    <3>8. \A p \in pages' : \E n \in Loads(file)' : n < Passed' /\ p \in PagesOf(file, n)'
      BY <1>1, <1>4, <1>5, <3>3
    <3> QED
      BY <1>1, <3>2, <3>7, <3>8 DEF BackedInv
  <2> QED
    BY <2>3, <2>4
<1> QED
  BY <1>6, <1>7


\* All that is mapped while the program is loaded are pages of it.
LEMMA MappedAreIts ==
    ASSUME PlacesInv, BackedInv, Fits(file), FileBacked(file), at \in {"pages", "stack"}
    PROVE  pages \subseteq AllPages(file)
<1> SUFFICES ASSUME NEW p \in pages PROVE p \in AllPages(file)
  OBVIOUS
<1>0. file \in Files /\ WhereOK
  BY DEF PlacesInv, WhereOK
<1>1. CASE \E n \in Loads(file) : n < Passed /\ p \in PagesOf(file, n)
  BY <1>1 DEF AllPages
<1>2. CASE at = "pages" /\ \E k \in 0 .. (num_pages(Current) - left) - 1 :
               p = [base |-> Base(Current.vaddr, page_size(Current)) + k * page_size(Current),
                    size |-> page_size(Current)]
  <2>1. seg - 1 \in Loads(file)
    BY <1>0, <1>2, CurrentFacts DEF WhereOK, Loads, Current
  <2>2. left \in 1 .. num_pages(Current) /\ num_pages(Current) \in Nat
    BY <1>0, <1>2, CurrentFacts, SegmentFacts DEF WhereOK, Current
  <2>3. 0 .. (num_pages(Current) - left) - 1 \subseteq 0 .. num_pages(Current) - 1
    BY <2>2, SMT
  <2>4. p \in PagesOf(file, seg - 1)
    BY <1>0, <1>2, <2>1, <2>3, LoadsFacts DEF FirstPages, Current
  <2> QED
    BY <2>1, <2>4 DEF AllPages
<1>3. CASE at = "stack" /\ \E k \in 0 .. (StackPages - left) - 1 :
               p = [base |-> StackBase + k * PAGE_SMALL_SIZE, size |-> PAGE_SMALL_SIZE]
  <2>1. left \in Nat /\ left <= StackPages /\ StackPages \in Nat
    BY <1>0, <1>3, ElfAssumption DEF WhereOK
  <2>2. 0 .. (StackPages - left) - 1 \subseteq 0 .. StackPages - 1
    BY <2>1, SMT
  <2>3. p \in PagesOf(file, 0)
    BY <1>3, <2>2 DEF PagesOf, OwnPages
  <2> QED
    BY <2>3 DEF AllPages
<1> QED
  BY <1>1, <1>2, <1>3 DEF BackedInv

\* The pages of one segment do not overlap.
LEMMA RowApart ==
    ASSUME NEW b \in Nat, NEW z \in Nat, NEW m \in Nat, NEW k \in 0 .. m - 1
    PROVE  Span([base |-> b + k * z, size |-> z]) \cap Span([base |-> b + m * z, size |-> z]) = {}
<1>1. PICK r \in Nat : m = (k + 1) + r
  <2>1. m - (k + 1) \in Nat /\ m = (k + 1) + (m - (k + 1))
    BY SMT
  <2> QED
    BY <2>1
<1>2. k \in Nat
  BY SMT
<1>3. k * z \in Nat /\ r * z \in Nat /\ ((k + 1) + r) * z = (k * z + z) + r * z
  BY <1>2, SMT
<1>4. PICK x \in Nat, y \in Nat : x = k * z /\ y = m * z /\ x + z <= y
  BY <1>1, <1>3, SMT
<1>5. (b + x .. (b + x) + z - 1) \cap (b + y .. (b + y) + z - 1) = {}
  BY <1>4, SMT
<1> QED
  BY <1>4, <1>5 DEF Span

\* While a whole page is still to come, a whole page is left to copy.
LEMMA PageLeft ==
    ASSUME NEW z \in Nat, NEW m \in Nat, NEW n \in Nat, m + 1 <= n,
           NEW f \in Nat, f >= n * z, NEW w \in Nat, NEW a \in Nat,
           (w + m * z) + a = w + f
    PROVE  z <= a /\ (w + m * z) + z = w + (m + 1) * z
<1>1. PICK r \in Nat : n = (m + 1) + r
  <2>1. n - (m + 1) \in Nat /\ n = (m + 1) + (n - (m + 1))
    BY SMT
  <2> QED
    BY <2>1
<1>2. m * z \in Nat /\ r * z \in Nat /\ (m + 1) * z = m * z + z
  BY SMT
<1>3. ((m + 1) + r) * z = (m * z + z) + r * z
  BY SMT
<1>4. n * z = (m * z + z) + r * z
  BY <1>1, <1>3
<1> DEFINE x == m * z
           y == r * z
<1>5. x \in Nat /\ y \in Nat /\ f >= (x + z) + y /\ (w + x) + a = w + f
  BY <1>2, <1>4
<1> HIDE DEF x, y
<1>6. z <= a /\ (w + x) + z = w + (x + z)
  BY <1>5, SMT
<1> QED
  BY <1>2, <1>6 DEF x

LEMMA BackedLoad ==
    ASSUME PlacesInv, BackedInv, LoadPage,
           NEW s, s = Current, NEW z, z = page_size(s), NEW m, m = num_pages(s) - left,
           NEW v, v = vaddr, NEW p, p = [base |-> Base(v, z), size |-> z]
    PROVE  BackedInv'
<1> DEFINE copied == LessOf(z, amount_left)
           next == IF left = 1 THEN "headers" ELSE "pages"
<1>1. /\ at = "pages" /\ left > 0
      /\ virt_map_page(vaddr, z, Loaded(z, copied), next)
      /\ vaddr' = (vaddr + copied) % ADDRESSES /\ left' = left - 1
      /\ UNCHANGED <<file, seg, result>>
  BY Zenon DEF LoadPage, Current
<1>2. PagesOK /\ WhereOK /\ file \in Files
  BY DEF PlacesInv, WhereOK
<1>3. SUFFICES ASSUME Fits(file), FileBacked(file) PROVE BackedInv'
  BY <1>1, SameFile DEF BackedInv
<1>4. /\ s.vaddr \in Nat /\ s.filesz \in Nat /\ s.memsz \in Nat
      /\ z \in Nat \ {0} /\ num_pages(s) \in Nat
      /\ seg - 1 \in DOMAIN file.segments /\ seg - 1 \in Nat /\ left \in 1 .. num_pages(s)
      /\ amount_left \in Nat /\ s = file.segments[seg - 1] /\ vaddr \in Nat
  BY <1>1, <1>2, CurrentFacts, SegmentFacts DEF Current, WhereOK
<1>17. /\ vaddr + amount_left = s.vaddr + s.filesz
       /\ vaddr < USER_END /\ vaddr + amount_left < USER_END
  <2>1. seg - 1 \in Loads(file)
    BY <1>1, <1>2, <1>4 DEF Loads, WhereOK
  <2>2. s.vaddr + s.memsz < USER_END
    BY <1>3, <1>4, <2>1 DEF Fits
  <2>3. Canonical(s)
    BY <1>2, <1>4, <2>2, SegmentFacts
  <2> QED
    BY <1>1, <1>2, <2>3, CurrentFacts
<1>0. num_pages(s) - 1 = s.memsz \div z /\ (num_pages(s) - 1) * z \in Nat
  BY <1>2, <1>4, SegmentFacts
<1>5. seg - 1 \in Loads(file)
  BY <1>1, <1>2, <1>4 DEF Loads, WhereOK
<1>6. m \in 0 .. num_pages(s) - 1 /\ m \in Nat
  BY <1>4, SMT
<1>7. vaddr = s.vaddr + m * z
  BY <1>1, <1>3 DEF BackedInv
<1>8. m * z \in Nat /\ Base(s.vaddr, z) \in Nat /\ p.base = Base(s.vaddr, z) + m * z /\ p.size = z
  <2>1. PICK w \in Nat : w = s.vaddr
    BY <1>4
  <2>2. m * z \in Nat /\ Base(w + m * z, z) = Base(w, z) + m * z
    BY <1>4, <1>6, BaseMoves
  <2>3. Base(w, z) \in Nat
    BY <1>4, BaseOf
  <2> QED
    BY <1>7, <2>1, <2>2, <2>3
<1>9. p = [base |-> Base(s.vaddr, z) + m * z, size |-> z] /\ p \in PagesOf(file, seg - 1)
  BY <1>2, <1>3, <1>4, <1>5, <1>6, <1>8, SegmentPages
<1>10. \A q \in pages :
           \/ \E n \in Loads(file) : n < seg - 1 /\ q \in PagesOf(file, n)
           \/ \E k \in 0 .. m - 1 : q = [base |-> Base(s.vaddr, z) + k * z, size |-> z]
  BY <1>1, <1>3 DEF BackedInv, Passed
<1>11. ASSUME NEW q \in pages PROVE Span(q) \cap Span(p) = {}
  <2>1. CASE \E n \in Loads(file) : n < seg - 1 /\ q \in PagesOf(file, n)
    <3>1. PICK n \in Loads(file) : n < seg - 1 /\ q \in PagesOf(file, n)
      BY <2>1
    <3>2. n # seg - 1
      BY <1>2, <1>4, <3>1, LoadsFacts, SMT
    <3> QED
      BY <1>3, <1>5, <1>9, <3>1, <3>2 DEF Fits
  <2>2. CASE \E k \in 0 .. m - 1 : q = [base |-> Base(s.vaddr, z) + k * z, size |-> z]
    <3>1. PICK k \in 0 .. m - 1, b \in Nat :
              b = Base(s.vaddr, z) /\ q = [base |-> b + k * z, size |-> z]
      BY <1>8, <2>2
    <3>2. p = [base |-> b + m * z, size |-> z] /\ m \in Nat /\ z \in Nat
      BY <1>4, <1>6, <1>9, <3>1
    <3>3. Span([base |-> b + k * z, size |-> z]) \cap Span([base |-> b + m * z, size |-> z]) = {}
      BY <3>2, RowApart
    <3> QED
      BY <3>1, <3>2, <3>3, Zenon
  <2> QED
    BY <1>10, <2>1, <2>2
<1>12. at' = next /\ pages' \subseteq pages \cup {p}
  <2>1. p \in AllPages(file)
    BY <1>5, <1>9 DEF AllPages
  <2>2. pages \subseteq AllPages(file)
    BY <1>1, <1>3, MappedAreIts
  <2> HIDE DEF copied, next
  <2> QED
    BY <1>1, <1>3, <1>4, <1>11, <1>17, <2>1, <2>2, Placed
<1>13. result' = "none"
  BY <1>1, <1>2 DEF WhereOK
<1>14. Loads(file)' = Loads(file) /\ \A n : PagesOf(file, n)' = PagesOf(file, n)
  BY <1>1 DEF Loads, PagesOf, OwnPages, FirstPages, page_size, num_pages
<1> HIDE DEF copied
<1>15. CASE left = 1
  <2>1. at' = "headers" /\ Passed' = seg
    BY <1>1, <1>12, <1>15 DEF Passed
  <2>2. \A n \in Loads(file) : n < seg - 1 => n < seg
    BY <1>2, <1>4, LoadsFacts, SMT DEF WhereOK
  <2>3. seg - 1 < seg
    BY <1>2, <1>4, SMT DEF WhereOK
  <2>4. 0 .. m - 1 \subseteq 0 .. num_pages(s) - 1
    BY <1>4, <1>6, SMT
  <2>5. \A q \in pages' : \E n \in Loads(file) : n < seg /\ q \in PagesOf(file, n)
    <3> SUFFICES ASSUME NEW q \in pages'
                 PROVE  \E n \in Loads(file) : n < seg /\ q \in PagesOf(file, n)
      OBVIOUS
    <3>1. CASE q = p
      BY <1>5, <1>9, <2>3, <3>1
    <3>2. CASE \E n \in Loads(file) : n < seg - 1 /\ q \in PagesOf(file, n)
      BY <2>2, <3>2
    <3>3. CASE \E k \in 0 .. m - 1 : q = [base |-> Base(s.vaddr, z) + k * z, size |-> z]
      <4>1. q \in PagesOf(file, seg - 1)
        BY <1>2, <1>3, <1>4, <1>5, <2>4, <3>3, SegmentPages
      <4> QED
        BY <1>5, <2>3, <4>1
    <3> QED
      BY <1>10, <1>12, <3>1, <3>2, <3>3
  <2> QED
    BY <1>1, <1>13, <1>14, <2>1, <2>5 DEF BackedInv
<1>16. CASE left # 1
  <2>1. at' = "pages" /\ Passed' = seg - 1
    BY <1>1, <1>12, <1>16 DEF Passed
  <2>2. /\ Current' = s /\ page_size(Current)' = z /\ (num_pages(Current) - left)' = m + 1
    <3>1. Current' = s /\ page_size(Current)' = z /\ num_pages(Current)' = num_pages(s)
      BY <1>1 DEF Current, page_size, num_pages
    <3>2. num_pages(s) - (left - 1) = (num_pages(s) - left) + 1
      BY <1>4, SMT
    <3> QED
      BY <1>1, <3>1, <3>2
  <2>3. vaddr' = s.vaddr + (m + 1) * z
    <3>1. PICK n \in Nat, f \in Nat, w \in Nat :
              n = num_pages(s) - 1 /\ f = s.filesz /\ w = s.vaddr
      BY <1>4, SMT
    <3>2. m + 1 <= n
      BY <1>4, <1>16, <3>1, SMT
    <3>3. f >= n * z
      BY <1>0, <1>3, <1>4, <1>5, <3>1, Zenon DEF FileBacked
    <3>4. PICK a \in Nat : a = amount_left
      BY <1>4
    <3>5. (w + m * z) + a = w + f /\ z \in Nat /\ m \in Nat
      BY <1>4, <1>6, <1>7, <1>17, <3>1, <3>4
    <3>6. z <= a /\ (w + m * z) + z = w + (m + 1) * z
      BY <3>2, <3>3, <3>5, PageLeft
    <3>7. LessOf(z, a) = z
      BY <3>5, <3>6, SMT DEF LessOf
    <3>8. PICK x \in Nat : x = vaddr /\ x + a < USER_END
      BY <1>4, <1>17, <3>4
    <3>9. x + z \in Nat /\ x + z < ADDRESSES
      BY <1>4, <3>6, <3>8, SizeFacts, SMT
    <3>10. vaddr' = x + z
      BY <1>1, <3>4, <3>7, <3>8, <3>9, SizeFacts, BelowBound DEF copied
    <3> QED
      BY <1>7, <3>1, <3>6, <3>8, <3>10
  <2>4. ASSUME NEW q \in pages'
        PROVE  \/ \E n \in Loads(file) : n < seg - 1 /\ q \in PagesOf(file, n)
               \/ \E k \in 0 .. (m + 1) - 1 : q = [base |-> Base(s.vaddr, z) + k * z, size |-> z]
    <3>1. m \in 0 .. (m + 1) - 1 /\ 0 .. m - 1 \subseteq 0 .. (m + 1) - 1
      BY <1>6, SMT
    <3> QED
      BY <1>9, <1>10, <1>12, <3>1
  <2>5. (vaddr = Current.vaddr + (num_pages(Current) - left) * page_size(Current))'
    BY <2>2, <2>3
  <2>6. (\A q \in pages :
             \/ \E n \in Loads(file) : n < Passed /\ q \in PagesOf(file, n)
             \/ /\ at = "pages"
                /\ \E k \in 0 .. (num_pages(Current) - left) - 1 :
                       q = [base |-> Base(Current.vaddr, page_size(Current))
                                         + k * page_size(Current),
                            size |-> page_size(Current)])'
    BY <1>14, <2>1, <2>2, <2>4
  <2> QED
    BY <1>1, <1>13, <2>1, <2>5, <2>6 DEF BackedInv
<1> QED
  BY <1>15, <1>16


\* The page of the context is apart from those of the stack.
LEMMA ContextApart ==
    ASSUME NEW k \in 0 .. StackPages - 1
    PROVE  Span([base |-> StackBase + k * PAGE_SMALL_SIZE, size |-> PAGE_SMALL_SIZE])
               \cap Span([base |-> ContextBase, size |-> PAGE_SMALL_SIZE]) = {}
<1> DEFINE q == [base |-> StackBase + k * PAGE_SMALL_SIZE, size |-> PAGE_SMALL_SIZE]
           p == [base |-> ContextBase, size |-> PAGE_SMALL_SIZE]
<1>1. PageOK(q) /\ PageOK(p)
  BY StackPage, ContextPage DEF UserPage
<1>2. SUFFICES ASSUME Span(q) \cap Span(p) # {} PROVE FALSE
  OBVIOUS
<1>3. q.size = PAGE_SMALL_SIZE /\ p.size = PAGE_SMALL_SIZE /\ PAGE_SMALL_SIZE <= PAGE_SMALL_SIZE
  BY SizeFacts, SMT
<1> HIDE DEF p, q
<1>4. p.base = q.base
  BY <1>1, <1>2, <1>3, Nested
<1>5. ContextBase = StackBase + k * PAGE_SMALL_SIZE
  BY <1>4 DEF p, q
<1> QED
  BY <1>5, StackPage, ElfAssumption

LEMMA BackedStack == ASSUME PlacesInv, BackedInv, MapStack PROVE BackedInv'
<1>1. /\ WhereOK /\ file' = file /\ file \in Files /\ at = "stack" /\ seg' = seg
      /\ result = "none"
  BY DEF PlacesInv, MapStack, WhereOK
<1>2. SUFFICES ASSUME Fits(file), FileBacked(file) PROVE BackedInv'
  BY <1>1, SameFile DEF BackedInv
<1>3. /\ left \in Nat /\ left <= StackPages /\ StackPages \in Nat
      /\ vaddr = StackBase + (StackPages - left) * PAGE_SMALL_SIZE
      /\ PAGE_SMALL_SIZE \in Nat \ {0}
  BY <1>1, ElfAssumption DEF WhereOK
<1> DEFINE Page(k) == [base |-> StackBase + k * PAGE_SMALL_SIZE, size |-> PAGE_SMALL_SIZE]
<1>4. PICK m \in Nat : m = StackPages - left
  <2>1. StackPages - left \in Nat
    BY <1>3, SMT
  <2> QED
    BY <2>1
<1>5. \A q \in pages :
          \/ \E n \in Loads(file) : n < seg /\ q \in PagesOf(file, n)
          \/ \E k \in 0 .. m - 1 : q = Page(k)
  BY <1>1, <1>2, <1>4 DEF BackedInv, Passed
<1>6. pages \subseteq AllPages(file)
  BY <1>1, <1>2, MappedAreIts
<1>7. 0 .. m - 1 \subseteq 0 .. StackPages - 1
  BY <1>3, <1>4, SMT
<1>8. \A n \in Loads(file) : \A q \in PagesOf(file, n), p \in OwnPages :
          Span(q) \cap Span(p) = {}
  <2>1. \A n \in Loads(file) : n # 0
    BY <1>1, LoadsFacts
  <2>2. OwnPages = PagesOf(file, 0)
    BY DEF PagesOf
  <2> QED
    BY <1>2, <2>1, <2>2 DEF Fits
<1>9. OwnPages \subseteq AllPages(file)
  BY DEF AllPages, PagesOf
<1>10. Loads(file)' = Loads(file) /\ \A n : PagesOf(file, n)' = PagesOf(file, n)
  BY <1>1 DEF Loads, PagesOf, OwnPages, FirstPages, page_size, num_pages
<1> DEFINE zeros == [i \in 0 .. PAGE_SMALL_SIZE - 1 |-> 0]
           rest == [i \in 0 .. PAGE_SMALL_SIZE - 1 |-> Junk]
<1>11. CASE left > 0 /\ virt_map_page(vaddr, PAGE_SMALL_SIZE, zeros, "stack")
            /\ left' = left - 1 /\ UNCHANGED result
  <2> HIDE DEF zeros
  <2>1. m \in 0 .. StackPages - 1 /\ m + 1 = StackPages - (left - 1)
        /\ m \in 0 .. (m + 1) - 1 /\ 0 .. m - 1 \subseteq 0 .. (m + 1) - 1
    BY <1>3, <1>4, <1>11, SMT
  <2>2. Page(m) \in OwnPages
    BY <2>1, StackPage
  <2>3. Page(m) = [base |-> Base(vaddr, PAGE_SMALL_SIZE), size |-> PAGE_SMALL_SIZE]
    <3>1. PICK v \in Nat : v = vaddr
      BY <1>1, <1>11, StackFacts
    <3>2. v % PAGE_SMALL_SIZE = 0
      BY <1>1, <1>11, <3>1, StackFacts
    <3>3. Base(v, PAGE_SMALL_SIZE) = v
      BY <1>3, <3>2, BaseOf
    <3> QED
      BY <1>3, <1>4, <3>1, <3>3
  <2>4. ASSUME NEW q \in pages PROVE Span(q) \cap Span(Page(m)) = {}
    <3>1. CASE \E n \in Loads(file) : n < seg /\ q \in PagesOf(file, n)
      BY <1>8, <2>2, <3>1
    <3>2. CASE \E k \in 0 .. m - 1 : q = Page(k)
      <4>1. PICK k \in 0 .. m - 1 : q = Page(k)
        BY <3>2
      <4>2. StackBase \in Nat /\ PAGE_SMALL_SIZE \in Nat
        BY ElfAssumption
      <4>3. Span(Page(k)) \cap Span(Page(m)) = {}
        BY <4>2, RowApart
      <4> QED
        BY <4>1, <4>3
    <3> QED
      BY <1>5, <3>1, <3>2
  <2>5. at' = "stack" /\ pages' \subseteq pages \cup {Page(m)}
    <3>1. Page(m) \in AllPages(file)
      BY <1>9, <2>2
    <3> HIDE DEF Page
    <3> QED
      BY <1>1, <1>2, <1>6, <1>11, <2>3, <2>4, <3>1, StackFacts, Placed
  <2>6. \A q \in pages' :
            \/ \E n \in Loads(file) : n < seg /\ q \in PagesOf(file, n)
            \/ \E k \in 0 .. (m + 1) - 1 : q = Page(k)
    BY <1>5, <2>1, <2>5
  <2>7. (\A q \in pages :
             \/ \E n \in Loads(file) : n < Passed /\ q \in PagesOf(file, n)
             \/ /\ at = "stack"
                /\ \E k \in 0 .. (StackPages - left) - 1 :
                       q = [base |-> StackBase + k * PAGE_SMALL_SIZE,
                            size |-> PAGE_SMALL_SIZE])'
    <3>1. Passed' = seg /\ StackPages - left' = m + 1
      BY <1>1, <1>11, <2>1, <2>5 DEF Passed
    <3> QED
      BY <1>10, <2>5, <2>6, <3>1
  <2> QED
    BY <1>1, <1>11, <2>5, <2>7 DEF BackedInv
<1>12. CASE left = 0 /\ virt_map_page(ContextBase, PAGE_SMALL_SIZE, rest, "done")
            /\ result' = IF at' = "done" THEN "NO_ERROR" ELSE result
  <2> HIDE DEF rest
  <2> DEFINE p == [base |-> ContextBase, size |-> PAGE_SMALL_SIZE]
  <2>1. p \in OwnPages
    BY ContextPage
  <2>2. p = [base |-> Base(ContextBase, PAGE_SMALL_SIZE), size |-> PAGE_SMALL_SIZE]
    BY <1>1, <1>3, StackFacts, BaseOf
  <2>3. ASSUME NEW q \in pages PROVE Span(q) \cap Span(p) = {}
    <3>1. CASE \E n \in Loads(file) : n < seg /\ q \in PagesOf(file, n)
      BY <1>8, <2>1, <3>1
    <3>2. CASE \E k \in 0 .. m - 1 : q = Page(k)
      BY <1>7, <3>2, ContextApart
    <3> QED
      BY <1>5, <3>1, <3>2
  <2>4. at' = "done"
    <3>1. p \in AllPages(file)
      BY <1>9, <2>1
    <3> HIDE DEF p
    <3> QED
      BY <1>1, <1>2, <1>6, <1>12, <2>2, <2>3, <3>1, StackFacts, Placed
  <2> QED
    BY <1>12, <2>4 DEF BackedInv
<1> QED
  BY <1>11, <1>12, Zenon DEF MapStack

LEMMA BackedStep ==
    ASSUME PlacesInv, BackedInv, [LoaderNext]_loader_vars
    PROVE  BackedInv'
<1>1. CASE UNCHANGED loader_vars
  <2>1. UNCHANGED <<file, at, seg, left, vaddr, result, pages>>
    BY <1>1 DEF loader_vars
  <2>2. /\ Fits(file)' = Fits(file) /\ FileBacked(file)' = FileBacked(file)
        /\ Passed' = Passed /\ Loads(file)' = Loads(file)
        /\ \A n : PagesOf(file, n)' = PagesOf(file, n)
        /\ Current' = Current /\ num_pages(Current)' = num_pages(Current)
        /\ page_size(Current)' = page_size(Current)
    BY <2>1, SameFile DEF Passed, Current, Loads, PagesOf, OwnPages, FirstPages,
                          page_size, num_pages
  <2> QED
    BY <2>1, <2>2 DEF BackedInv
<1>2. CASE LoadPage
  <2>1. PICK s, z, m, v, p : /\ s = Current /\ z = page_size(s) /\ m = num_pages(s) - left
                             /\ v = vaddr /\ p = [base |-> Base(v, z), size |-> z]
    OBVIOUS
  <2> QED
    BY <1>2, <2>1, BackedLoad
<1> QED
  BY <1>1, <1>2, BackedHeader, BackedNext, BackedStack DEF LoaderNext

-----------------------------------------------------------------------------
\* A file refused for its header costs the process no page, whatever the file.
THEOREM HeadersHarmless == LoaderSpec => []HeaderErrorsHarmless
<1>1. LoaderInit => PlacesInv /\ HeaderInv
  BY PlacesStart, HeaderStart
<1>2. PlacesInv /\ HeaderInv /\ [LoaderNext]_loader_vars => (PlacesInv /\ HeaderInv)'
  BY PlacesStep, HeaderStep
<1>3. PlacesInv /\ HeaderInv => HeaderErrorsHarmless
  BY HeaderHarmless
<1> QED
  BY <1>1, <1>2, <1>3, PTL DEF LoaderSpec

\* For every file and every size of page, a program linked as the format requires
\* that elf_create_process says is loaded is in memory byte for byte with zeros
\* behind it, nothing is mapped in the kernel's part as long as the segments are
\* canonical, and a program that fits and whose pages are all in the file is
\* loaded.
THEOREM ProgramsAreLoaded == LoaderSpec => []ProgramsLoaded
<1> DEFINE I == PlacesInv /\ ImageInv /\ BackedInv
<1>1. LoaderInit => I
  BY PlacesStart, ImageStart, BackedStart
<1>2. I /\ [LoaderNext]_loader_vars => I'
  BY PlacesStep, ImageStep, BackedStep
<1>3. I => ProgramsLoaded
  BY TypesHold, ImageFollows DEF ProgramsLoaded, BackedInv, BackedProgramsLoad
<1> HIDE DEF I
<1> QED
  BY <1>1, <1>2, <1>3, PTL DEF LoaderSpec

-----------------------------------------------------------------------------
(* The boot memory map *)

\* What get_total_usable_ram leaves of an entry, and the memory in the first n
\* entries after that
Kept(e) == IF e.usable THEN CutOut(e, TRUE)[1] ELSE e
KeptBytes(n) ==
    UNION {Region(Kept(reported[j])) : j \in {k \in 1 .. n : Kept(reported[k]).usable}}
EndOf(e) == e.base + e.length

CutSoFar == IF map_at = "cut" THEN map_i - 1 ELSE Len(reported)

MapTyped ==
    /\ reported \in Maps /\ mmap_size = Len(reported)
    /\ mmap \in Seq(Entry) /\ Len(mmap) = Len(reported)
    /\ map_at \in {"cut", "place", "chunks", "done", "panic"}
    /\ map_i \in 1 .. Len(reported) + 1
    /\ total_usable_ram \in Nat /\ highest_address \in Nat
    /\ psi \in [base : Nat, num_pds : Nat, num_pdpts : Nat, space : Nat]
    /\ pushed \in Seq(Nat)

\* No entry is ever added: the case that adds one is behind one that takes the
\* same regions.
KeptInv ==
    map_at \in {"cut", "place", "panic"} =>
        /\ \A j \in 1 .. Len(reported) :
               mmap[j] = IF j <= CutSoFar THEN Kept(reported[j]) ELSE reported[j]
        /\ psi = NoTables /\ pushed = <<>>

HighestInv ==
    \A j \in 1 .. CutSoFar :
        Kept(reported[j]).usable => EndOf(Kept(reported[j])) <= highest_address

TotalInv == total_usable_ram = Cardinality(KeptBytes(CutSoFar))

\* Entry r starts with the page tables, which are behind the kernel.
PlacedIn(r) ==
    LET e == Kept(reported[r])
    IN  /\ e.usable
        /\ psi.base = AlignUp(e.base, SMALL) /\ psi.base >= KERNEL_END
        /\ psi.base + psi.space <= EndOf(e)
        /\ mmap[r].usable /\ mmap[r].base = psi.base + psi.space /\ EndOf(mmap[r]) = EndOf(e)
        /\ \A j \in 1 .. Len(reported) : j # r => mmap[j] = Kept(reported[j])

PlacedInv ==
    map_at \in {"chunks", "done"} =>
        /\ \E r \in 1 .. Len(reported) : PlacedIn(r)
        /\ psi.num_pds = num_pds(highest_address)
        /\ psi.num_pdpts = num_pdpts(highest_address)
        /\ psi.space = space_needed

PushedInv ==
    /\ IsInjective(pushed)
    /\ map_at \in {"chunks", "done"} =>
           Range(pushed) = UNION {Range(ChunksOf(mmap[j])) : j \in 1 .. map_i - 1}
    /\ map_at = "done" => map_i = Len(reported) + 1

MapInv == MapTyped /\ KeptInv /\ HighestInv /\ TotalInv /\ PlacedInv /\ PushedInv
-----------------------------------------------------------------------------
(* Alignment, and the chunks of a region *)

LEMMA MapConstants ==
    /\ KERNEL_START \in Nat \ {0} /\ KERNEL_END \in Nat \ {0} /\ KERNEL_START < KERNEL_END
    /\ SMALL \in Nat \ {0} /\ LARGE \in Nat \ {0} /\ GIB \in Nat \ {0}
    /\ KERNEL_START < LARGE /\ LARGE % SMALL = 0 /\ GIB % 2 = 0
    /\ PDT_PER_PDPT \in Nat \ {0, 1}
  BY MapAssumption, Zenon

LEMMA TimesGrows ==
    ASSUME NEW s \in Nat, NEW a \in Int, NEW b \in Int, a <= b
    PROVE  a * s \in Int /\ b * s \in Int /\ a * s <= b * s
<1>1. (b - a) * s >= 0
  BY SMT
<1>2. (b - a) * s = b * s - a * s
  BY SMT
<1>3. a * s \in Int /\ b * s \in Int
  BY SMT
<1> QED
  BY <1>1, <1>2, <1>3, SMT

\* The next multiple of a size is the first one that is not below.
LEMMA AlignedUp ==
    ASSUME NEW s \in Nat \ {0}, NEW a \in Nat
    PROVE  /\ AlignUp(a, s) \in Nat /\ AlignUp(a, s) % s = 0
           /\ a <= AlignUp(a, s) /\ AlignUp(a, s) < a + s
           /\ \A b \in Nat : b % s = 0 /\ a <= b => AlignUp(a, s) <= b
<1> DEFINE u == AlignUp(a, s)
<1>1. PICK q \in Nat : a = q * s + (a % s)
  BY Multiple
<1>2. a % s \in 0 .. s - 1
  BY Multiple
<1>3. q * s \in Nat /\ (q + 1) * s \in Nat /\ (q + 1) * s = q * s + s
  BY SMT
<1>4. u \in Nat /\ u % s = 0 /\ a <= u /\ u < a + s
  <2>1. CASE a % s = 0
    <3>1. (0 * s + 0) % s = 0
      BY Remainder, SMT
    <3>2. (1 * s + 0) % s = 0
      BY Remainder, SMT
    <3>3. (s - (a % s)) % s = 0
      BY <2>1, <3>2, SMT
    <3>4. u = a
      BY <3>3, SMT DEF AlignUp
    <3> QED
      BY <2>1, <3>4, SMT
  <2>2. CASE a % s # 0
    <3>1. s - (a % s) \in 0 .. s - 1
      BY <1>2, <2>2, SMT
    <3>2. (0 * s + (s - (a % s))) % s = s - (a % s)
      BY <3>1, Remainder, SMT
    <3>3. (s - (a % s)) % s = s - (a % s)
      BY <3>1, <3>2, SMT
    <3>4. u = a + (s - (a % s))
      BY <3>3, Zenon DEF AlignUp
    <3>5. u = (q + 1) * s
      BY <1>1, <1>2, <1>3, <3>4, SMT
    <3>6. ((q + 1) * s + 0) % s = 0
      BY Remainder, SMT
    <3>7. u % s = 0
      BY <1>3, <3>5, <3>6, SMT
    <3> QED
      BY <1>2, <1>3, <2>2, <3>4, <3>5, <3>7, SMT
  <2> QED
    BY <2>1, <2>2
<1>5. ASSUME NEW b \in Nat, b % s = 0, a <= b PROVE u <= b
  <2>1. CASE b < u
    <3>1. b + s <= u
      BY <1>4, <1>5, <2>1, Spaced
    <3> QED
      BY <1>4, <1>5, <2>1, <3>1, SMT
  <2> QED
    BY <1>4, <2>1, SMT
<1> QED
  BY <1>4, <1>5

\* The chunks of a region are the large pages that lie in it, each once.
LEMMA ChunksOfRegion ==
    ASSUME NEW e \in Entry
    PROVE  /\ ChunksOf(e) \in Seq(Nat) /\ IsInjective(ChunksOf(e))
           /\ \A c : c \in Range(ChunksOf(e)) <=>
                  /\ e.usable /\ c \in Nat /\ c % LARGE = 0
                  /\ e.base <= c /\ c + LARGE <= EndOf(e)
<1> DEFINE base == AlignUp(e.base, LARGE)
           length == e.length - (base - e.base)
           chunk(k) == base + (k - 1) * LARGE
<1>1. e.base \in Nat /\ e.length \in Nat /\ e.usable \in BOOLEAN /\ EndOf(e) = e.base + e.length
  BY DEF Entry, EndOf
<1>2. LARGE \in Nat \ {0}
  BY MapConstants
<1>3. /\ base \in Nat /\ base % LARGE = 0
      /\ e.base <= base /\ base < e.base + LARGE
      /\ \A b \in Nat : b % LARGE = 0 /\ e.base <= b => base <= b
  BY <1>1, <1>2, AlignedUp, Zenon
<1>4. length \in Int /\ base + length = EndOf(e)
  BY <1>1, <1>3
<1>5. CASE ~e.usable \/ e.length < LARGE \/ length < LARGE
  <2>1. ChunksOf(e) = <<>>
    BY <1>5 DEF ChunksOf
  <2>2. \A c : c \notin Range(ChunksOf(e))
    BY <2>1 DEF Range
  <2>3. ASSUME NEW c \in Nat, e.usable, c % LARGE = 0, e.base <= c, c + LARGE <= EndOf(e) PROVE FALSE
    <3>1. base <= c
      BY <1>3, <2>3
    <3> HIDE DEF base, length
    <3> QED
      BY <1>1, <1>2, <1>3, <1>4, <1>5, <2>3, <3>1
  <2> QED
    BY <2>1, <2>2, <2>3 DEF IsInjective
<1>6. CASE ~(~e.usable \/ e.length < LARGE \/ length < LARGE)
  <2> HIDE DEF base, length
  <2>0. length \in Nat /\ LARGE <= length /\ e.usable
    BY <1>1, <1>2, <1>4, <1>6
  <2> DEFINE n == length \div LARGE
  <2>1. ChunksOf(e) = [k \in 1 .. n |-> base + (k - 1) * LARGE]
    BY <1>6 DEF ChunksOf, base, length
  <2>2. n \in Nat /\ length = n * LARGE + (length % LARGE) /\ length % LARGE \in 0 .. LARGE - 1
    BY <1>2, <2>0, SMT
  <2>3. n * LARGE \in Nat /\ n * LARGE <= length
    BY <1>2, <2>2, SMT
  <2> HIDE DEF n
  <2>4. ASSUME NEW k \in 1 .. n
        PROVE  /\ chunk(k) \in Nat /\ chunk(k) % LARGE = 0
               /\ e.base <= chunk(k) /\ chunk(k) + LARGE <= EndOf(e)
    <3>1. PICK q \in Nat : base = q * LARGE + (base % LARGE)
      BY <1>2, <1>3, Multiple
    <3>2. q * LARGE \in Nat /\ (k - 1) * LARGE \in Nat /\ q + (k - 1) \in Nat
          /\ (q + (k - 1)) * LARGE = q * LARGE + (k - 1) * LARGE
      BY <1>2, <2>2, <2>4, SMT
    <3>3. ((q + (k - 1)) * LARGE + 0) % LARGE = 0
      BY <1>2, <3>2, Remainder, SMT
    <3>4. chunk(k) = (q + (k - 1)) * LARGE + 0
      BY <1>3, <3>1, <3>2, SMT
    <3>5. (k - 1) * LARGE + LARGE <= n * LARGE
      <4>1. (n - k) * LARGE >= 0
        BY <1>2, <2>2, <2>4, SMT
      <4>2. (n - k) * LARGE = n * LARGE - ((k - 1) * LARGE + LARGE)
        BY <1>2, <2>2, <2>4, SMT
      <4> QED
        BY <1>2, <2>3, <3>2, <4>1, <4>2, SMT
    <3>6. chunk(k) % LARGE = 0
      BY <3>3, <3>4, Zenon
    <3> QED
      BY <1>1, <1>2, <1>3, <1>4, <2>0, <2>3, <3>2, <3>5, <3>6, SMT
  <2>5. ASSUME NEW c \in Nat, c % LARGE = 0, e.base <= c, c + LARGE <= EndOf(e)
        PROVE  \E k \in 1 .. n : c = chunk(k)
    <3>1. PICK p \in Nat : c = p * LARGE + (c % LARGE)
      BY <1>2, Multiple
    <3>2. PICK q \in Nat : base = q * LARGE + (base % LARGE)
      BY <1>2, <1>3, Multiple
    <3>3. p * LARGE \in Nat /\ q * LARGE \in Nat /\ c = p * LARGE /\ base = q * LARGE
      BY <1>2, <1>3, <2>5, <3>1, <3>2, SMT
    <3>4. base <= c
      BY <1>3, <2>5
    <3>5. q <= p
      <4>1. CASE p < q
        <5>1. (q - p) * LARGE >= LARGE /\ q * LARGE = p * LARGE + (q - p) * LARGE
          BY <1>2, <4>1, SMT
        <5> QED
          BY <1>2, <3>3, <3>4, <5>1, SMT
      <4> QED
        BY <4>1
    <3>6. (p - q) * LARGE = c - base
      BY <1>2, <3>3, SMT
    <3>7. p - q < n
      <4>1. CASE n <= p - q
        <5>1. (p - q) * LARGE >= n * LARGE
          BY <1>2, <2>2, <3>5, <4>1, TimesGrows
        <5>2. c - base + LARGE <= length
          BY <1>1, <1>2, <1>3, <1>4, <2>5, SMT
        <5>3. length < n * LARGE + LARGE
          BY <1>2, <2>2, <2>3, SMT
        <5> QED
          BY <1>2, <1>3, <2>0, <2>3, <2>5, <3>6, <5>1, <5>2, <5>3, SMT
      <4> QED
        BY <2>2, <4>1, SMT
    <3>8. p - q + 1 \in 1 .. n /\ (p - q + 1) - 1 = p - q
      BY <2>2, <3>5, <3>7, SMT
    <3>9. c = base + (p - q) * LARGE
      BY <1>3, <3>6, SMT
    <3>10. c = chunk(p - q + 1)
      BY <3>8, <3>9, Zenon
    <3> QED
      BY <3>8, <3>10
  <2>6. ASSUME NEW k \in 1 .. n, NEW l \in 1 .. n, chunk(k) = chunk(l) PROVE k = l
    <3>1. (k - 1) * LARGE \in Int /\ (l - 1) * LARGE \in Int
      BY <1>2, <2>2, SMT
    <3>2. (k - 1) * LARGE = (l - 1) * LARGE
      BY <1>3, <2>6, <3>1, SMT
    <3>3. (k - l) * LARGE = 0
      BY <1>2, <2>2, <3>2, SMT
    <3> QED
      BY <1>2, <2>2, <3>3, SMT
  <2> HIDE DEF chunk
  <2>7. ChunksOf(e) = [k \in 1 .. n |-> chunk(k)]
    BY <2>1 DEF chunk
  <2>8. ChunksOf(e) \in Seq(Nat) /\ DOMAIN ChunksOf(e) = 1 .. n
    BY <2>2, <2>4, <2>7
  <2>9. IsInjective(ChunksOf(e))
    BY <2>6, <2>7, <2>8 DEF IsInjective
  <2>10. \A c : c \in Range(ChunksOf(e)) <=> \E k \in 1 .. n : c = chunk(k)
    BY <2>7, <2>8 DEF Range
  <2> QED
    BY <2>0, <2>4, <2>5, <2>8, <2>9, <2>10
<1> QED
  BY <1>5, <1>6

\* Pushing a sequence makes it the top of the stack, the last one first.
LEMMA ReversePushed ==
    ASSUME NEW S, NEW s \in Seq(S), NEW t \in Seq(S)
    PROVE  /\ Reverse(s) \o t \in Seq(S)
           /\ Range(Reverse(s) \o t) = Range(s) \cup Range(t)
           /\ IsInjective(s) /\ IsInjective(t) /\ Range(s) \cap Range(t) = {}
                  => IsInjective(Reverse(s) \o t)
<1> DEFINE r == Reverse(s)
           u == r \o t
           n == Len(s)
           m == Len(t)
<1>1. n \in Nat /\ m \in Nat /\ DOMAIN s = 1 .. n /\ DOMAIN t = 1 .. m
  BY LenProperties
<1>2. r = [k \in 1 .. n |-> s[(n - k) + 1]]
  BY DEF Reverse
<1>3. r \in Seq(S) /\ Len(r) = n /\ DOMAIN r = 1 .. n
  <2> HIDE DEF n
  <2>1. \A k \in 1 .. n : s[(n - k) + 1] \in S
    <3> TAKE k \in 1 .. n
    <3>1. (n - k) + 1 \in 1 .. n
      BY <1>1
    <3> QED
      BY <1>1, <3>1, ElementOfSeq DEF n
  <2>2. r \in [1 .. n -> S]
    BY <1>2, <2>1
  <2>3. r \in Seq(S)
    BY <1>1, <2>2, SeqDef
  <2>4. DOMAIN r = 1 .. Len(r) /\ DOMAIN r = 1 .. n /\ Len(r) \in Nat
    BY <2>2, <2>3, LenProperties
  <2>5. Len(r) = n
    <3>1. \A a, b \in Nat : 1 .. a = 1 .. b => a = b
      <4> SUFFICES ASSUME NEW a \in Nat, NEW b \in Nat, 1 .. a = 1 .. b, a # b PROVE FALSE
        OBVIOUS
      <4>1. a \in 1 .. a <=> a \in 1 .. b
        OBVIOUS
      <4>2. b \in 1 .. a <=> b \in 1 .. b
        OBVIOUS
      <4> QED
        BY <4>1, <4>2
    <3> QED
      BY <1>1, <2>4, <3>1, Zenon DEF n
  <2> QED
    BY <2>3, <2>4, <2>5
<1>4. \A k \in 1 .. n : (n - k) + 1 \in 1 .. n /\ r[k] = s[(n - k) + 1] /\ r[(n - k) + 1] = s[k]
  <2> HIDE DEF n, r
  <2> TAKE k \in 1 .. n
  <2>1. (n - k) + 1 \in 1 .. n /\ (n - ((n - k) + 1)) + 1 = k
    BY <1>1
  <2> QED
    BY <1>2, <2>1
<1> HIDE DEF r, n, m
<1>5. /\ u \in Seq(S) /\ Len(u) = n + m
      /\ \A k \in 1 .. n + m : u[k] = IF k <= n THEN r[k] ELSE t[k - n]
  <2>1. /\ r \o t \in Seq(S) /\ Len(r \o t) = Len(r) + Len(t)
        /\ \A k \in 1 .. Len(r) + Len(t) :
               (r \o t)[k] = IF k <= Len(r) THEN r[k] ELSE t[k - Len(r)]
    BY <1>3, ConcatProperties
  <2> QED
    BY <1>3, <2>1, Zenon DEF m
<1>6. DOMAIN u = 1 .. n + m
  BY <1>5, LenProperties
<1> HIDE DEF u
<1>7. \A k \in 1 .. n : k \in 1 .. n + m /\ u[k] = s[(n - k) + 1] /\ u[(n - k) + 1] = s[k]
  <2> TAKE k \in 1 .. n
  <2>1. k \in 1 .. n + m /\ (n - k) + 1 \in 1 .. n + m /\ k <= n /\ (n - k) + 1 <= n
    BY <1>1
  <2>2. u[k] = r[k] /\ u[(n - k) + 1] = r[(n - k) + 1]
    BY <1>5, <2>1, Zenon
  <2> QED
    BY <1>4, <2>1, <2>2, Zenon
<1>8. \A k \in 1 .. m : n + k \in 1 .. n + m /\ u[n + k] = t[k]
  <2> TAKE k \in 1 .. m
  <2>1. n + k \in 1 .. n + m /\ ~(n + k <= n) /\ (n + k) - n = k
    BY <1>1
  <2>2. u[n + k] = t[(n + k) - n]
    BY <1>5, <2>1, Zenon
  <2> QED
    BY <2>1, <2>2, Zenon
<1>9. \A k \in 1 .. n + m : k \in 1 .. n \/ (k - n \in 1 .. m /\ u[k] = t[k - n])
  <2> TAKE k \in 1 .. n + m
  <2>1. CASE k <= n
    BY <1>1, <2>1
  <2>2. CASE ~(k <= n)
    <3>1. k - n \in 1 .. m
      BY <1>1, <2>2
    <3>2. u[k] = t[k - n]
      BY <1>5, <2>2, Zenon
    <3> QED
      BY <3>1, <3>2
  <2> QED
    BY <2>1, <2>2
<1>10. Range(u) = Range(s) \cup Range(t)
  <2>1. ASSUME NEW x \in Range(u) PROVE x \in Range(s) \cup Range(t)
    <3>1. PICK k \in 1 .. n + m : x = u[k]
      BY <1>6 DEF Range
    <3> QED
      BY <1>1, <1>4, <1>7, <1>9, <3>1 DEF Range
  <2>2. ASSUME NEW x \in Range(s) PROVE x \in Range(u)
    <3>1. PICK k \in 1 .. n : x = s[k]
      BY <1>1 DEF Range
    <3>2. (n - k) + 1 \in DOMAIN u /\ x = u[(n - k) + 1]
      BY <1>4, <1>6, <1>7, <3>1
    <3> QED
      BY <3>2 DEF Range
  <2>3. ASSUME NEW x \in Range(t) PROVE x \in Range(u)
    <3>1. PICK k \in 1 .. m : x = t[k]
      BY <1>1 DEF Range
    <3>2. n + k \in DOMAIN u /\ x = u[n + k]
      BY <1>6, <1>8, <3>1
    <3> QED
      BY <3>2 DEF Range
  <2> QED
    BY <2>1, <2>2, <2>3
<1>11. ASSUME IsInjective(s), IsInjective(t), Range(s) \cap Range(t) = {} PROVE IsInjective(u)
  <2> SUFFICES ASSUME NEW k \in 1 .. n + m, NEW l \in 1 .. n + m, u[k] = u[l] PROVE k = l
    BY <1>6 DEF IsInjective
  <2>1. ASSUME NEW a \in 1 .. n, NEW b \in 1 .. m PROVE s[a] # t[b]
    BY <1>1, <1>11 DEF Range
  <2>2. \A a, b \in 1 .. n : s[a] = s[b] => a = b
    BY <1>1, <1>11 DEF IsInjective
  <2>3. \A a, b \in 1 .. m : t[a] = t[b] => a = b
    BY <1>1, <1>11 DEF IsInjective
  <2>4. CASE k \in 1 .. n /\ l \in 1 .. n
    <3>1. (n - k) + 1 = (n - l) + 1
      BY <1>4, <1>7, <2>2, <2>4
    <3> QED
      BY <1>1, <2>4, <3>1
  <2>5. CASE k \notin 1 .. n /\ l \notin 1 .. n
    <3>1. k - n = l - n
      BY <1>9, <2>3, <2>5
    <3> QED
      BY <1>1, <3>1
  <2>6. CASE k \in 1 .. n /\ l \notin 1 .. n
    BY <1>4, <1>7, <1>9, <2>1, <2>6
  <2>7. CASE k \notin 1 .. n /\ l \in 1 .. n
    <3>1. t[k - n] = s[(n - l) + 1]
      BY <1>7, <1>9, <2>7
    <3> QED
      BY <1>4, <1>9, <2>1, <2>7, <3>1
  <2> QED
    BY <2>4, <2>5, <2>6, <2>7
<1> QED
  BY <1>5, <1>10, <1>11 DEF u, r

\* What is left of an entry without the kernel.  A usable one never becomes two,
\* and only one that spans the kernel loses more than the kernel.
LEMMA KeptFacts ==
    ASSUME NEW e \in Entry
    PROVE  /\ Kept(e) \in Entry
           /\ \A room : (IF e.usable THEN CutOut(e, room) ELSE <<e>>) = <<Kept(e)>>
           /\ Kept(e).usable => e.usable /\ Region(Kept(e)) \subseteq Region(e) \ Kernel
           /\ e.usable /\ ~Spans(e) =>
                  Region(e) \ Kernel = IF Kept(e).usable THEN Region(Kept(e)) ELSE {}
<1>1. /\ e.base \in Nat /\ e.length \in Nat /\ e.usable \in BOOLEAN
      /\ e = [base |-> e.base, length |-> e.length, usable |-> e.usable]
  BY DEF Entry
<1>2. KERNEL_START \in Nat /\ KERNEL_END \in Nat /\ KERNEL_START < KERNEL_END
  BY MapConstants
<1>3. CASE ~e.usable
  BY <1>1, <1>3 DEF Kept
<1>4. CASE e.usable /\ e.base < KERNEL_START /\ e.base + e.length > KERNEL_START
  <2>1. Kept(e) = Below(e) /\ \A room : CutOut(e, room) = <<Below(e)>>
    BY <1>4 DEF Kept, CutOut
  <2>2. Below(e).base = e.base /\ Below(e).length = KERNEL_START - e.base /\ Below(e).usable
    BY <1>4 DEF Below, Entry
  <2>3. Below(e) \in Entry
    BY <1>1, <1>2, <1>4 DEF Below, Entry
  <2>4. Region(Below(e)) \subseteq Region(e) \ Kernel
    BY <1>1, <1>2, <1>4, <2>2 DEF Region, Kernel
  <2>5. ~Spans(e) => Region(e) \ Kernel \subseteq Region(Below(e))
    BY <1>1, <1>2, <1>4, <2>2 DEF Region, Kernel, Spans
  <2>6. Below(e).usable
    BY <2>2
  <2> QED
    BY <1>4, <2>1, <2>3, <2>4, <2>5, <2>6
<1>5. CASE /\ e.usable /\ ~(e.base < KERNEL_START /\ e.base + e.length > KERNEL_START)
           /\ e.base < KERNEL_END /\ e.base + e.length > KERNEL_END
  <2>1. Kept(e) = Above(e) /\ \A room : CutOut(e, room) = <<Above(e)>>
    BY <1>5 DEF Kept, CutOut
  <2>2. /\ Above(e).base = KERNEL_END /\ Above(e).length = e.base + e.length - KERNEL_END
        /\ Above(e).usable
    BY <1>5 DEF Above, Entry
  <2>3. Above(e) \in Entry
    <3> DEFINE l == e.base + e.length - KERNEL_END
    <3>1. KERNEL_END \in Nat /\ l \in Nat
      BY <1>1, <1>2, <1>5
    <3>2. Above(e) = [e EXCEPT !.base = KERNEL_END, !.length = l]
      BY DEF Above
    <3> HIDE DEF l
    <3> QED
      BY <3>1, <3>2 DEF Entry
  <2>4. Region(Above(e)) = Region(e) \ Kernel
    BY <1>1, <1>2, <1>5, <2>2 DEF Region, Kernel
  <2>5. Above(e).usable
    BY <2>2
  <2> QED
    BY <1>5, <2>1, <2>3, <2>4, <2>5
<1>6. CASE /\ e.usable /\ ~(e.base < KERNEL_START /\ e.base + e.length > KERNEL_START)
           /\ ~(e.base < KERNEL_END /\ e.base + e.length > KERNEL_END)
           /\ e.base >= KERNEL_START /\ e.base + e.length <= KERNEL_END
  <2> DEFINE f == [e EXCEPT !.usable = FALSE]
  <2>1. Kept(e) = f /\ \A room : CutOut(e, room) = <<f>>
    BY <1>6 DEF Kept, CutOut
  <2>2. ~f.usable
    BY DEF Entry
  <2>3. f \in Entry
    BY DEF Entry
  <2>4. Region(e) \ Kernel = {}
    BY <1>1, <1>2, <1>6 DEF Region, Kernel
  <2> QED
    BY <1>6, <2>1, <2>2, <2>3, <2>4
<1>7. CASE /\ e.usable /\ ~(e.base < KERNEL_START /\ e.base + e.length > KERNEL_START)
           /\ ~(e.base < KERNEL_END /\ e.base + e.length > KERNEL_END)
           /\ ~(e.base >= KERNEL_START /\ e.base + e.length <= KERNEL_END)
  <2>1. ~(e.base < KERNEL_START /\ e.base + e.length > KERNEL_END)
    BY <1>1, <1>2, <1>7
  <2>2. Kept(e) = e /\ \A room : CutOut(e, room) = <<e>>
    BY <1>7, <2>1 DEF Kept, CutOut
  <2>3. Region(e) \ Kernel = Region(e)
    BY <1>1, <1>2, <1>7 DEF Region, Kernel
  <2> QED
    BY <1>7, <2>2, <2>3
<1> QED
  BY <1>1, <1>3, <1>4, <1>5, <1>6, <1>7

\* The entries of the map and what is kept of them.  No two have memory in common.
LEMMA ReportedFacts ==
    ASSUME reported \in Maps, NEW j \in 1 .. Len(reported)
    PROVE  /\ reported[j] \in Entry /\ Kept(reported[j]) \in Entry
           /\ \A k \in 1 .. Len(reported) :
                  j # k /\ Kept(reported[j]).usable /\ Kept(reported[k]).usable
                      => Region(Kept(reported[j])) \cap Region(Kept(reported[k])) = {}
<1>1. /\ reported \in Seq(Entry)
      /\ \A a, b \in DOMAIN reported :
             a # b /\ reported[a].usable /\ reported[b].usable
                 => Region(reported[a]) \cap Region(reported[b]) = {}
  BY MapAssumption, Zenon
<1>2. DOMAIN reported = 1 .. Len(reported)
  BY <1>1, LenProperties
<1>3. \A k \in 1 .. Len(reported) : reported[k] \in Entry
  BY <1>1, ElementOfSeq
<1>4. \A k \in 1 .. Len(reported) :
          /\ Kept(reported[k]) \in Entry
          /\ Kept(reported[k]).usable =>
                 reported[k].usable /\ Region(Kept(reported[k])) \subseteq Region(reported[k])
  BY <1>3, KeptFacts
<1> QED
  BY <1>1, <1>2, <1>3, <1>4

LEMMA UsableFacts ==
    ASSUME reported \in Maps, NEW j \in 1 .. Len(reported), Kept(reported[j]).usable
    PROVE  Region(Kept(reported[j])) \subseteq Usable \ Kernel
<1>1. reported \in Seq(Entry)
  BY MapAssumption, Zenon
<1>2. DOMAIN reported = 1 .. Len(reported)
  BY <1>1, LenProperties
<1>3. reported[j].usable /\ Region(Kept(reported[j])) \subseteq Region(reported[j]) \ Kernel
  BY ReportedFacts, KeptFacts
<1>4. Region(reported[j]) \subseteq Usable
  BY <1>2, <1>3 DEF Usable, Range
<1> QED
  BY <1>3, <1>4

\* The memory in one more entry
LEMMA OneMore ==
    ASSUME reported \in Maps, NEW j \in 1 .. Len(reported)
    PROVE  LET f == Kept(reported[j]) IN
           /\ f.usable => /\ KeptBytes(j) = KeptBytes(j - 1) \cup Region(f)
                          /\ KeptBytes(j - 1) \cap Region(f) = {}
           /\ ~f.usable => KeptBytes(j) = KeptBytes(j - 1)
<1> DEFINE f == Kept(reported[j])
           used(n) == {k \in 1 .. n : Kept(reported[k]).usable}
<1>0. Len(reported) \in Nat
  <2>1. reported \in Seq(Entry)
    BY MapAssumption, Zenon
  <2> QED
    BY <2>1, LenProperties
<1>1. \A k : k \in 1 .. j <=> k \in 1 .. j - 1 \/ k = j
  BY <1>0
<1>2. f.usable => used(j) = used(j - 1) \cup {j}
  BY <1>1
<1>3. ~f.usable => used(j) = used(j - 1)
  BY <1>1
<1>4. \A k \in used(j - 1) : k \in 1 .. Len(reported) /\ k # j /\ Kept(reported[k]).usable
  BY <1>0
<1>5. \A n : KeptBytes(n) = UNION {Region(Kept(reported[k])) : k \in used(n)}
  BY Zenon DEF KeptBytes
<1> HIDE DEF used
<1>6. f.usable => KeptBytes(j) = KeptBytes(j - 1) \cup Region(f)
  BY <1>2, <1>5
<1>7. f.usable => KeptBytes(j - 1) \cap Region(f) = {}
  <2> SUFFICES ASSUME f.usable, NEW x \in KeptBytes(j - 1), x \in Region(f) PROVE FALSE
    OBVIOUS
  <2>1. PICK k \in used(j - 1) : x \in Region(Kept(reported[k]))
    BY <1>5
  <2>2. Region(Kept(reported[j])) \cap Region(Kept(reported[k])) = {}
    BY <1>4, ReportedFacts
  <2> QED
    BY <2>1, <2>2
<1>8. ~f.usable => KeptBytes(j) = KeptBytes(j - 1)
  BY <1>3, <1>5
<1> QED
  BY <1>6, <1>7, <1>8

LEMMA MapStart == MapInit => MapInv
<1> SUFFICES ASSUME MapInit PROVE MapInv
  OBVIOUS
<1>1. /\ reported \in Maps /\ mmap = reported /\ map_at = "cut" /\ map_i = 1
      /\ mmap_size = Len(reported) /\ total_usable_ram = 0 /\ highest_address = 0
      /\ psi = NoTables /\ pushed = <<>>
  BY DEF MapInit, MapBegin
<1>2. reported \in Seq(Entry)
  BY <1>1, MapAssumption, Zenon
<1>3. Len(reported) \in Nat
  BY <1>2, LenProperties
<1>4. MapTyped
  <2>1. psi \in [base : Nat, num_pds : Nat, num_pdpts : Nat, space : Nat]
    BY <1>1 DEF NoTables
  <2>2. pushed \in Seq(Nat)
    BY <1>1
  <2> QED
    BY <1>1, <1>2, <1>3, <2>1, <2>2 DEF MapTyped
<1>5. CutSoFar = 0
  BY <1>1 DEF CutSoFar
<1>6. KeptInv
  BY <1>1, <1>5 DEF KeptInv
<1>7. HighestInv
  BY <1>5 DEF HighestInv
<1>8. TotalInv
  <2>1. KeptBytes(0) = {}
    BY DEF KeptBytes
  <2> QED
    BY <1>1, <1>5, <2>1, FS_EmptySet DEF TotalInv
<1>9. PlacedInv /\ PushedInv
  BY <1>1 DEF PlacedInv, PushedInv, IsInjective
<1> QED
  BY <1>4, <1>6, <1>7, <1>8, <1>9 DEF MapInv

LEMMA MapFacts ==
    ASSUME MapTyped
    PROVE  /\ Len(reported) \in Nat /\ Len(mmap) = Len(reported) /\ mmap_size = Len(reported)
           /\ map_i \in Nat /\ 1 <= map_i /\ map_i <= Len(reported) + 1
           /\ \A j \in 1 .. Len(reported) : mmap[j] \in Entry
           /\ CutSoFar \in Nat /\ CutSoFar <= Len(reported)
<1>1. /\ reported \in Maps /\ mmap \in Seq(Entry) /\ Len(mmap) = Len(reported)
      /\ mmap_size = Len(reported) /\ map_i \in 1 .. Len(reported) + 1
  BY DEF MapTyped
<1>2. reported \in Seq(Entry)
  BY <1>1, MapAssumption, Zenon
<1>3. Len(reported) \in Nat
  BY <1>2, LenProperties
<1>4. \A j \in 1 .. Len(reported) : mmap[j] \in Entry
  BY <1>1, ElementOfSeq
<1> QED
  BY <1>1, <1>3, <1>4 DEF CutSoFar

\* One entry is cut and accounted for.
LEMMA MapCut == ASSUME MapInv, Cut PROVE MapInv'
<1> DEFINE n == Len(reported)
           f == Kept(reported[map_i])
<1>1. MapTyped /\ KeptInv /\ HighestInv /\ TotalInv /\ PlacedInv /\ PushedInv
  BY DEF MapInv
<1>2. /\ n \in Nat /\ Len(mmap) = n /\ mmap_size = n
      /\ map_i \in Nat /\ 1 <= map_i
  BY <1>1, MapFacts
<1>3. /\ reported \in Maps /\ mmap \in Seq(Entry) /\ total_usable_ram \in Nat /\ highest_address \in Nat
      /\ psi \in [base : Nat, num_pds : Nat, num_pdpts : Nat, space : Nat] /\ pushed \in Seq(Nat)
  BY <1>1 DEF MapTyped
<1>4. /\ map_at = "cut" /\ map_i <= n /\ map_i' = map_i + 1
      /\ reported' = reported /\ map_at' = map_at /\ mmap_size' = mmap_size
      /\ psi' = psi /\ pushed' = pushed
  BY <1>2 DEF Cut
<1>5. CutSoFar = map_i - 1 /\ CutSoFar' = map_i /\ map_i \in 1 .. n
  BY <1>2, <1>4 DEF CutSoFar
<1>6. /\ psi = NoTables /\ pushed = <<>>
      /\ \A j \in 1 .. n : mmap[j] = IF j <= map_i - 1 THEN Kept(reported[j]) ELSE reported[j]
  BY <1>1, <1>4, <1>5 DEF KeptInv
<1>7. mmap[map_i] = reported[map_i]
  BY <1>2, <1>5, <1>6
<1>8. /\ f \in Entry
      /\ \A room : (IF reported[map_i].usable THEN CutOut(reported[map_i], room) ELSE <<reported[map_i]>>)
                      = <<f>>
  BY <1>3, <1>5, ReportedFacts, KeptFacts
<1> HIDE DEF f
<1>9. mmap' = [mmap EXCEPT ![map_i] = f] /\ Account(f)
  <2> DEFINE cut == IF mmap[map_i].usable
                    THEN CutOut(mmap[map_i], Len(mmap) < MMAP_MAX_ENTRIES) ELSE <<mmap[map_i]>>
  <2>1. mmap' = [mmap EXCEPT ![map_i] = cut[1]] \o Tail(cut) /\ Account(cut[1])
    BY DEF Cut
  <2>2. cut = <<f>>
    BY <1>7, <1>8
  <2> HIDE DEF cut
  <2>3. cut[1] = f /\ Tail(cut) = <<>>
    BY <2>2
  <2>4. [mmap EXCEPT ![map_i] = f] \in Seq(Entry)
    BY <1>2, <1>3, <1>5, <1>8, ExceptSeq
  <2>5. [mmap EXCEPT ![map_i] = f] \o <<>> = [mmap EXCEPT ![map_i] = f]
    BY <2>4, ConcatEmptySeq
  <2> QED
    BY <2>1, <2>3, <2>5
<1>10. /\ mmap' \in Seq(Entry) /\ Len(mmap') = n
       /\ \A j \in 1 .. n : mmap'[j] = IF j = map_i THEN f ELSE mmap[j]
  BY <1>2, <1>3, <1>5, <1>8, <1>9, ExceptSeq
<1>11. /\ f.usable => /\ total_usable_ram' = total_usable_ram + f.length
                      /\ highest_address' = Greater(highest_address, f.base + f.length)
       /\ ~f.usable => total_usable_ram' = total_usable_ram /\ highest_address' = highest_address
  BY <1>9 DEF Account
<1>12. f.base \in Nat /\ f.length \in Nat
  BY <1>8 DEF Entry
<1>13. /\ total_usable_ram' \in Nat /\ highest_address' \in Nat /\ highest_address <= highest_address'
       /\ f.usable => EndOf(f) <= highest_address'
  <2>1. CASE f.usable
    <3>1. f.base + f.length \in Nat
      BY <1>12
    <3>2. /\ highest_address' \in Nat /\ highest_address <= highest_address'
          /\ f.base + f.length <= highest_address'
      BY <1>3, <1>11, <2>1, <3>1 DEF Greater
    <3> QED
      BY <1>3, <1>11, <1>12, <2>1, <3>2 DEF EndOf
  <2>2. CASE ~f.usable
    BY <1>3, <1>11, <2>2
  <2> QED
    BY <2>1, <2>2
<1>14. MapTyped'
  BY <1>1, <1>2, <1>3, <1>4, <1>5, <1>10, <1>13 DEF MapTyped
<1>15. KeptInv'
  <2>1. \A j \in 1 .. n : mmap'[j] = IF j <= map_i THEN Kept(reported[j]) ELSE reported[j]
    BY <1>2, <1>5, <1>6, <1>10 DEF f
  <2> QED
    BY <1>4, <1>5, <1>6, <2>1 DEF KeptInv
<1>16. HighestInv'
  <2> SUFFICES ASSUME NEW j \in 1 .. map_i, Kept(reported[j]).usable
               PROVE  EndOf(Kept(reported[j])) <= highest_address'
    BY <1>4, <1>5 DEF HighestInv
  <2>1. CASE j = map_i
    BY <1>13, <2>1 DEF f
  <2>2. CASE j # map_i
    <3>1. j \in 1 .. CutSoFar /\ j \in 1 .. n
      BY <1>2, <1>5, <2>2
    <3>2. EndOf(Kept(reported[j])) <= highest_address
      BY <1>1, <3>1 DEF HighestInv
    <3>3. Kept(reported[j]) \in Entry
      BY <1>3, <3>1, ReportedFacts
    <3>4. EndOf(Kept(reported[j])) \in Nat
      BY <3>3 DEF Entry, EndOf
    <3> QED
      BY <1>3, <1>13, <3>2, <3>4
  <2> QED
    BY <2>1, <2>2
<1>17. TotalInv'
  <2>1. total_usable_ram = Cardinality(KeptBytes(map_i - 1))
    BY <1>1, <1>5 DEF TotalInv
  <2>2. TotalInv' <=> total_usable_ram' = Cardinality(KeptBytes(map_i))
    BY <1>4, <1>5 DEF TotalInv, KeptBytes
  <2>3. CASE ~f.usable
    BY <1>3, <1>5, <1>11, <2>1, <2>2, <2>3, OneMore DEF f
  <2>4. CASE f.usable
    <3>1. /\ KeptBytes(map_i) = KeptBytes(map_i - 1) \cup Region(f)
          /\ KeptBytes(map_i - 1) \cap Region(f) = {}
      BY <1>3, <1>5, <2>4, OneMore DEF f
    <3>2. KeptBytes(map_i - 1) \subseteq 0 .. highest_address
      <4> SUFFICES ASSUME NEW x \in KeptBytes(map_i - 1) PROVE x \in 0 .. highest_address
        OBVIOUS
      <4>1. PICK j \in 1 .. map_i - 1 : Kept(reported[j]).usable /\ x \in Region(Kept(reported[j]))
        BY DEF KeptBytes
      <4>2. j \in 1 .. n /\ EndOf(Kept(reported[j])) <= highest_address
        BY <1>1, <1>2, <1>5, <4>1 DEF HighestInv
      <4>3. Kept(reported[j]) \in Entry
        BY <1>3, <4>2, ReportedFacts
      <4> QED
        BY <1>3, <4>1, <4>2, <4>3 DEF Entry, EndOf, Region
    <3>3. IsFiniteSet(0 .. highest_address)
      BY <1>3, FS_Interval
    <3>4. IsFiniteSet(KeptBytes(map_i - 1))
      BY <3>2, <3>3, FS_Subset
    <3>5. IsFiniteSet(Region(f)) /\ Cardinality(Region(f)) = f.length
      <4>1. f.base \in Int /\ f.base + f.length - 1 \in Int
        BY <1>12
      <4>2. /\ IsFiniteSet(f.base .. f.base + f.length - 1)
            /\ Cardinality(f.base .. f.base + f.length - 1)
                  = IF f.base > f.base + f.length - 1 THEN 0 ELSE (f.base + f.length - 1) - f.base + 1
        BY <4>1, FS_Interval, Zenon
      <4> QED
        BY <1>12, <4>2 DEF Region
    <3>6. Cardinality(KeptBytes(map_i)) =
              Cardinality(KeptBytes(map_i - 1)) + Cardinality(Region(f)) - Cardinality({})
      BY <3>1, <3>4, <3>5, FS_Union
    <3>7. Cardinality({}) = 0
      BY FS_EmptySet
    <3> QED
      BY <1>3, <1>11, <1>12, <2>1, <2>2, <2>4, <3>5, <3>6, <3>7
  <2> QED
    BY <2>3, <2>4
<1>18. PlacedInv' /\ PushedInv'
  BY <1>1, <1>4, <1>6 DEF PlacedInv, PushedInv
<1> QED
  BY <1>14, <1>15, <1>16, <1>17, <1>18 DEF MapInv

\* There is nothing left for the loop over the added entries.
LEMMA MapExtras == ASSUME MapInv, Extras PROVE MapInv'
<1> DEFINE n == Len(reported)
<1>1. MapTyped /\ KeptInv /\ HighestInv /\ TotalInv /\ PlacedInv /\ PushedInv
  BY DEF MapInv
<1>2. /\ n \in Nat /\ Len(mmap) = n /\ mmap_size = n /\ map_i \in Nat /\ map_i <= n + 1
  BY <1>1, MapFacts
<1>3. /\ map_at = "cut" /\ map_i = n + 1 /\ map_at' = "place" /\ map_i' = 1
      /\ reported' = reported /\ mmap' = mmap /\ mmap_size' = mmap_size /\ psi' = psi
      /\ pushed' = pushed
      /\ total_usable_ram' = total_usable_ram /\ highest_address' = highest_address
  BY <1>2 DEF Extras
<1>4. CutSoFar = n /\ CutSoFar' = n
  BY <1>2, <1>3 DEF CutSoFar
<1>5. MapTyped'
  BY <1>1, <1>2, <1>3 DEF MapTyped
<1>6. KeptInv'
  BY <1>1, <1>3, <1>4 DEF KeptInv
<1>7. HighestInv'
  BY <1>1, <1>3, <1>4 DEF HighestInv
<1>8. TotalInv'
  BY <1>1, <1>3, <1>4 DEF TotalInv, KeptBytes
<1>9. PlacedInv' /\ PushedInv'
  BY <1>1, <1>3 DEF PlacedInv, PushedInv
<1> QED
  BY <1>5, <1>6, <1>7, <1>8, <1>9 DEF MapInv

\* How many tables are needed
LEMMA SpaceFacts ==
    ASSUME NEW h \in Nat
    PROVE  /\ num_pds(h) \in Nat /\ num_pdpts(h) \in Nat
           /\ SMALL * (num_pds(h) + num_pdpts(h)) \in Nat
<1> DEFINE n == (h + GIB \div 2) \div GIB
           m == (num_pds(h) + 1) \div PDT_PER_PDPT
<1>1. GIB \in Nat \ {0} /\ PDT_PER_PDPT \in Nat \ {0} /\ SMALL \in Nat
  BY MapConstants
<1>2. GIB \div 2 \in Nat
  BY <1>1, SMT
<1>3. n \in Nat
  BY <1>1, <1>2, SMT
<1>4. num_pds(h) = IF n >= 1 THEN n - 1 ELSE n
  BY DEF num_pds
<1> HIDE DEF n
<1>5. num_pds(h) \in Nat
  BY <1>3, <1>4
<1>6. m \in Nat
  BY <1>1, <1>5, SMT
<1>7. num_pdpts(h) = IF m >= 1 THEN m - 1 ELSE m
  BY DEF num_pdpts
<1> HIDE DEF m
<1>8. num_pdpts(h) \in Nat
  BY <1>6, <1>7
<1>9. num_pds(h) + num_pdpts(h) \in Nat
  BY <1>5, <1>8
<1>10. \A x, y \in Nat : x * y \in Nat
  BY SMT
<1> QED
  BY <1>1, <1>5, <1>8, <1>9, <1>10

\* The tables go to the first region behind the kernel that has room for them.
LEMMA MapPlace == ASSUME MapInv, Place PROVE MapInv'
<1> DEFINE n == Len(reported)
           e == mmap[map_i]
           base == AlignUp(e.base, SMALL)
<1>1. MapTyped /\ KeptInv /\ HighestInv /\ TotalInv /\ PlacedInv /\ PushedInv
  BY DEF MapInv
<1>2. /\ n \in Nat /\ Len(mmap) = n /\ mmap_size = n /\ map_i \in Nat /\ 1 <= map_i
  BY <1>1, MapFacts
<1>3. /\ mmap \in Seq(Entry) /\ total_usable_ram \in Nat /\ highest_address \in Nat
      /\ psi \in [base : Nat, num_pds : Nat, num_pdpts : Nat, space : Nat] /\ pushed \in Seq(Nat)
  BY <1>1 DEF MapTyped
<1>4. /\ map_at = "place"
      /\ reported' = reported /\ mmap_size' = mmap_size /\ pushed' = pushed
      /\ total_usable_ram' = total_usable_ram /\ highest_address' = highest_address
  BY DEF Place
<1>5. CutSoFar = n
  BY <1>4 DEF CutSoFar
<1>6. /\ psi = NoTables /\ pushed = <<>>
      /\ \A j \in 1 .. n : mmap[j] = Kept(reported[j])
  BY <1>1, <1>4, <1>5 DEF KeptInv
<1>7. CASE /\ map_at' \in {"place", "panic"} /\ mmap' = mmap /\ psi' = psi
           /\ map_i' \in 1 .. n + 1
  <2>1. CutSoFar' = n
    BY <1>4, <1>7 DEF CutSoFar
  <2>2. MapTyped'
    BY <1>1, <1>2, <1>3, <1>4, <1>7 DEF MapTyped
  <2>3. KeptInv'
    BY <1>4, <1>6, <1>7, <2>1 DEF KeptInv
  <2>4. HighestInv' /\ TotalInv'
    BY <1>1, <1>4, <1>5, <2>1 DEF HighestInv, TotalInv, KeptBytes
  <2>5. PlacedInv' /\ PushedInv'
    BY <1>1, <1>4, <1>6, <1>7 DEF PlacedInv, PushedInv
  <2> QED
    BY <2>2, <2>3, <2>4, <2>5 DEF MapInv
<1>8. CASE /\ map_i <= n /\ e.usable /\ base >= KERNEL_END /\ Room(e) >= space_needed
           /\ psi' = [base |-> base, space |-> space_needed,
                      num_pds |-> num_pds(highest_address), num_pdpts |-> num_pdpts(highest_address)]
           /\ mmap' = [mmap EXCEPT ![map_i] = Shrink(e, base)]
           /\ map_at' = "chunks" /\ map_i' = 1
  <2>1. map_i \in 1 .. n /\ e = Kept(reported[map_i]) /\ e \in Entry
    BY <1>1, <1>2, <1>6, <1>8, MapFacts
  <2>2. e.base \in Nat /\ e.length \in Nat
    BY <2>1 DEF Entry
  <2>3. base \in Nat /\ e.base <= base
    BY <2>2, MapConstants, AlignedUp
  <2>4. /\ num_pds(highest_address) \in Nat /\ num_pdpts(highest_address) \in Nat
        /\ space_needed \in Nat
    BY <1>3, SpaceFacts, Zenon DEF space_needed
  <2>5. Room(e) = e.length - (base - e.base)
    BY DEF Room
  <2>6. /\ base + space_needed \in Nat /\ e.length - (base - e.base) - space_needed \in Nat
        /\ base + space_needed <= EndOf(e)
    BY <1>8, <2>2, <2>3, <2>4, <2>5 DEF EndOf
  <2>7. Shrink(e, base) = [e EXCEPT !.base = base + space_needed,
                                    !.length = e.length - (base - e.base) - space_needed]
    BY DEF Shrink
  <2>8. /\ Shrink(e, base) \in Entry /\ Shrink(e, base).base = base + space_needed
        /\ Shrink(e, base).length = e.length - (base - e.base) - space_needed
        /\ Shrink(e, base).usable = e.usable
    <3> DEFINE b == base + space_needed
               l == e.length - (base - e.base) - space_needed
    <3>1. b \in Nat /\ l \in Nat /\ Shrink(e, base) = [e EXCEPT !.base = b, !.length = l]
      BY <2>6, <2>7, Zenon
    <3> DEFINE s == Shrink(e, base)
    <3>2. s = [e EXCEPT !.base = b, !.length = l]
      BY <3>1
    <3> HIDE DEF b, l, e, s
    <3>3. s \in Entry /\ s.base = b /\ s.length = l /\ s.usable = e.usable
      <4>1. e \in Entry
        BY <2>1
      <4> QED
        BY <3>1, <3>2, <4>1 DEF Entry
    <3> QED
      BY <3>3, Zenon DEF b, l, s
  <2>9. EndOf(Shrink(e, base)) = EndOf(e)
    BY <2>2, <2>3, <2>4, <2>8 DEF EndOf
  <2>10. /\ mmap' \in Seq(Entry) /\ Len(mmap') = n
         /\ \A j \in 1 .. n : mmap'[j] = IF j = map_i THEN Shrink(e, base) ELSE mmap[j]
    BY <1>2, <1>3, <1>8, <2>1, <2>8, ExceptSeq
  <2>11. /\ psi'.base = base /\ psi'.space = space_needed
         /\ psi'.num_pds = num_pds(highest_address) /\ psi'.num_pdpts = num_pdpts(highest_address)
         /\ psi' \in [base : Nat, num_pds : Nat, num_pdpts : Nat, space : Nat]
    BY <1>8, <2>3, <2>4
  <2>12. CutSoFar' = n
    BY <1>4, <1>8 DEF CutSoFar
  <2>13. MapTyped'
    BY <1>1, <1>2, <1>3, <1>4, <1>8, <2>10, <2>11 DEF MapTyped
  <2>14. KeptInv'
    BY <1>8 DEF KeptInv
  <2>15. HighestInv' /\ TotalInv'
    BY <1>1, <1>4, <1>5, <2>12 DEF HighestInv, TotalInv, KeptBytes
  <2>16. \A r \in 1 .. n : r = map_i => PlacedIn(r)'
    <3>1. /\ Kept(reported[map_i]).usable
          /\ psi'.base = AlignUp(Kept(reported[map_i]).base, SMALL) /\ psi'.base >= KERNEL_END
          /\ psi'.base + psi'.space <= EndOf(Kept(reported[map_i]))
      BY <1>8, <2>1, <2>6, <2>11
    <3>2. /\ mmap'[map_i].usable /\ mmap'[map_i].base = psi'.base + psi'.space
          /\ EndOf(mmap'[map_i]) = EndOf(Kept(reported[map_i]))
      BY <1>8, <2>1, <2>8, <2>9, <2>10, <2>11
    <3>3. \A j \in 1 .. n : j # map_i => mmap'[j] = Kept(reported[j])
      BY <1>6, <2>10
    <3> HIDE DEF base, e
    <3> QED
      BY <1>4, <3>1, <3>2, <3>3 DEF PlacedIn
  <2>17. PlacedInv'
    <3>1. space_needed' = space_needed
      BY <1>4 DEF space_needed
    <3>2. \E r \in 1 .. n : PlacedIn(r)'
      BY <2>1, <2>16
    <3> HIDE DEF base, e
    <3> QED
      BY <1>4, <2>11, <3>1, <3>2 DEF PlacedInv
  <2>18. PushedInv'
    <3>1. UNION {Range(ChunksOf(mmap'[j])) : j \in 1 .. 1 - 1} = {}
      OBVIOUS
    <3>2. Range(pushed') = {} /\ IsInjective(pushed')
      BY <1>4, <1>6 DEF Range, IsInjective
    <3> QED
      BY <1>8, <3>1, <3>2 DEF PushedInv
  <2> QED
    BY <2>13, <2>14, <2>15, <2>17, <2>18 DEF MapInv
<1>9. \/ /\ map_at' \in {"place", "panic"} /\ mmap' = mmap /\ psi' = psi
         /\ map_i' \in 1 .. n + 1
      \/ /\ map_i <= n /\ e.usable /\ base >= KERNEL_END /\ Room(e) >= space_needed
         /\ psi' = [base |-> base, space |-> space_needed,
                    num_pds |-> num_pds(highest_address), num_pdpts |-> num_pdpts(highest_address)]
         /\ mmap' = [mmap EXCEPT ![map_i] = Shrink(e, base)]
         /\ map_at' = "chunks" /\ map_i' = 1
  <2>1. map_i \in 1 .. n + 1
    BY <1>1 DEF MapTyped
  <2>2. CASE map_i > n
    <3>1. map_at' = "panic" /\ mmap' = mmap /\ map_i' = map_i /\ psi' = psi
      BY <1>2, <2>2 DEF Place
    <3> QED
      BY <2>1, <3>1
  <2>3. CASE ~(map_i > n)
    <3>1. map_i + 1 \in 1 .. n + 1 /\ map_i <= n
      BY <1>2, <2>3
    <3>2. IF ~e.usable \/ e.length < SMALL
          THEN map_i' = map_i + 1 /\ UNCHANGED <<map_at, mmap, psi>>
          ELSE IF base >= GIB
          THEN map_at' = "panic" /\ UNCHANGED <<mmap, map_i, psi>>
          ELSE IF base >= KERNEL_END /\ Room(e) >= space_needed
          THEN /\ psi' = [base |-> base, space |-> space_needed,
                          num_pds |-> num_pds(highest_address),
                          num_pdpts |-> num_pdpts(highest_address)]
               /\ mmap' = [mmap EXCEPT ![map_i] = Shrink(e, base)]
               /\ map_at' = "chunks" /\ map_i' = 1
          ELSE map_i' = map_i + 1 /\ UNCHANGED <<map_at, mmap, psi>>
      BY <1>2, <2>3, Zenon DEF Place
    <3> HIDE DEF base, e
    <3> QED
      BY <1>4, <2>1, <3>1, <3>2
  <2> QED
    BY <2>2, <2>3
<1> QED
  BY <1>7, <1>8, <1>9

\* Two regions of the final map have no memory in common, and none has any of the
\* page tables, which are usable memory behind the kernel.
LEMMA FinalMap ==
    ASSUME MapInv, map_at \in {"chunks", "done"}, NEW j \in 1 .. Len(reported), mmap[j].usable
    PROVE  /\ mmap[j] \in Entry /\ Kept(reported[j]).usable
           /\ EndOf(mmap[j]) = EndOf(Kept(reported[j]))
           /\ Region(mmap[j]) \subseteq Region(Kept(reported[j])) \ TableSpace
           /\ \A k \in 1 .. Len(reported) :
                  j # k /\ mmap[k].usable => Region(mmap[j]) \cap Region(mmap[k]) = {}
<1>1. MapTyped /\ PlacedInv
  BY DEF MapInv
<1>2. reported \in Maps /\ psi \in [base : Nat, num_pds : Nat, num_pdpts : Nat, space : Nat]
  BY <1>1 DEF MapTyped
<1>3. PICK r \in 1 .. Len(reported) : PlacedIn(r)
  BY <1>1 DEF PlacedInv
<1>4. \A k \in 1 .. Len(reported) : mmap[k] \in Entry /\ Kept(reported[k]) \in Entry
  BY <1>1, <1>2, MapFacts, ReportedFacts
<1>5. ASSUME NEW k \in 1 .. Len(reported), mmap[k].usable
      PROVE  /\ Kept(reported[k]).usable
             /\ EndOf(mmap[k]) = EndOf(Kept(reported[k]))
             /\ Region(mmap[k]) \subseteq Region(Kept(reported[k]))
  <2>1. CASE k = r
    <3> DEFINE e == Kept(reported[r])
               f == mmap[r]
    <3>1. /\ e.usable /\ psi.base = AlignUp(e.base, SMALL)
          /\ f.base = psi.base + psi.space /\ EndOf(f) = EndOf(e)
      BY <1>3 DEF PlacedIn
    <3>2. /\ e.base \in Nat /\ e.length \in Nat /\ f.base \in Nat /\ f.length \in Nat
          /\ psi.base \in Nat /\ psi.space \in Nat
      BY <1>2, <1>4 DEF Entry
    <3>3. e.base <= psi.base
      BY <3>1, <3>2, AlignedUp, MapConstants
    <3> HIDE DEF e, f
    <3>4. f.base + f.length = e.base + e.length /\ e.base <= f.base
      BY <3>1, <3>2, <3>3 DEF EndOf
    <3>5. Region(f) \subseteq Region(e)
      <4>1. \A a, b, c, d \in Nat : a + b = c + d /\ c <= a => a .. a + b - 1 \subseteq c .. c + d - 1
        OBVIOUS
      <4>2. f.base .. f.base + f.length - 1 \subseteq e.base .. e.base + e.length - 1
        BY <3>2, <3>4, <4>1
      <4> QED
        BY <4>2, Zenon DEF Region
    <3> QED
      BY <2>1, <3>1, <3>5 DEF e, f
  <2>2. CASE k # r
    <3>1. mmap[k] = Kept(reported[k])
      BY <1>3, <2>2 DEF PlacedIn
    <3> QED
      BY <1>5, <3>1
  <2> QED
    BY <2>1, <2>2
<1>6. \A k \in 1 .. Len(reported) :
          j # k /\ mmap[k].usable => Region(mmap[j]) \cap Region(mmap[k]) = {}
  <2> TAKE k \in 1 .. Len(reported)
  <2> HAVE j # k /\ mmap[k].usable
  <2>1. Region(Kept(reported[j])) \cap Region(Kept(reported[k])) = {}
    BY <1>2, <1>5, ReportedFacts
  <2> QED
    BY <1>5, <2>1
<1>7. Region(mmap[j]) \cap TableSpace = {}
  <2> DEFINE e == Kept(reported[r])
             f == mmap[r]
  <2>1. /\ e.usable /\ psi.base = AlignUp(e.base, SMALL) /\ psi.base + psi.space <= EndOf(e)
        /\ f.base = psi.base + psi.space
    BY <1>3 DEF PlacedIn
  <2>2. /\ e.base \in Nat /\ e.length \in Nat /\ f.base \in Nat /\ f.length \in Nat
        /\ psi.base \in Nat /\ psi.space \in Nat
    BY <1>2, <1>4 DEF Entry
  <2>3. e.base <= psi.base
    BY <2>1, <2>2, AlignedUp, MapConstants
  <2>4. CASE j = r
    <3> HIDE DEF e, f
    <3>1. Region(f) \cap TableSpace = {}
      BY <2>1, <2>2 DEF Region, TableSpace
    <3> QED
      BY <2>4, <3>1 DEF f
  <2>5. CASE j # r
    <3>1. Region(Kept(reported[j])) \cap Region(e) = {}
      BY <1>2, <1>5, <2>1, <2>5, ReportedFacts
    <3> HIDE DEF e, f
    <3>2. TableSpace \subseteq Region(e)
      BY <2>1, <2>2, <2>3 DEF Region, TableSpace, EndOf
    <3> QED
      BY <1>5, <3>1, <3>2
  <2> QED
    BY <2>4, <2>5
<1> QED
  BY <1>4, <1>5, <1>6, <1>7

\* A chunk on the stack is a large page of one of the regions.
LEMMA PushedFrom ==
    ASSUME MapInv, NEW c \in Range(pushed)
    PROVE  /\ map_at \in {"chunks", "done"} /\ c \in Nat /\ c % LARGE = 0
           /\ \E j \in 1 .. Len(reported) :
                  mmap[j].usable /\ mmap[j].base <= c /\ c + LARGE <= EndOf(mmap[j])
<1>1. MapTyped /\ KeptInv /\ PushedInv
  BY DEF MapInv
<1>2. map_at \in {"chunks", "done"}
  <2>1. map_at \in {"cut", "place", "chunks", "done", "panic"}
    BY <1>1 DEF MapTyped
  <2>2. pushed # <<>>
    BY DEF Range
  <2> QED
    BY <1>1, <2>1, <2>2 DEF KeptInv
<1>3. PICK j \in 1 .. map_i - 1 : c \in Range(ChunksOf(mmap[j]))
  BY <1>1, <1>2 DEF PushedInv
<1>4. j \in 1 .. Len(reported) /\ mmap[j] \in Entry
  BY <1>1, MapFacts
<1> QED
  BY <1>2, <1>3, <1>4, ChunksOfRegion

LEMMA MapPush == ASSUME MapInv, PushChunks PROVE MapInv'
<1> DEFINE n == Len(reported)
           new == ChunksOf(mmap[map_i])
<1>1. MapTyped /\ KeptInv /\ HighestInv /\ TotalInv /\ PlacedInv /\ PushedInv
  BY DEF MapInv
<1>2. /\ n \in Nat /\ Len(mmap) = n /\ mmap_size = n
      /\ map_i \in Nat /\ 1 <= map_i /\ map_i <= n + 1
  BY <1>1, MapFacts
<1>3. /\ map_at = "chunks" /\ map_at' \in {"chunks", "done"}
      /\ reported' = reported /\ mmap' = mmap /\ mmap_size' = mmap_size /\ psi' = psi
      /\ total_usable_ram' = total_usable_ram /\ highest_address' = highest_address
  BY DEF PushChunks
<1>4. CutSoFar = n /\ CutSoFar' = n
  BY <1>3 DEF CutSoFar
<1>5. KeptInv' /\ HighestInv' /\ TotalInv'
  BY <1>1, <1>3, <1>4 DEF KeptInv, HighestInv, TotalInv, KeptBytes
<1>6. PlacedInv'
  <2>1. PICK r \in 1 .. n : PlacedIn(r)
    BY <1>1, <1>3 DEF PlacedInv
  <2>2. PlacedIn(r)'
    BY <1>3, <2>1 DEF PlacedIn
  <2>3. space_needed' = space_needed
    BY <1>3 DEF space_needed
  <2> QED
    BY <1>1, <1>3, <2>2, <2>3 DEF PlacedInv
<1>7. CASE map_i > n
  <2>1. map_at' = "done" /\ map_i' = map_i /\ pushed' = pushed
    BY <1>2, <1>7 DEF PushChunks
  <2>2. MapTyped'
    BY <1>1, <1>3, <2>1 DEF MapTyped
  <2>3. PushedInv'
    BY <1>1, <1>2, <1>3, <1>7, <2>1 DEF PushedInv
  <2> QED
    BY <1>5, <1>6, <2>2, <2>3 DEF MapInv
<1>8. CASE ~(map_i > n)
  <2>1. map_at' = "chunks" /\ map_i' = map_i + 1 /\ pushed' = Reverse(new) \o pushed
    BY <1>2, <1>3, <1>8 DEF PushChunks
  <2>2. map_i \in 1 .. n /\ mmap[map_i] \in Entry
    BY <1>1, <1>2, <1>8, MapFacts
  <2>3. /\ new \in Seq(Nat) /\ IsInjective(new)
        /\ \A c : c \in Range(new) =>
               /\ mmap[map_i].usable /\ c \in Nat
               /\ mmap[map_i].base <= c /\ c + LARGE <= EndOf(mmap[map_i])
    BY <2>2, ChunksOfRegion
  <2>4. pushed \in Seq(Nat) /\ IsInjective(pushed)
    BY <1>1 DEF MapTyped, PushedInv
  <2>5. Range(pushed) = UNION {Range(ChunksOf(mmap[j])) : j \in 1 .. map_i - 1}
    BY <1>1, <1>3 DEF PushedInv
  <2>6. Range(new) \cap Range(pushed) = {}
    <3> SUFFICES ASSUME NEW c \in Range(new), c \in Range(pushed) PROVE FALSE
      OBVIOUS
    <3>1. PICK j \in 1 .. map_i - 1 : c \in Range(ChunksOf(mmap[j]))
      BY <2>5
    <3>2. j \in 1 .. n /\ j # map_i /\ mmap[j] \in Entry
      BY <1>1, <1>2, <1>8, MapFacts
    <3>3. /\ mmap[j].usable /\ mmap[j].base <= c /\ c + LARGE <= EndOf(mmap[j])
      BY <3>1, <3>2, ChunksOfRegion
    <3>4. c \in Nat /\ mmap[map_i].usable /\ mmap[map_i].base <= c /\ c + LARGE <= EndOf(mmap[map_i])
      BY <2>3
    <3>5. \A e \in Entry : e.base <= c /\ c + LARGE <= EndOf(e) => c \in Region(e)
      <4> SUFFICES ASSUME NEW e \in Entry, e.base <= c, c + LARGE <= e.base + e.length
                   PROVE  c \in e.base .. e.base + e.length - 1
        BY DEF EndOf, Region
      <4>1. e.base \in Nat /\ e.length \in Nat /\ LARGE \in Nat \ {0}
        BY MapConstants DEF Entry
      <4> QED
        BY <3>4, <4>1
    <3>6. c \in Region(mmap[j]) /\ c \in Region(mmap[map_i])
      BY <2>2, <3>2, <3>3, <3>4, <3>5
    <3>7. Region(mmap[map_i]) \cap Region(mmap[j]) = {}
      BY <1>3, <2>2, <3>2, <3>3, <3>4, FinalMap
    <3> QED
      BY <3>6, <3>7
  <2> HIDE DEF new
  <2>7. /\ pushed' \in Seq(Nat) /\ IsInjective(pushed')
        /\ Range(pushed') = Range(new) \cup Range(pushed)
    BY <2>1, <2>3, <2>4, <2>6, ReversePushed
  <2>8. MapTyped'
    <3>1. map_i + 1 \in 1 .. n + 1
      BY <2>2
    <3> QED
      BY <1>1, <1>3, <2>1, <2>7, <3>1 DEF MapTyped
  <2>9. PushedInv'
    <3>1. \A j : j \in 1 .. (map_i + 1) - 1 <=> j \in 1 .. map_i - 1 \/ j = map_i
      BY <1>2
    <3>2. Range(pushed') = UNION {Range(ChunksOf(mmap[j])) : j \in 1 .. (map_i + 1) - 1}
      BY <2>5, <2>7, <3>1 DEF new
    <3> QED
      BY <1>3, <2>1, <2>7, <3>2 DEF PushedInv
  <2> QED
    BY <1>5, <1>6, <2>8, <2>9 DEF MapInv
<1> QED
  BY <1>7, <1>8

LEMMA MapStep == MapInv /\ [MapNext]_map_vars => MapInv'
<1> SUFFICES ASSUME MapInv, [MapNext]_map_vars PROVE MapInv'
  OBVIOUS
<1>1. CASE Cut
  BY <1>1, MapCut
<1>2. CASE Extras
  BY <1>2, MapExtras
<1>3. CASE Place
  BY <1>3, MapPlace
<1>4. CASE PushChunks
  BY <1>4, MapPush
<1>5. CASE UNCHANGED map_vars
  <2>1. /\ reported' = reported /\ mmap' = mmap /\ map_at' = map_at /\ map_i' = map_i
        /\ mmap_size' = mmap_size /\ psi' = psi /\ pushed' = pushed
        /\ total_usable_ram' = total_usable_ram /\ highest_address' = highest_address
    BY <1>5 DEF map_vars
  <2>2. MapTyped' /\ KeptInv' /\ HighestInv' /\ TotalInv'
    BY <2>1 DEF MapInv, MapTyped, KeptInv, HighestInv, TotalInv, KeptBytes, CutSoFar
  <2>3. PlacedInv' /\ PushedInv'
    BY <2>1 DEF MapInv, PlacedInv, PlacedIn, PushedInv, space_needed
  <2> QED
    BY <2>2, <2>3 DEF MapInv
<1> QED
  BY <1>1, <1>2, <1>3, <1>4, <1>5 DEF MapNext

LEMMA FreeFollows == MapInv => ChunksAreFree
<1> SUFFICES ASSUME MapInv, NEW c \in Range(pushed)
             PROVE  /\ c % LARGE = 0 /\ c # 0
                    /\ ChunkSpan(c) \subseteq Usable \ (Kernel \cup TableSpace)
  BY DEF ChunksAreFree
<1>1. /\ map_at \in {"chunks", "done"} /\ c \in Nat /\ c % LARGE = 0
      /\ \E j \in 1 .. Len(reported) :
             mmap[j].usable /\ mmap[j].base <= c /\ c + LARGE <= EndOf(mmap[j])
  BY PushedFrom
<1>2. PICK j \in 1 .. Len(reported) :
             mmap[j].usable /\ mmap[j].base <= c /\ c + LARGE <= EndOf(mmap[j])
  BY <1>1
<1>3. /\ mmap[j] \in Entry /\ Kept(reported[j]).usable
      /\ Region(mmap[j]) \subseteq Region(Kept(reported[j])) \ TableSpace
  BY <1>1, <1>2, FinalMap
<1>4. reported \in Maps
  BY DEF MapInv, MapTyped
<1>5. Region(Kept(reported[j])) \subseteq Usable \ Kernel
  BY <1>3, <1>4, UsableFacts
<1>6. mmap[j].base \in Nat /\ mmap[j].length \in Nat
  BY <1>3 DEF Entry
<1>7. ChunkSpan(c) \subseteq Region(mmap[j])
  <2>1. LARGE \in Nat
    BY MapConstants
  <2> QED
    <3>1. \A a, b, l \in Nat : a <= c /\ c + l <= a + b => c .. c + l - 1 \subseteq a .. a + b - 1
      BY <1>1
    <3>2. c + LARGE <= mmap[j].base + mmap[j].length
      BY <1>2 DEF EndOf
    <3> QED
      BY <1>2, <1>6, <2>1, <3>1, <3>2, Zenon DEF ChunkSpan, Region
<1>8. ChunkSpan(c) \subseteq Usable \ (Kernel \cup TableSpace)
  BY <1>3, <1>5, <1>7
<1>9. c # 0
  <2> SUFFICES ASSUME c = 0 PROVE FALSE
    OBVIOUS
  <2>1. KERNEL_START \in ChunkSpan(c) /\ KERNEL_START \in Kernel
    BY MapConstants DEF ChunkSpan, Kernel
  <2> QED
    BY <1>8, <2>1
<1> QED
  BY <1>1, <1>8, <1>9

LEMMA NotForgotten == MapInv => NoChunkForgotten
<1> SUFFICES ASSUME MapInv, map_at = "done", \A e \in Range(reported) : ~Spans(e),
                    NEW e \in Range(reported),
                    NEW c \in {k * LARGE : k \in 0 .. highest_address \div LARGE},
                    e.usable, ChunkSpan(c) \subseteq Region(e) \ (Kernel \cup TableSpace)
             PROVE  c \in Range(pushed)
  BY DEF NoChunkForgotten
<1>1. MapTyped /\ PlacedInv /\ PushedInv
  BY DEF MapInv
<1>2. /\ reported \in Maps /\ highest_address \in Nat
      /\ psi \in [base : Nat, num_pds : Nat, num_pdpts : Nat, space : Nat]
  BY <1>1 DEF MapTyped
<1>3. reported \in Seq(Entry)
  BY <1>2, MapAssumption, Zenon
<1>4. PICK j \in 1 .. Len(reported) : e = reported[j]
  <2>1. DOMAIN reported = 1 .. Len(reported)
    BY <1>3, LenProperties
  <2> QED
    BY <2>1 DEF Range
<1>5. LARGE \in Nat \ {0} /\ SMALL \in Nat \ {0}
  BY MapConstants
<1>6. c \in Nat /\ c % LARGE = 0
  <2>1. PICK k \in 0 .. highest_address \div LARGE : c = k * LARGE
    OBVIOUS
  <2>2. k \in Nat
    BY <1>2, <1>5, <2>1, SMT
  <2>3. (k * LARGE + 0) % LARGE = 0
    BY <1>5, <2>2, Remainder, SMT
  <2>4. k * LARGE \in Nat
    BY <1>5, <2>2, SMT
  <2> QED
    BY <2>1, <2>3, <2>4, SMT
<1>7. c % SMALL = 0
  BY <1>5, <1>6, MapConstants, LargeIsSmall
<1>8. e \in Entry /\ e.usable /\ ~Spans(e)
  BY <1>3, <1>4, ElementOfSeq
<1> DEFINE f == Kept(e)
<1>9. f \in Entry /\ Region(e) \ Kernel = IF f.usable THEN Region(f) ELSE {}
  BY <1>8, KeptFacts
<1>10. c \in ChunkSpan(c) /\ c + LARGE - 1 \in ChunkSpan(c)
  BY <1>5, <1>6 DEF ChunkSpan
<1>11. f.usable /\ ChunkSpan(c) \subseteq Region(f) \ TableSpace
  BY <1>9, <1>10
<1> HIDE DEF f
<1>12. f.base \in Nat /\ f.length \in Nat
  BY <1>9 DEF Entry
<1>13. f.base <= c /\ c + LARGE <= EndOf(f)
  <2>1. c \in Region(f) /\ c + LARGE - 1 \in Region(f)
    BY <1>10, <1>11
  <2> QED
    BY <1>5, <1>6, <1>12, <2>1 DEF Region, EndOf
<1>14. mmap[j] \in Entry
  BY <1>1, MapFacts
<1>15. mmap[j].usable /\ mmap[j].base <= c /\ c + LARGE <= EndOf(mmap[j])
  <2>1. PICK r \in 1 .. Len(reported) : PlacedIn(r)
    BY <1>1 DEF PlacedInv
  <2>2. CASE j # r
    <3>1. mmap[j] = f
      BY <1>4, <2>1, <2>2 DEF PlacedIn, f
    <3> QED
      BY <1>11, <1>13, <3>1
  <2>3. CASE j = r
    <3>1. /\ psi.base = AlignUp(f.base, SMALL)
          /\ mmap[j].usable /\ mmap[j].base = psi.base + psi.space /\ EndOf(mmap[j]) = EndOf(f)
      BY <1>4, <2>1, <2>3 DEF PlacedIn, f
    <3>2. psi.base <= c /\ psi.base \in Nat /\ psi.space \in Nat
      BY <1>2, <1>5, <1>6, <1>7, <1>12, <1>13, <3>1, AlignedUp
    <3>3. c \notin psi.base .. psi.base + psi.space - 1
      BY <1>10, <1>11 DEF TableSpace
    <3>4. psi.base + psi.space <= c
      BY <1>6, <3>2, <3>3
    <3> QED
      BY <1>13, <3>1, <3>4
  <2> QED
    BY <2>2, <2>3
<1>16. c \in Range(ChunksOf(mmap[j]))
  BY <1>6, <1>14, <1>15, ChunksOfRegion
<1>17. /\ Range(pushed) = UNION {Range(ChunksOf(mmap[k])) : k \in 1 .. map_i - 1}
       /\ map_i = Len(reported) + 1
  BY <1>1 DEF PushedInv
<1>18. j \in 1 .. map_i - 1
  BY <1>1, <1>17, MapFacts
<1> QED
  BY <1>16, <1>17, <1>18

LEMMA TotalFollows == MapInv => TotalExact
<1> SUFFICES ASSUME MapInv, map_at = "place", \A e \in Range(reported) : ~Spans(e)
             PROVE  total_usable_ram = Cardinality(Usable \ Kernel)
  BY DEF TotalExact
<1>1. reported \in Maps /\ TotalInv
  BY DEF MapInv, MapTyped
<1>2. total_usable_ram = Cardinality(KeptBytes(Len(reported)))
  BY <1>1 DEF TotalInv, CutSoFar
<1>3. reported \in Seq(Entry)
  BY <1>1, MapAssumption, Zenon
<1>4. DOMAIN reported = 1 .. Len(reported)
  BY <1>3, LenProperties
<1>5. KeptBytes(Len(reported)) \subseteq Usable \ Kernel
  BY <1>1, UsableFacts DEF KeptBytes
<1>6. Usable \ Kernel \subseteq KeptBytes(Len(reported))
  <2> SUFFICES ASSUME NEW x \in Usable, x \notin Kernel PROVE x \in KeptBytes(Len(reported))
    OBVIOUS
  <2>1. PICK j \in 1 .. Len(reported) : reported[j].usable /\ x \in Region(reported[j])
    BY <1>4 DEF Usable, Range
  <2>2. reported[j] \in Entry /\ ~Spans(reported[j])
    BY <1>3, <1>4, <2>1, ElementOfSeq DEF Range
  <2>3. Region(reported[j]) \ Kernel
            = IF Kept(reported[j]).usable THEN Region(Kept(reported[j])) ELSE {}
    BY <2>1, <2>2, KeptFacts
  <2>4. Kept(reported[j]).usable /\ x \in Region(Kept(reported[j]))
    BY <2>1, <2>3
  <2> QED
    BY <2>4 DEF KeptBytes
<1>7. KeptBytes(Len(reported)) = Usable \ Kernel
  BY <1>5, <1>6
<1> QED
  BY <1>2, <1>7

LEMMA MapTypes == MapInv => MapTypeOK
<1> SUFFICES ASSUME MapInv PROVE MapTypeOK
  OBVIOUS
<1>1. MapTyped
  BY DEF MapInv
<1>2. mmap \in Seq(Entry) /\ pushed \in Seq(Nat)
  BY <1>1 DEF MapTyped
<1>3. \A e \in Range(mmap) : e \in Entry
  <2> SUFFICES ASSUME NEW k \in DOMAIN mmap PROVE mmap[k] \in Entry
    BY DEF Range
  <2>1. DOMAIN mmap = 1 .. Len(mmap)
    BY <1>2, LenProperties
  <2> QED
    BY <1>2, <2>1, ElementOfSeq
<1>4. \A c \in Range(pushed) : c \in Nat
  <2> SUFFICES ASSUME NEW k \in DOMAIN pushed PROVE pushed[k] \in Nat
    BY DEF Range
  <2>1. DOMAIN pushed = 1 .. Len(pushed)
    BY <1>2, LenProperties
  <2> QED
    BY <1>2, <2>1, ElementOfSeq
<1> QED
  BY <1>1, <1>3, <1>4 DEF MapTyped, MapTypeOK, Entry

LEMMA Quotient ==
    ASSUME NEW s \in Nat \ {0}, NEW v \in Nat, NEW k \in Nat
    PROVE  /\ v \div s \in Nat /\ k * s \in Nat
           /\ k * s <= v => k <= v \div s
           /\ v < k * s => v \div s < k
<1> DEFINE q == v \div s
           r == v % s
<1>1. q \in Nat /\ r \in 0 .. s - 1 /\ v = q * s + r
  BY SMT
<1>2. k * s \in Nat /\ q * s \in Nat /\ (q + 1) * s = q * s + s
  BY <1>1, SMT
<1> HIDE DEF q, r
<1>3. ASSUME q < k PROVE v < k * s
  <2>1. (q + 1) * s <= k * s
    BY <1>1, <1>3, TimesGrows
  <2> QED
    BY <1>1, <1>2, <2>1, SMT
<1>4. ASSUME k <= q PROVE k * s <= v
  <2>1. k * s <= q * s
    BY <1>1, <1>4, TimesGrows
  <2> QED
    BY <1>1, <1>2, <2>1, SMT
<1>5. k * s <= v => k <= q
  BY <1>1, <1>2, <1>3
<1>6. v < k * s => q < k
  BY <1>1, <1>2, <1>4
<1> QED
  BY <1>1, <1>2, <1>5, <1>6 DEF q

\* create_paging_structures writes no more tables than there is space for.
LEMMA TablesBound ==
    ASSUME NEW p \in [base : Nat, num_pds : Nat, num_pdpts : Nat, space : Nat]
    PROVE  Tables(p) \in Nat /\ Tables(p) <= p.num_pds + p.num_pdpts
<1> DEFINE first == first_pds(p)
           other == other_pds(p)
           more == (other + PDT_PER_PDPT - 1) \div PDT_PER_PDPT
<1>1. p.num_pds \in Nat /\ p.num_pdpts \in Nat /\ PDT_PER_PDPT \in Nat \ {0, 1}
  BY MapConstants
<1>2. first \in Nat /\ first <= p.num_pds
  BY <1>1 DEF first_pds, Smaller
<1> HIDE DEF first
<1>3. p.num_pdpts * PDT_PER_PDPT \in Nat
  BY <1>1, Quotient
<1>4. other = Smaller(p.num_pds - first, p.num_pdpts * PDT_PER_PDPT)
  BY DEF other_pds, first
<1> HIDE DEF other
<1>5. other \in Nat /\ other <= p.num_pds - first /\ other <= p.num_pdpts * PDT_PER_PDPT
  BY <1>1, <1>2, <1>3, <1>4 DEF Smaller
<1>6. /\ other + PDT_PER_PDPT - 1 \in Nat
      /\ (p.num_pdpts + 1) * PDT_PER_PDPT = p.num_pdpts * PDT_PER_PDPT + PDT_PER_PDPT
  BY <1>1, <1>5, SMT
<1>7. other + PDT_PER_PDPT - 1 < (p.num_pdpts + 1) * PDT_PER_PDPT
  BY <1>1, <1>3, <1>5, <1>6, SMT
<1>8. more \in Nat /\ more < p.num_pdpts + 1
  <2>1. p.num_pdpts + 1 \in Nat /\ PDT_PER_PDPT \in Nat \ {0}
    BY <1>1
  <2> QED
    BY <1>6, <1>7, <2>1, Quotient
<1>9. Tables(p) = first + other + more
  BY DEF Tables, first, other
<1> HIDE DEF more
<1> QED
  BY <1>1, <1>2, <1>5, <1>8, <1>9

LEMMA TablesFollow == MapInv => TablesFit
<1> SUFFICES ASSUME MapInv PROVE TablesFit
  OBVIOUS
<1>1. MapTyped /\ KeptInv /\ PlacedInv
  BY DEF MapInv
<1>2. /\ psi \in [base : Nat, num_pds : Nat, num_pdpts : Nat, space : Nat] /\ reported \in Maps
      /\ map_at \in {"cut", "place", "chunks", "done", "panic"} /\ highest_address \in Nat
  BY <1>1 DEF MapTyped
<1>3. SMALL \in Nat \ {0}
  BY MapConstants
<1>4. psi.num_pds \in Nat /\ psi.num_pdpts \in Nat /\ psi.num_pds + psi.num_pdpts \in Nat
  BY <1>2
<1>5. psi.space = SMALL * (psi.num_pds + psi.num_pdpts)
  <2>1. CASE map_at \in {"chunks", "done"}
    BY <1>1, <2>1, Zenon DEF PlacedInv, space_needed
  <2>2. CASE map_at \notin {"chunks", "done"}
    <3>1. psi = NoTables
      BY <1>1, <1>2, <2>2 DEF KeptInv
    <3> QED
      BY <1>3, <3>1, SMT DEF NoTables
  <2> QED
    BY <2>1, <2>2
<1>6. SMALL * Tables(psi) <= psi.space
  <2>1. Tables(psi) \in Nat /\ Tables(psi) <= psi.num_pds + psi.num_pdpts
    BY <1>2, TablesBound
  <2>2. Tables(psi) * SMALL <= (psi.num_pds + psi.num_pdpts) * SMALL
    BY <1>3, <1>4, <2>1, TimesGrows
  <2>3. \A x \in Nat : x * SMALL = SMALL * x
    BY <1>3, SMT
  <2> QED
    BY <1>4, <1>5, <2>1, <2>2, <2>3, Zenon
<1>7. ASSUME map_at \in {"chunks", "done"}
      PROVE  TableSpace \subseteq Usable \ Kernel /\ psi.base % SMALL = 0
  <2>1. PICK r \in 1 .. Len(reported) : PlacedIn(r)
    BY <1>1, <1>7 DEF PlacedInv
  <2> DEFINE e == Kept(reported[r])
  <2>2. /\ e.usable /\ psi.base = AlignUp(e.base, SMALL) /\ psi.base + psi.space <= EndOf(e)
    BY <2>1 DEF PlacedIn
  <2>3. e \in Entry /\ Region(e) \subseteq Usable \ Kernel
    BY <1>2, <2>2, ReportedFacts, UsableFacts
  <2> HIDE DEF e
  <2>4. e.base \in Nat /\ e.length \in Nat /\ psi.base \in Nat /\ psi.space \in Nat
    BY <1>2, <2>3 DEF Entry
  <2>5. e.base <= psi.base /\ psi.base % SMALL = 0
    BY <1>3, <2>2, <2>4, AlignedUp
  <2>6. TableSpace \subseteq Region(e)
    BY <2>2, <2>4, <2>5 DEF TableSpace, Region, EndOf
  <2> QED
    BY <2>3, <2>5, <2>6
<1> QED
  BY <1>6, <1>7 DEF TablesFit

\* All directories up to the end of memory are counted, if rounding half a GiB up
\* reaches it.
LEMMA DirectoriesReach ==
    ASSUME NEW h \in Nat, NEW c \in Nat, c < h,
           h % GIB \in {0} \cup (GIB \div 2 .. GIB)
    PROVE  c \div GIB \in Nat /\ c \div GIB <= num_pds(h)
<1> DEFINE half == GIB \div 2
           q == h \div GIB
           n == (h + half) \div GIB
           d == c \div GIB
<1>1. GIB \in Nat \ {0}
  BY MapConstants
<1>2. half \in Nat /\ GIB = half + half
  BY MapConstants, SMT
<1>3. q \in Nat /\ h % GIB \in 0 .. GIB - 1 /\ h = q * GIB + (h % GIB)
  BY <1>1, SMT
<1>4. h % GIB = 0 \/ half <= h % GIB
  BY <1>1, <1>2, <1>3
<1>5. h + half \in Nat /\ num_pds(h) = IF n >= 1 THEN n - 1 ELSE n
  BY <1>2 DEF num_pds
<1>6. q * GIB \in Nat /\ (q + 1) * GIB = q * GIB + GIB
  BY <1>1, <1>3, SMT
<1> HIDE DEF q, half
<1>7. d \in Nat /\ n \in Nat
  BY <1>1, <1>5, Quotient
<1>8. d < n
  <2>1. CASE h % GIB = 0
    <3>1. h = q * GIB
      BY <1>3, <1>6, <2>1, SMT
    <3>2. d < q
      BY <1>1, <1>3, <3>1, Quotient
    <3>3. q * GIB <= h + half
      BY <1>2, <1>6, <3>1, SMT
    <3>4. q <= n
      BY <1>1, <1>3, <1>5, <3>3, Quotient
    <3> HIDE DEF d, n
    <3> QED
      BY <1>3, <1>7, <3>2, <3>4
  <2>2. CASE half <= h % GIB
    <3>1. c < (q + 1) * GIB
      BY <1>1, <1>3, <1>6, SMT
    <3>2. (q + 1) * GIB <= h + half
      <4>1. \A g, r, x, a \in Nat : g = half + half /\ a = x + r /\ half <= r => x + g <= a + half
        BY <1>2, SMT
      <4>2. h % GIB \in Nat
        BY <1>3
      <4> QED
        BY <1>1, <1>2, <1>3, <1>6, <2>2, <4>1, <4>2
    <3>3. q + 1 \in Nat
      BY <1>3
    <3>4. d < q + 1
      BY <1>1, <3>1, <3>3, Quotient
    <3>5. q + 1 <= n
      BY <1>1, <1>5, <3>2, <3>3, Quotient
    <3> HIDE DEF d, n
    <3> QED
      BY <1>3, <1>7, <3>4, <3>5
  <2> QED
    BY <1>4, <2>1, <2>2
<1> HIDE DEF d, n
<1>9. d \in Nat /\ d <= num_pds(h)
  BY <1>5, <1>7, <1>8
<1> QED
  BY <1>9 DEF d

LEMMA MappedFollows == MapInv => ChunksMapped
<1> SUFFICES ASSUME MapInv, highest_address % GIB \in {0} \cup (GIB \div 2 .. GIB),
                    NEW c \in Range(pushed), c < GIB * PDT_PER_PDPT
             PROVE  Reachable(c)
  BY DEF ChunksMapped
<1>1. MapTyped /\ HighestInv /\ PlacedInv
  BY DEF MapInv
<1>2. /\ map_at \in {"chunks", "done"} /\ c \in Nat
      /\ \E j \in 1 .. Len(reported) :
             mmap[j].usable /\ mmap[j].base <= c /\ c + LARGE <= EndOf(mmap[j])
  BY PushedFrom
<1>3. PICK j \in 1 .. Len(reported) : mmap[j].usable /\ c + LARGE <= EndOf(mmap[j])
  BY <1>2
<1>4. Kept(reported[j]).usable /\ EndOf(mmap[j]) = EndOf(Kept(reported[j])) /\ mmap[j] \in Entry
  BY <1>2, <1>3, FinalMap
<1>5. EndOf(mmap[j]) <= highest_address
  BY <1>1, <1>2, <1>4 DEF HighestInv, CutSoFar
<1>6. highest_address \in Nat
  BY <1>1 DEF MapTyped
<1>7. LARGE \in Nat \ {0} /\ GIB \in Nat \ {0} /\ PDT_PER_PDPT \in Nat \ {0, 1}
  BY MapConstants
<1>8. EndOf(mmap[j]) \in Nat
  BY <1>4 DEF EndOf, Entry
<1>9. c < highest_address
  BY <1>2, <1>3, <1>5, <1>6, <1>7, <1>8
<1>10. c \div GIB \in Nat /\ c \div GIB <= num_pds(highest_address)
  BY <1>2, <1>6, <1>9, DirectoriesReach
<1>11. psi.num_pds = num_pds(highest_address) /\ num_pds(highest_address) \in Nat
  BY <1>1, <1>2, <1>6, SpaceFacts DEF PlacedInv
<1>12. c \div GIB < PDT_PER_PDPT
  <2>1. c < PDT_PER_PDPT * GIB
    <3>1. PDT_PER_PDPT * GIB = GIB * PDT_PER_PDPT
      BY <1>7, SMT
    <3> QED
      BY <3>1
  <2> QED
    BY <1>2, <1>7, <2>1, Quotient
<1> DEFINE d == c \div GIB
<1> HIDE DEF d
<1>13. d \in Nat /\ d <= psi.num_pds /\ d < PDT_PER_PDPT
  BY <1>10, <1>11, <1>12 DEF d
<1>14. d \in 0 .. first_pds(psi)
  BY <1>7, <1>11, <1>13 DEF first_pds, Smaller
<1> QED
  BY <1>14 DEF Reachable, MappedGiB, d

-----------------------------------------------------------------------------
\* setup_physical_allocator starts the allocator with all the chunks that are
\* free, and with no other memory: get_total_usable_ram takes the kernel out and
\* phys_memory_init the page tables.
THEOREM ChunksAreExact == MapSpec => []ChunksExact
<1>1. MapInv => ChunksExact
  <2>1. MapInv => ChunksOnce
    BY DEF MapInv, PushedInv, ChunksOnce
  <2> QED
    BY <2>1, MapTypes, FreeFollows, NotForgotten, TotalFollows DEF ChunksExact
<1>2. MapSpec => []MapInv
  BY MapStart, MapStep, PTL DEF MapSpec
<1> QED
  BY <1>1, <1>2, PTL

\* The page tables that create_paging_structures writes fit into the usable
\* memory phys_memory_init sets aside, and map every chunk that is handed out.
THEOREM ChunksAreBacked == MapSpec => []ChunksBacked
<1>1. MapInv => ChunksBacked
  BY TablesFollow, MappedFollows DEF ChunksBacked
<1>2. MapSpec => []MapInv
  BY MapStart, MapStep, PTL DEF MapSpec
<1> QED
  BY <1>1, <1>2, PTL
=============================================================================
