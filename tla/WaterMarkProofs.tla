-------------------------- MODULE WaterMarkProofs --------------------------
(***************************************************************************)
(* What the watermark allocator gives out is disjoint, within its space    *)
(* and mapped, for every location, size and sequence of calls.             *)
(***************************************************************************)
EXTENDS WaterMark, TLAPS

\* The part of the space above page_address is mapped.
MappedAbove ==
    \A a \in page_address .. location - 1 : \E p \in pages : a \in PageSpan(p)

\* Where a region lies: above what is mapped and what was taken after it.
Placed(r) ==
    /\ r.address \in Int /\ r.size \in Nat
    /\ page_address <= r.address
    /\ current_address <= r.address
    /\ at = "mapping" => current_address + size <= r.address
    /\ r.address + r.size <= location

\* The inductive invariant
IInv ==
    /\ TypeOK
    /\ page_address <= location
    /\ current_size <= max_size
    /\ at = "idle" => page_address <= current_address
    /\ at = "mapping" => current_address + size <= location
    /\ MappedAbove
    /\ \A r \in given : Placed(r)
    /\ NoOverlap

\* Rounding up gives an address that is not lower.
LEMMA AlignUp ==
    ASSUME NEW a \in Int, NEW n \in Nat \ {0}
    PROVE  ALIGN(a, n) \in Int /\ ALIGN(a, n) >= a
<1>1. a % n \in 0 .. n - 1
  OBVIOUS
<1>2. (n - (a % n)) % n \in 0 .. n - 1
  BY <1>1
<1> QED
  BY <1>1, <1>2 DEF ALIGN

\* Adding a length below keeps an address below.
LEMMA BelowWithLength ==
    ASSUME NEW a \in Int, NEW d \in Nat, NEW b \in Int, NEW c \in Int,
           a + d <= b, b <= c
    PROVE  a <= c /\ a + d <= c
OBVIOUS

\* A call takes at least what the caller asked for.
LEMMA Takes ==
    ASSUME IInv, NEW s \in Sizes, NEW n \in Alignments
    PROVE  /\ adjusted_size(s, n) \in Nat /\ adjusted_size(s, n) >= s
           /\ Taken(s, n) = adjusted_size(s, n)
<1>1. s \in Nat /\ n \in Nat \ {0} /\ current_address \in Int
  BY WaterMarkAssumption DEF IInv, TypeOK
<1>2. ALIGN(current_address, n) \in Int /\ ALIGN(current_address, n) >= current_address
  BY <1>1, AlignUp
<1> QED
  BY <1>1, <1>2 DEF adjusted_size, Taken

LEMMA InitIInv == Init => IInv
<1> SUFFICES ASSUME Init PROVE IInv
  OBVIOUS
<1>1. TypeOK
  BY WaterMarkAssumption DEF Init, TypeOK
<1>2. MappedAbove
  BY WaterMarkAssumption DEF Init, MappedAbove
<1> QED
  BY <1>1, <1>2, WaterMarkAssumption DEF Init, IInv, NoOverlap

LEMMA StartAllocIInv ==
    ASSUME IInv, NEW s \in Sizes, NEW n \in Alignments, StartAlloc(s, n)
    PROVE  IInv'
<1>1. /\ s \in Nat \ {0} /\ n \in Nat \ {0}
      /\ location \in Nat /\ max_size \in Nat
  BY WaterMarkAssumption
<1>2. /\ adjusted_size(s, n) \in Nat /\ adjusted_size(s, n) >= s
      /\ Taken(s, n) = adjusted_size(s, n)
  BY Takes
<1>3. /\ at = "idle" /\ size' = s /\ alignment' = n
      /\ page_address' = page_address /\ pages' = pages /\ given' = given
  BY DEF StartAlloc
<1>4. NoOverlap'
  BY <1>3 DEF IInv, NoOverlap, Span
<1>5. MappedAbove'
  BY <1>3 DEF IInv, MappedAbove, PageSpan
<1>6. CASE current_size + Taken(s, n) > max_size
  <2>1. at' = "panic" /\ current_address' = current_address /\ current_size' = current_size
    BY <1>6 DEF StartAlloc
  <2>2. TypeOK'
    BY <1>1, <1>3, <2>1 DEF IInv, TypeOK
  <2>3. \A r \in given' : Placed(r)'
    BY <1>3, <2>1 DEF IInv, Placed
  <2> QED
    BY <1>3, <1>4, <1>5, <2>1, <2>2, <2>3 DEF IInv
<1>7. CASE ~(current_size + Taken(s, n) > max_size)
  <2>1. /\ current_address' = current_address - adjusted_size(s, n)
        /\ current_size' = current_size + adjusted_size(s, n)
        /\ current_size + adjusted_size(s, n) <= max_size
        /\ at' = "mapping"
    BY <1>1, <1>2, <1>7 DEF StartAlloc, IInv, TypeOK
  <2>2. current_address \in Int /\ current_size \in Nat /\ current_size = location - current_address
    BY DEF IInv, TypeOK
  <2>3. TypeOK'
    <3>1. current_size' \in Nat /\ current_address' \in Int
          /\ current_size' = location - current_address'
      BY <1>1, <1>2, <2>1, <2>2
    <3> QED
      BY <1>1, <1>3, <2>1, <3>1 DEF IInv, TypeOK
  <2>4. current_address' + size' <= current_address
    BY <1>1, <1>2, <1>3, <2>1, <2>2
  <2>5. \A r \in given' : Placed(r)'
    <3> SUFFICES ASSUME NEW r \in given PROVE Placed(r)'
      BY <1>3
    <3>1. Placed(r)
      BY DEF IInv
    <3>2. r.address \in Int /\ current_address <= r.address
      BY <3>1 DEF Placed
    <3>3. current_address' \in Int /\ size' \in Nat
      BY <2>3 DEF TypeOK
    <3>4. /\ current_address' <= r.address
          /\ current_address' + size' <= r.address
      <4>1. current_address \in Int
        BY <2>2
      <4> QED
        BY <2>4, <3>2, <3>3, <4>1, BelowWithLength
    <3> QED
      BY <1>3, <3>1, <3>4 DEF Placed
  <2>6. current_address' + size' <= location
    BY <1>1, <1>2, <1>3, <2>1, <2>2
  <2> QED
    BY <1>3, <1>4, <1>5, <2>1, <2>3, <2>5, <2>6 DEF IInv
<1> QED
  BY <1>6, <1>7

LEMMA MapPageIInv ==
    ASSUME IInv, MapPage
    PROVE  IInv'
<1>1. /\ at = "mapping" /\ current_address' = current_address
      /\ current_size' = current_size /\ size' = size /\ alignment' = alignment
      /\ given' = given
  BY DEF MapPage
<1>2. PAGE_LARGE_SIZE \in Nat \ {0} /\ location \in Nat /\ page_address \in Int
  BY WaterMarkAssumption DEF IInv, TypeOK
<1>3. NoOverlap'
  BY <1>1 DEF IInv, NoOverlap, Span
<1>4. CASE at' = "panic" /\ pages' = pages /\ page_address' = page_address
  <2>1. TypeOK' /\ MappedAbove'
    BY <1>1, <1>4 DEF IInv, TypeOK, MappedAbove, PageSpan
  <2>2. \A r \in given' : Placed(r)'
    BY <1>1, <1>4 DEF IInv, Placed
  <2> QED
    BY <1>1, <1>3, <1>4, <2>1, <2>2 DEF IInv
<1>5. CASE /\ pages' = pages \cup {page_address - PAGE_LARGE_SIZE}
           /\ page_address' = page_address - PAGE_LARGE_SIZE
           /\ at' = at
  <2>1. page_address' \in Int /\ page_address' < page_address
    BY <1>2, <1>5
  <2>2. TypeOK'
    BY <1>1, <1>5, <2>1 DEF IInv, TypeOK
  <2>3. MappedAbove'
    <3> SUFFICES ASSUME NEW a \in page_address' .. location - 1
                 PROVE  \E p \in pages' : a \in PageSpan(p)
      BY DEF MappedAbove, PageSpan
    <3>1. CASE a \in page_address .. location - 1
      BY <1>5, <3>1 DEF IInv, MappedAbove
    <3>2. CASE a \notin page_address .. location - 1
      <4>1. a \in PageSpan(page_address - PAGE_LARGE_SIZE)
        BY <1>2, <1>5, <2>1, <3>2 DEF PageSpan
      <4> QED
        BY <1>5, <4>1
    <3> QED
      BY <3>1, <3>2
  <2>4. \A r \in given' : Placed(r)'
    BY <1>1, <1>2, <1>5, <2>1 DEF IInv, Placed
  <2> QED
    BY <1>1, <1>2, <1>3, <1>5, <2>1, <2>2, <2>3, <2>4 DEF IInv
<1> QED
  BY <1>4, <1>5 DEF MapPage

LEMMA ReturnIInv ==
    ASSUME IInv, Return
    PROVE  IInv'
<1> DEFINE new == [address |-> current_address, size |-> size, alignment |-> alignment]
<1>1. /\ at = "mapping" /\ at' = "idle" /\ ~(current_address < page_address)
      /\ given' = given \cup {new}
      /\ page_address' = page_address /\ current_address' = current_address
      /\ current_size' = current_size /\ size' = size /\ alignment' = alignment
      /\ pages' = pages
  BY DEF Return, NeedsPage
<1>2. /\ page_address \in Int /\ current_address \in Int /\ size \in Nat
      /\ alignment \in Nat /\ location \in Nat
  BY WaterMarkAssumption DEF IInv, TypeOK
<1>3. new \in Region /\ new.address = current_address /\ new.size = size
  BY <1>2 DEF Region
<1> HIDE DEF new
<1>4. TypeOK'
  BY <1>1, <1>3 DEF IInv, TypeOK
<1>5. MappedAbove'
  BY <1>1 DEF IInv, MappedAbove, PageSpan
<1>6. \A r \in given' : Placed(r)'
  <2>1. ASSUME NEW r \in given PROVE Placed(r)'
    BY <1>1, <1>2 DEF IInv, Placed
  <2>2. ASSUME NEW r, r = new PROVE Placed(r)'
    <3>1. current_address + size <= location
      BY <1>1 DEF IInv
    <3>2. r.address = current_address /\ r.size = size
      BY <1>3, <2>2
    <3> QED
      BY <1>1, <1>2, <3>1, <3>2 DEF Placed
  <2>3. given' = given \cup {new}
    BY <1>1
  <2> QED
    BY <2>1, <2>2, <2>3
<1>7. NoOverlap'
  <2>1. ASSUME NEW r \in given PROVE Span(r) \cap Span(new) = {}
    <3>1. Placed(r)
      BY DEF IInv
    <3>2. r.address \in Int /\ r.size \in Nat /\ current_address + size <= r.address
      BY <1>1, <3>1 DEF Placed
    <3> QED
      BY <1>2, <1>3, <3>2 DEF Span
  <2> QED
    BY <1>1, <2>1 DEF IInv, NoOverlap
<1> QED
  BY <1>1, <1>2, <1>4, <1>5, <1>6, <1>7 DEF IInv

\* The inductive invariant holds in every reachable state.
THEOREM Inductive == Spec => []IInv
<1>1. Init => IInv
  BY InitIInv
<1>2. IInv /\ [Next]_vars => IInv'
  <2> SUFFICES ASSUME IInv, [Next]_vars PROVE IInv'
    OBVIOUS
  <2>1. ASSUME NEW s \in Sizes, NEW n \in Alignments, StartAlloc(s, n) PROVE IInv'
    BY <2>1, StartAllocIInv
  <2>2. CASE MapPage
    BY <2>2, MapPageIInv
  <2>3. CASE Return
    BY <2>3, ReturnIInv
  <2>4. CASE UNCHANGED vars
    <3>1. /\ page_address' = page_address /\ current_address' = current_address
          /\ current_size' = current_size /\ size' = size /\ alignment' = alignment
          /\ at' = at /\ pages' = pages /\ given' = given
      BY <2>4 DEF vars
    <3>2. TypeOK'
      BY <3>1 DEF IInv, TypeOK
    <3>3. MappedAbove' /\ NoOverlap'
      BY <3>1 DEF IInv, MappedAbove, PageSpan, NoOverlap, Span
    <3>4. \A r \in given' : Placed(r)'
      BY <3>1 DEF IInv, Placed
    <3> QED
      BY <3>1, <3>2, <3>3, <3>4 DEF IInv
  <2> QED
    BY <2>1, <2>2, <2>3, <2>4 DEF Next
<1> QED
  BY <1>1, <1>2, PTL DEF Spec

\* The allocator's account is exact: current_size is what lies above
\* current_address.
THEOREM TypeCorrect == Spec => []TypeOK
<1>1. IInv => TypeOK
  BY DEF IInv
<1> QED
  BY <1>1, Inductive, PTL

\* No two callers are given the same byte.
THEOREM Disjoint == Spec => []NoOverlap
<1>1. IInv => NoOverlap
  BY DEF IInv
<1> QED
  BY <1>1, Inductive, PTL

\* The allocator stays within the space water_mark_init gave it.
THEOREM StaysWithin == Spec => []WithinSpace
<1>1. IInv => WithinSpace
  <2> SUFFICES ASSUME IInv, NEW r \in given, NEW a \in Span(r)
               PROVE  a \in location - max_size .. location - 1
    BY DEF WithinSpace
  <2>1. Placed(r) /\ current_address \in Int /\ current_size \in Nat
        /\ current_size = location - current_address /\ current_size <= max_size
    BY DEF IInv, TypeOK
  <2> QED
    BY <2>1, WaterMarkAssumption DEF Placed, Span
<1> QED
  BY <1>1, Inductive, PTL

\* What a caller is given is mapped when the call returns.
THEOREM Backed == Spec => []GivenIsMapped
<1>1. IInv => GivenIsMapped
  <2> SUFFICES ASSUME IInv, NEW r \in given, NEW a \in Span(r)
               PROVE  \E p \in pages : a \in PageSpan(p)
    BY DEF GivenIsMapped
  <2>1. Placed(r) /\ page_address \in Int
    BY DEF IInv, TypeOK
  <2>2. a \in page_address .. location - 1
    BY <2>1, WaterMarkAssumption DEF Placed, Span
  <2> QED
    BY <2>2 DEF IInv, MappedAbove
<1> QED
  BY <1>1, Inductive, PTL

\* Together: what water_mark_alloc returns is the caller's alone, lies in the
\* space of the allocator and is mapped.
THEOREM Sound == Spec => []GivenIsSound
<1>1. TypeOK /\ NoOverlap /\ WithinSpace /\ GivenIsMapped => GivenIsSound
  BY DEF GivenIsSound
<1> QED
  BY <1>1, TypeCorrect, Disjoint, StaysWithin, Backed, PTL
=============================================================================
