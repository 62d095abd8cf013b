-------------------------- MODULE LinkedListProofs --------------------------
(* linkedlist.c keeps its links, tail, size and memory in step and implements  *)
(* a sequence, for every number of nodes and every data.                       *)
EXTENDS LinkedList, SequenceTheorems, WellFoundedInduction, TLAPS

\* From h the next pointers nd lead through the nodes of s, all different.
Chain(nd, h, s) ==
    /\ s \in Seq(Nodes)
    /\ \A i, j \in 1 .. Len(s) : s[i] = s[j] => i = j
    /\ Len(s) > 0 => h = s[1]
    /\ \A i \in 1 .. Len(s) - 1 : nd[s[i]].next = s[i + 1]

\* The last node of s is the tail and ends the list.
Ends(nd, h, t, s) ==
    IF Len(s) = 0 THEN h = NULL /\ t = NULL
    ELSE t = s[Len(s)] /\ nd[s[Len(s)]].next = NULL

\* The list is the sequence s of nodes.
Holds(s) ==
    /\ Chain(node, head, s)
    /\ Len(s) = Length
    /\ at # "null element" => Ends(node, head, tail, s)
    /\ ~Faulted => allocated = Range(s)

FieldTypes ==
    /\ node \in [Nodes -> Node]
    /\ head \in Nodes \cup {NULL} /\ tail \in Nodes \cup {NULL}
    /\ size \in Nat /\ null_destroy \in BOOLEAN
    /\ at \in {"live", "destroyed", "null element", "null destroy"}

\* The inductive invariant.  Linked is not inductive: what a removal leaves behind
\* depends on all links, not only on where they end.
IInv == FieldTypes /\ \E s : Holds(s)

-----------------------------------------------------------------------------
(* Sequences with an element more or less *)

Ins(s, i, e) ==
    [k \in 1 .. Len(s) + 1 |-> IF k < i THEN s[k] ELSE IF k = i THEN e ELSE s[k - 1]]

Del(s, i) == [k \in 1 .. Len(s) - 1 |-> IF k < i THEN s[k] ELSE s[k + 1]]

LEMMA InsFacts ==
    ASSUME NEW S, NEW s \in Seq(S), NEW i \in 1 .. Len(s) + 1, NEW e \in S
    PROVE  /\ Ins(s, i, e) \in Seq(S) /\ Len(Ins(s, i, e)) = Len(s) + 1
           /\ \A k \in 1 .. Len(s) + 1 : Ins(s, i, e)[k] =
                  IF k < i THEN s[k] ELSE IF k = i THEN e ELSE s[k - 1]
           /\ InsertAt(s, i, e) = Ins(s, i, e)
           /\ Range(Ins(s, i, e)) = Range(s) \cup {e}
<1>0. Len(s) \in Nat /\ DOMAIN s = 1 .. Len(s) /\ i \in Nat /\ i >= 1 /\ i <= Len(s) + 1
  OBVIOUS
<1>1. /\ Ins(s, i, e) \in Seq(S) /\ Len(Ins(s, i, e)) = Len(s) + 1
      /\ \A k \in 1 .. Len(s) + 1 : Ins(s, i, e)[k] =
             IF k < i THEN s[k] ELSE IF k = i THEN e ELSE s[k - 1]
  BY DEF Ins
<1>2. InsertAt(s, i, e) = Ins(s, i, e)
  <2> DEFINE a == SubSeq(s, 1, i - 1)
             b == SubSeq(s, i, Len(s))
             m == a \o <<e>>
             r == Ins(s, i, e)
  <2>1. /\ a \in Seq(S) /\ Len(a) = i - 1
        /\ \A k \in 1 .. i - 1 : a[k] = s[k]
    <3>1. \A k \in 1 .. i - 1 : s[k] \in S
      BY <1>0
    <3>2. 1 \in Int /\ i - 1 \in Int /\ (i - 1) - 1 + 1 = i - 1
      BY <1>0
    <3> QED
      BY <1>0, <3>1, <3>2, SubSeqProperties
  <2>2. /\ b \in Seq(S) /\ Len(b) = Len(s) - i + 1
        /\ \A k \in 1 .. Len(s) - i + 1 : b[k] = s[i + k - 1]
    <3>1. \A k \in i .. Len(s) : s[k] \in S
      BY <1>0
    <3> QED
      BY <1>0, <3>1, SubSeqProperties
  <2> HIDE DEF a, b
  <2>3. /\ m \in Seq(S) /\ Len(m) = i
        /\ \A k \in 1 .. i : m[k] = IF k < i THEN s[k] ELSE e
    <3>1. <<e>> \in Seq(S) /\ Len(<<e>>) = 1 /\ <<e>>[1] = e
      OBVIOUS
    <3>2. /\ m \in Seq(S) /\ Len(m) = (i - 1) + 1
          /\ \A k \in 1 .. (i - 1) + 1 : m[k] = IF k <= i - 1 THEN a[k] ELSE <<e>>[k - (i - 1)]
      BY <2>1, <3>1, ConcatProperties
    <3> QED
      BY <1>0, <2>1, <3>1, <3>2
  <2> HIDE DEF m
  <2>4. /\ m \o b \in Seq(S) /\ Len(m \o b) = Len(s) + 1
        /\ \A k \in 1 .. Len(s) + 1 : (m \o b)[k] = IF k <= i THEN m[k] ELSE b[k - i]
    <3>1. /\ m \o b \in Seq(S) /\ Len(m \o b) = Len(m) + Len(b)
          /\ \A k \in 1 .. Len(m) + Len(b) :
                 (m \o b)[k] = IF k <= Len(m) THEN m[k] ELSE b[k - Len(m)]
      BY <2>2, <2>3, ConcatProperties
    <3>2. Len(m) = i /\ Len(m) + Len(b) = Len(s) + 1
      BY <1>0, <2>2, <2>3
    <3> QED
      BY <3>1, <3>2
  <2>r. r \in Seq(S) /\ Len(r) = Len(s) + 1
        /\ \A k \in 1 .. Len(s) + 1 : r[k] =
               IF k < i THEN s[k] ELSE IF k = i THEN e ELSE s[k - 1]
    BY <1>1
  <2> HIDE DEF r
  <2>5. ASSUME NEW k \in 1 .. Len(s) + 1 PROVE (m \o b)[k] = r[k]
    <3>1. CASE k <= i
      BY <1>0, <2>r, <2>3, <2>4, <3>1
    <3>2. CASE k > i
      <4>1. k - i \in 1 .. Len(s) - i + 1 /\ i + (k - i) - 1 = k - 1
        BY <1>0, <3>2
      <4>2. b[k - i] = s[k - 1]
        BY <2>2, <4>1
      <4> QED
        BY <1>0, <2>r, <2>4, <3>2, <4>2
    <3>3. k <= i \/ k > i
      BY <1>0
    <3> QED
      BY <3>1, <3>2, <3>3, Zenon
  <2>6. m \o b = r
    BY <2>r, <2>4, <2>5, SeqEqual
  <2> QED
    BY <2>6 DEF InsertAt, m, a, b, r
<1>3. Range(Ins(s, i, e)) = Range(s) \cup {e}
  <2> DEFINE r == Ins(s, i, e)
  <2>0. DOMAIN r = 1 .. Len(s) + 1
    BY <1>1
  <2> HIDE DEF r
  <2>1. ASSUME NEW k \in 1 .. Len(s) + 1 PROVE r[k] \in Range(s) \cup {e}
    <3>1. CASE k < i
      BY <1>0, <1>1, <3>1 DEF Range, r
    <3>2. CASE k = i
      BY <1>0, <1>1, <3>2 DEF r
    <3>3. CASE k > i
      <4>1. r[k] = s[k - 1] /\ k - 1 \in 1 .. Len(s)
        BY <1>0, <1>1, <3>3 DEF r
      <4> QED
        BY <1>0, <4>1 DEF Range
    <3> QED
      BY <1>0, <3>1, <3>2, <3>3
  <2>2. ASSUME NEW k \in 1 .. Len(s) PROVE s[k] \in Range(r)
    <3>1. CASE k < i
      <4>1. r[k] = s[k] /\ k \in 1 .. Len(s) + 1
        BY <1>0, <1>1, <3>1 DEF r
      <4> QED
        BY <2>0, <4>1 DEF Range
    <3>2. CASE k >= i
      <4>1. k + 1 \in 1 .. Len(s) + 1 /\ ~(k + 1 < i) /\ k + 1 # i /\ (k + 1) - 1 = k
        BY <1>0, <3>2
      <4>2. r[k + 1] = s[k]
        BY <1>1, <4>1 DEF r
      <4> QED
        BY <2>0, <4>1, <4>2 DEF Range
    <3> QED
      BY <1>0, <3>1, <3>2
  <2>3. e \in Range(r)
    <3>1. r[i] = e /\ i \in 1 .. Len(s) + 1
      BY <1>0, <1>1 DEF r
    <3> QED
      BY <2>0, <3>1 DEF Range
  <2> QED
    BY <1>0, <2>0, <2>1, <2>2, <2>3 DEF Range, r
<1> QED
  BY <1>1, <1>2, <1>3

LEMMA DelFacts ==
    ASSUME NEW S, NEW s \in Seq(S), NEW i \in 1 .. Len(s)
    PROVE  /\ Del(s, i) \in Seq(S) /\ Len(Del(s, i)) = Len(s) - 1
           /\ \A k \in 1 .. Len(s) - 1 :
                  Del(s, i)[k] = IF k < i THEN s[k] ELSE s[k + 1]
           /\ RemoveAt(s, i) = Del(s, i)
           /\ (\A j, k \in 1 .. Len(s) : s[j] = s[k] => j = k) =>
                  Range(Del(s, i)) = Range(s) \ {s[i]}
<1>0. Len(s) \in Nat /\ DOMAIN s = 1 .. Len(s) /\ i \in Nat /\ i >= 1 /\ i <= Len(s)
  OBVIOUS
<1>1. /\ Del(s, i) \in Seq(S) /\ Len(Del(s, i)) = Len(s) - 1
      /\ \A k \in 1 .. Len(s) - 1 :
             Del(s, i)[k] = IF k < i THEN s[k] ELSE s[k + 1]
  BY DEF Del
<1>2. RemoveAt(s, i) = Del(s, i)
  <2> DEFINE a == SubSeq(s, 1, i - 1)
             b == SubSeq(s, i + 1, Len(s))
             r == Del(s, i)
  <2>1. /\ a \in Seq(S) /\ Len(a) = i - 1
        /\ \A k \in 1 .. i - 1 : a[k] = s[k]
    <3>1. \A k \in 1 .. i - 1 : s[k] \in S
      BY <1>0
    <3>2. 1 \in Int /\ i - 1 \in Int /\ (i - 1) - 1 + 1 = i - 1
      BY <1>0
    <3> QED
      BY <1>0, <3>1, <3>2, SubSeqProperties
  <2>2. /\ b \in Seq(S) /\ Len(b) = Len(s) - i
        /\ \A k \in 1 .. Len(s) - i : b[k] = s[i + k]
    <3>1. \A k \in i + 1 .. Len(s) : s[k] \in S
      BY <1>0
    <3>2. i + 1 \in Int /\ Len(s) \in Int /\ Len(s) - (i + 1) + 1 = Len(s) - i
      BY <1>0
    <3>3. /\ b \in Seq(S)
          /\ Len(b) = IF i + 1 <= Len(s) THEN Len(s) - (i + 1) + 1 ELSE 0
          /\ \A k \in 1 .. Len(s) - (i + 1) + 1 : b[k] = s[(i + 1) + k - 1]
      BY <3>1, <3>2, SubSeqProperties
    <3>4. Len(b) = Len(s) - i
      <4>1. CASE i = Len(s)
        <5>1. ~(i + 1 <= Len(s)) /\ Len(s) - i = 0
          BY <1>0, <4>1
        <5> QED
          BY <3>3, <5>1
      <4>2. CASE i < Len(s)
        <5>1. i + 1 <= Len(s)
          BY <1>0, <4>2
        <5> QED
          BY <3>2, <3>3, <5>1
      <4>3. i = Len(s) \/ i < Len(s)
        BY ONLY i \in 1 .. Len(s), Len(s) \in Nat
      <4> QED
        BY <4>1, <4>2, <4>3, Zenon
    <3>5. ASSUME NEW k \in 1 .. Len(s) - i PROVE b[k] = s[i + k]
      <4>1. k \in 1 .. Len(s) - (i + 1) + 1 /\ (i + 1) + k - 1 = i + k
        BY <1>0
      <4> QED
        BY <3>3, <4>1
    <3> QED
      BY <3>3, <3>4, <3>5
  <2> HIDE DEF a, b
  <2>3. /\ a \o b \in Seq(S) /\ Len(a \o b) = Len(s) - 1
        /\ \A k \in 1 .. Len(s) - 1 :
               (a \o b)[k] = IF k <= i - 1 THEN a[k] ELSE b[k - (i - 1)]
    <3>1. /\ a \o b \in Seq(S) /\ Len(a \o b) = Len(a) + Len(b)
          /\ \A k \in 1 .. Len(a) + Len(b) :
                 (a \o b)[k] = IF k <= Len(a) THEN a[k] ELSE b[k - Len(a)]
      BY <2>1, <2>2, ConcatProperties
    <3>2. Len(a) = i - 1 /\ Len(a) + Len(b) = Len(s) - 1
      BY <1>0, <2>1, <2>2
    <3> QED
      BY <3>1, <3>2
  <2>r. r \in Seq(S) /\ Len(r) = Len(s) - 1
        /\ \A k \in 1 .. Len(s) - 1 : r[k] = IF k < i THEN s[k] ELSE s[k + 1]
    BY <1>1
  <2> HIDE DEF r
  <2>4. ASSUME NEW k \in 1 .. Len(s) - 1 PROVE (a \o b)[k] = r[k]
    <3>1. CASE k < i
      BY <1>0, <2>r, <2>1, <2>3, <3>1
    <3>2. CASE k >= i
      <4>1. k - (i - 1) \in 1 .. Len(s) - i /\ i + (k - (i - 1)) = k + 1
        BY <1>0, <3>2
      <4>2. b[k - (i - 1)] = s[k + 1]
        BY <2>2, <4>1
      <4> QED
        BY <1>0, <2>r, <2>3, <3>2, <4>2
    <3>3. k < i \/ k >= i
      BY <1>0
    <3> QED
      BY <3>1, <3>2, <3>3, Zenon
  <2>5. a \o b = r
    BY <2>r, <2>3, <2>4, SeqEqual
  <2> QED
    BY <2>5 DEF RemoveAt, a, b, r
<1>3. ASSUME \A j, k \in 1 .. Len(s) : s[j] = s[k] => j = k
      PROVE  Range(Del(s, i)) = Range(s) \ {s[i]}
  <2> DEFINE r == Del(s, i)
  <2>0. DOMAIN r = 1 .. Len(s) - 1
    BY <1>1
  <2> HIDE DEF r
  <2>1. ASSUME NEW k \in 1 .. Len(s) - 1 PROVE r[k] \in Range(s) /\ r[k] # s[i]
    <3>1. PICK m \in 1 .. Len(s) : r[k] = s[m] /\ m # i
      <4>1. k \in 1 .. Len(s) /\ k + 1 \in 1 .. Len(s)
        BY <1>0
      <4>2. r[k] = IF k < i THEN s[k] ELSE s[k + 1]
        BY <1>1 DEF r
      <4> QED
        BY <1>0, <4>1, <4>2
    <3> QED
      BY <1>0, <1>3, <3>1 DEF Range
  <2>2. ASSUME NEW k \in 1 .. Len(s), k # i PROVE s[k] \in Range(r)
    <3>1. CASE k < i
      <4>1. k \in 1 .. Len(s) - 1 /\ r[k] = s[k]
        BY <1>0, <1>1, <3>1 DEF r
      <4> QED
        BY <2>0, <4>1 DEF Range
    <3>2. CASE k > i
      <4>1. k - 1 \in 1 .. Len(s) - 1 /\ ~(k - 1 < i) /\ (k - 1) + 1 = k
        BY <1>0, <3>2
      <4>2. r[k - 1] = s[k]
        BY <1>1, <4>1 DEF r
      <4> QED
        BY <2>0, <4>1, <4>2 DEF Range
    <3> QED
      BY <1>0, <2>2, <3>1, <3>2
  <2> QED
    BY <1>0, <2>0, <2>1, <2>2 DEF Range, r
<1> QED
  BY <1>1, <1>2, <1>3

-----------------------------------------------------------------------------
(* The nodes from the head on *)

\* InOrder as a function of the links.
Order(nd, h, n) ==
    LET nth[k \in 1 .. n] == IF k = 1 THEN h ELSE nd[nth[k - 1]].next IN nth

\* A set of numbers has a least element.
LEMMA Least == ASSUME NEW T, T \subseteq Nat, T # {} PROVE \E m \in T : \A k \in T : m <= k
<1> DEFINE R == {ss \in Nat \X Nat : ss[1] < ss[2]}
<1>1. IsWellFoundedOn(R, Nat)
  <2>1. OpToRel(<, Nat) = R
    BY DEF OpToRel
  <2> QED
    BY <2>1, NatLessThanWellFounded, Zenon
<1> HIDE DEF R
<1>2. PICK m \in T : \A k \in T : ~(<<k, m>> \in R)
  BY <1>1, WFMin, Zenon
<1>3. ASSUME NEW k \in T PROVE m <= k
  <2>1. k \in Nat /\ m \in Nat /\ <<k, m>> \notin R
    BY <1>2
  <2> QED
    BY <2>1 DEF R
<1> QED
  BY <1>3

\* The order of a chain is the chain: both solve the same recursion, and the first
\* place where two solutions differ would have a place before it.
LEMMA OrderOfChain ==
    ASSUME NEW nd, NEW h, NEW s, Chain(nd, h, s)
    PROVE  Order(nd, h, Len(s)) = s
<1> DEFINE F(g) == [k \in 1 .. Len(s) |-> IF k = 1 THEN h ELSE nd[g[k - 1]].next]
           a == CHOOSE g : g = F(g)
<1>1. /\ Len(s) \in Nat /\ DOMAIN s = 1 .. Len(s) /\ s = [k \in 1 .. Len(s) |-> s[k]]
      /\ Len(s) > 0 => h = s[1]
      /\ \A k \in 1 .. Len(s) - 1 : nd[s[k]].next = s[k + 1]
  BY DEF Chain
<1>2. ASSUME NEW k \in 1 .. Len(s), k # 1 PROVE nd[s[k - 1]].next = s[k]
  <2>1. k - 1 \in 1 .. Len(s) - 1 /\ (k - 1) + 1 = k
    BY <1>1, <1>2
  <2> QED
    BY <1>1, <2>1
<1>3. s = F(s)
  <2>1. \A k \in 1 .. Len(s) : s[k] = F(s)[k]
    BY <1>1, <1>2
  <2>2. F(s) = [k \in 1 .. Len(s) |-> F(s)[k]]
    OBVIOUS
  <2> HIDE DEF F
  <2> QED
    BY <1>1, <2>1, <2>2
<1>4. a = F(a)
  BY <1>3, Zenon
<1>5. Order(nd, h, Len(s)) = a
  BY Zenon DEF Order
<1> HIDE DEF a
<1>6. \A k \in 1 .. Len(s) : a[k] = s[k]
  <2> DEFINE T == {k \in 1 .. Len(s) : a[k] # s[k]}
  <2> SUFFICES ASSUME T # {} PROVE FALSE
    OBVIOUS
  <2>1. PICK m \in T : \A k \in T : m <= k
    <3>1. T \subseteq Nat
      OBVIOUS
    <3> HIDE DEF T
    <3> QED
      BY <3>1, Least
  <2>2. m \in 1 .. Len(s) /\ a[m] # s[m]
    OBVIOUS
  <2>3. a[m] = IF m = 1 THEN h ELSE nd[a[m - 1]].next
    BY <1>4, <2>2
  <2>4. m # 1
    BY <1>1, <2>2, <2>3
  <2>5. m - 1 \in 1 .. Len(s) /\ ~(m <= m - 1)
    BY <1>1, <2>2, <2>4
  <2>6. a[m - 1] = s[m - 1]
    BY <2>1, <2>5
  <2> QED
    BY <1>2, <2>2, <2>3, <2>4, <2>6
<1>7. a = [k \in 1 .. Len(s) |-> a[k]]
  BY <1>4
<1> QED
  BY <1>1, <1>5, <1>6, <1>7

\* What the list holds, given its nodes.
Entry(nd, n) == [element |-> n, data |-> nd[n].data]
Entries(nd, s) == [k \in 1 .. Len(s) |-> Entry(nd, s[k])]

\* The three views of the list that the model computes from its links.
LEMMA Views ==
    ASSUME NEW s, Holds(s)
    PROVE  /\ InOrder = s /\ Elements = Range(s) /\ contents = Entries(node, s)
           /\ Length = Len(s)
<1>1. Len(s) = Length /\ Chain(node, head, s) /\ DOMAIN s = 1 .. Len(s)
  <2>1. Len(s) = Length /\ Chain(node, head, s)
    BY DEF Holds
  <2>2. s \in Seq(Nodes)
    BY <2>1 DEF Chain
  <2> QED
    BY <2>1, <2>2
<1>2. InOrder = Order(node, head, Length)
  BY DEF InOrder, Order
<1>3. InOrder = s
  BY <1>1, <1>2, OrderOfChain
<1>4. Elements = Range(s)
  BY <1>1, <1>3 DEF Elements, Range
<1>5. contents = Entries(node, s)
  BY <1>1, <1>3 DEF contents, Entries, Entry
<1> QED
  BY <1>1, <1>3, <1>4, <1>5

LEMMA ViewsPrimed ==
    ASSUME NEW s, Holds(s)'
    PROVE  contents' = Entries(node', s)
<1>1. Len(s) = Length' /\ Chain(node', head', s)
  BY DEF Holds, Chain
<1>2. InOrder' = Order(node', head', Length')
  BY DEF InOrder, Order
<1>3. InOrder' = s
  BY <1>1, <1>2, OrderOfChain
<1> QED
  BY <1>1, <1>3 DEF contents, Entries, Entry

-----------------------------------------------------------------------------
(* Links after an insertion and a removal *)

\* A node that was in no place is linked in at place i.
LEMMA ChainInserted ==
    ASSUME NEW nd, NEW h, NEW t, NEW s, Chain(nd, h, s), Ends(nd, h, t, s),
           NEW i \in 1 .. Len(s) + 1, NEW new \in Nodes, new \notin Range(s),
           NEW nd2, NEW h2, NEW t2,
           h2 = IF i = 1 THEN new ELSE h,
           t2 = IF i = Len(s) + 1 THEN new ELSE t,
           nd2[new].next = IF i <= Len(s) THEN s[i] ELSE NULL,
           i > 1 => nd2[s[i - 1]].next = new,
           \A k \in 1 .. Len(s) : k # i - 1 => nd2[s[k]].next = nd[s[k]].next
    PROVE  Chain(nd2, h2, Ins(s, i, new)) /\ Ends(nd2, h2, t2, Ins(s, i, new))
<1> DEFINE r == Ins(s, i, new)
<1>1. /\ s \in Seq(Nodes) /\ Len(s) \in Nat /\ i \in Nat /\ i >= 1 /\ i <= Len(s) + 1
      /\ \A k \in 1 .. Len(s) : s[k] \in Nodes /\ s[k] # new
  <2>1. s \in Seq(Nodes)
    BY DEF Chain
  <2> QED
    BY <2>1 DEF Range
<1>2. /\ \A j, k \in 1 .. Len(s) : s[j] = s[k] => j = k
      /\ Len(s) > 0 => h = s[1]
      /\ \A k \in 1 .. Len(s) - 1 : nd[s[k]].next = s[k + 1]
      /\ IF Len(s) = 0 THEN h = NULL /\ t = NULL
         ELSE t = s[Len(s)] /\ nd[s[Len(s)]].next = NULL
  BY DEF Chain, Ends
<1>3. /\ r \in Seq(Nodes) /\ Len(r) = Len(s) + 1
      /\ \A k \in 1 .. Len(s) + 1 :
             r[k] = IF k < i THEN s[k] ELSE IF k = i THEN new ELSE s[k - 1]
  BY <1>1, InsFacts
<1> HIDE DEF r
<1>4. ASSUME NEW j \in 1 .. Len(s) + 1, NEW k \in 1 .. Len(s) + 1, r[j] = r[k] PROVE j = k
  <2> DEFINE old(m) == IF m < i THEN m ELSE m - 1
  <2>1. ASSUME NEW m \in 1 .. Len(s) + 1, m # i
        PROVE  old(m) \in 1 .. Len(s) /\ r[m] = s[old(m)] /\ r[m] # new
    <3>1. CASE m < i
      BY <1>1, <1>3, <3>1
    <3>2. CASE m > i
      BY <1>1, <1>3, <3>2
    <3> QED
      BY <1>1, <2>1, <3>1, <3>2
  <2>2. r[i] = new
    BY <1>1, <1>3
  <2>3. CASE j = i \/ k = i
    BY <1>4, <2>1, <2>2, <2>3
  <2>4. CASE j # i /\ k # i
    <3>1. old(j) = old(k)
      BY <1>2, <1>4, <2>1, <2>4
    <3> QED
      BY <1>1, <2>4, <3>1
  <2> QED
    BY <2>3, <2>4
<1>5. h2 = r[1]
  <2>1. CASE i = 1
    BY <1>1, <1>3, <2>1
  <2>2. CASE i > 1
    BY <1>1, <1>2, <1>3, <2>2
  <2> QED
    BY <1>1, <2>1, <2>2
<1>6. ASSUME NEW k \in 1 .. Len(s) PROVE nd2[r[k]].next = r[k + 1]
  <2>1. k + 1 \in 1 .. Len(s) + 1 /\ k \in 1 .. Len(s) + 1 /\ k \in Nat
    BY <1>1
  <2>2. CASE k + 1 < i
    <3>1. r[k] = s[k] /\ r[k + 1] = s[k + 1] /\ k # i - 1 /\ k \in 1 .. Len(s) - 1
      BY <1>1, <1>3, <2>1, <2>2
    <3> QED
      BY <1>2, <3>1
  <2>3. CASE k + 1 = i
    <3>1. r[k] = s[k] /\ r[k + 1] = new /\ k = i - 1 /\ i > 1
      BY <1>1, <1>3, <2>1, <2>3
    <3> QED
      BY <3>1
  <2>4. CASE k = i
    <3>1. r[k] = new /\ r[k + 1] = s[k]
      BY <1>1, <1>3, <2>1, <2>4
    <3> QED
      BY <1>1, <2>4, <3>1
  <2>5. CASE k > i
    <3>1. /\ r[k] = s[k - 1] /\ r[k + 1] = s[k] /\ k - 1 # i - 1
          /\ k - 1 \in 1 .. Len(s) - 1 /\ k - 1 \in 1 .. Len(s) /\ (k - 1) + 1 = k
      BY <1>1, <1>3, <2>1, <2>5
    <3> QED
      BY <1>2, <3>1
  <2>6. k + 1 < i \/ k + 1 = i \/ k = i \/ k > i
    BY <1>1, <2>1
  <2> QED
    BY <2>2, <2>3, <2>4, <2>5, <2>6, Zenon
<1>7. t2 = r[Len(s) + 1] /\ nd2[r[Len(s) + 1]].next = NULL
  <2>1. CASE i = Len(s) + 1
    <3>1. r[Len(s) + 1] = new /\ ~(i <= Len(s))
      BY <1>1, <1>3, <2>1
    <3> QED
      BY <2>1, <3>1
  <2>2. CASE i # Len(s) + 1
    <3>1. r[Len(s) + 1] = s[Len(s)] /\ Len(s) # 0 /\ Len(s) # i - 1 /\ Len(s) \in 1 .. Len(s)
      BY <1>1, <1>3, <2>2
    <3> QED
      BY <1>2, <2>2, <3>1
  <2> QED
    BY <2>1, <2>2
<1>8. Chain(nd2, h2, r)
  <2>1. Len(r) - 1 = Len(s)
    BY <1>1, <1>3
  <2> QED
    BY <1>3, <1>4, <1>5, <1>6, <2>1 DEF Chain
<1>9. Ends(nd2, h2, t2, r)
  <2>1. Len(r) # 0
    BY <1>1, <1>3
  <2> QED
    BY <1>3, <1>7, <2>1 DEF Ends
<1> QED
  BY <1>8, <1>9 DEF r

\* The node in place i is unlinked.
LEMMA ChainRemoved ==
    ASSUME NEW nd, NEW h, NEW t, NEW s, Chain(nd, h, s), Ends(nd, h, t, s),
           NEW i \in 1 .. Len(s), NEW nd2, NEW h2, NEW t2,
           h2 = IF i = 1 THEN nd[s[1]].next ELSE h,
           t2 = IF i = 1 THEN (IF Len(s) = 1 THEN NULL ELSE t)
                ELSE IF nd[s[i]].next = NULL THEN s[i - 1] ELSE t,
           i > 1 => nd2[s[i - 1]].next = nd[s[i]].next,
           \A k \in 1 .. Len(s) : k # i - 1 /\ k # i => nd2[s[k]].next = nd[s[k]].next,
           NULL \notin Nodes
    PROVE  Chain(nd2, h2, Del(s, i)) /\ Ends(nd2, h2, t2, Del(s, i))
<1> DEFINE r == Del(s, i)
<1>1. /\ s \in Seq(Nodes) /\ Len(s) \in Nat /\ i \in Nat /\ i >= 1 /\ i <= Len(s)
      /\ \A k \in 1 .. Len(s) : s[k] \in Nodes
  <2>1. s \in Seq(Nodes)
    BY DEF Chain
  <2> QED
    BY <2>1
<1>2. /\ \A j, k \in 1 .. Len(s) : s[j] = s[k] => j = k
      /\ Len(s) > 0 => h = s[1]
      /\ \A k \in 1 .. Len(s) - 1 : nd[s[k]].next = s[k + 1]
      /\ Len(s) # 0 => t = s[Len(s)] /\ nd[s[Len(s)]].next = NULL
  BY DEF Chain, Ends
<1>3. /\ r \in Seq(Nodes) /\ Len(r) = Len(s) - 1
      /\ \A k \in 1 .. Len(s) - 1 : r[k] = IF k < i THEN s[k] ELSE s[k + 1]
  BY <1>1, DelFacts
<1> HIDE DEF r
<1>4. ASSUME NEW j \in 1 .. Len(s) - 1, NEW k \in 1 .. Len(s) - 1, r[j] = r[k] PROVE j = k
  <2> DEFINE old(m) == IF m < i THEN m ELSE m + 1
  <2>1. ASSUME NEW m \in 1 .. Len(s) - 1
        PROVE  old(m) \in 1 .. Len(s) /\ r[m] = s[old(m)]
    <3>1. CASE m < i
      BY <1>1, <1>3, <3>1
    <3>2. CASE m >= i
      BY <1>1, <1>3, <3>2
    <3> QED
      BY <1>1, <3>1, <3>2
  <2>2. old(j) = old(k)
    BY <1>2, <1>4, <2>1
  <2> QED
    BY <1>1, <2>2
<1>5. nd[s[i]].next = IF i < Len(s) THEN s[i + 1] ELSE NULL
  <2>1. CASE i < Len(s)
    <3>1. i \in 1 .. Len(s) - 1
      BY <1>1, <2>1
    <3> QED
      BY <1>2, <2>1, <3>1
  <2>2. CASE i = Len(s)
    BY <1>1, <1>2, <2>2
  <2> QED
    BY <1>1, <2>1, <2>2
<1>6. Len(s) > 1 => h2 = r[1]
  <2> SUFFICES ASSUME Len(s) > 1 PROVE h2 = r[1]
    OBVIOUS
  <2>1. CASE i = 1
    BY <1>1, <1>3, <1>5, <2>1
  <2>2. CASE i > 1
    BY <1>1, <1>2, <1>3, <2>2
  <2> QED
    BY <1>1, <2>1, <2>2
<1>7. ASSUME NEW k \in 1 .. Len(s) - 2 PROVE nd2[r[k]].next = r[k + 1]
  <2>1. k + 1 \in 1 .. Len(s) - 1 /\ k \in 1 .. Len(s) - 1 /\ k \in Nat
    BY <1>1
  <2>2. CASE k + 1 < i
    <3>1. r[k] = s[k] /\ r[k + 1] = s[k + 1] /\ k # i - 1 /\ k # i /\ k \in 1 .. Len(s)
      BY <1>1, <1>3, <2>1, <2>2
    <3> QED
      BY <1>2, <2>1, <3>1
  <2>3. CASE k + 1 = i
    <3>1. r[k] = s[i - 1] /\ r[k + 1] = s[i + 1] /\ i > 1 /\ i < Len(s)
      BY <1>1, <1>3, <2>1, <2>3
    <3> QED
      BY <1>5, <3>1
  <2>4. CASE k >= i
    <3>1. /\ r[k] = s[k + 1] /\ r[k + 1] = s[(k + 1) + 1]
          /\ k + 1 # i - 1 /\ k + 1 # i /\ k + 1 \in 1 .. Len(s)
      BY <1>1, <1>3, <2>1, <2>4
    <3> QED
      BY <1>2, <2>1, <3>1
  <2>5. k + 1 < i \/ k + 1 = i \/ k >= i
    BY <1>1, <2>1
  <2> QED
    BY <2>2, <2>3, <2>4, <2>5, Zenon
<1>8. CASE Len(s) = 1
  <2>1. i = 1 /\ Len(r) = 0
    BY <1>1, <1>3, <1>8
  <2>2. h2 = NULL /\ t2 = NULL
    BY <1>5, <1>8, <2>1
  <2>3. Ends(nd2, h2, t2, r)
    BY <2>1, <2>2 DEF Ends
  <2>4. Chain(nd2, h2, r)
    BY <1>3, <1>4, <1>7, <1>8, <2>1 DEF Chain
  <2> QED
    BY <2>3, <2>4 DEF r
<1>9. CASE Len(s) > 1
  <2> DEFINE n == Len(s) - 1
  <2>1. n \in 1 .. n /\ n \in Nat /\ n # 0 /\ Len(r) = n /\ Len(r) > 0 /\ Len(r) - 1 = Len(s) - 2
    BY <1>1, <1>3, <1>9
  <2>2. Chain(nd2, h2, r)
    BY <1>3, <1>4, <1>6, <1>7, <1>9, <2>1 DEF Chain
  <2>3. t2 = r[n] /\ nd2[r[n]].next = NULL
    <3>1. CASE i = Len(s)
      <4>1. r[n] = s[i - 1] /\ i > 1 /\ nd[s[i]].next = NULL
        BY <1>1, <1>3, <1>5, <1>9, <2>1, <3>1
      <4> QED
        BY <1>1, <4>1
    <3>2. CASE i < Len(s)
      <4>1. /\ r[n] = s[Len(s)] /\ Len(s) # i - 1 /\ Len(s) # i /\ Len(s) \in 1 .. Len(s)
            /\ Len(s) # 0 /\ Len(s) # 1
        BY <1>1, <1>3, <1>9, <2>1, <3>2
      <4>2. nd[s[i]].next # NULL
        BY <1>1, <1>5, <3>2
      <4> QED
        BY <1>2, <4>1, <4>2
    <3> QED
      BY <1>1, <3>1, <3>2
  <2>4. Ends(nd2, h2, t2, r)
    BY <2>1, <2>3 DEF Ends
  <2> QED
    BY <2>2, <2>4 DEF r
<1>10. Len(s) = 1 \/ Len(s) > 1
  <2>1. Len(s) \in Nat /\ i \in 1 .. Len(s)
    BY <1>1
  <2> QED
    BY ONLY <2>1
<1> QED
  BY <1>8, <1>9, <1>10, Zenon

-----------------------------------------------------------------------------
(* What the list holds after an insertion and a removal *)

LEMMA EntriesInserted ==
    ASSUME NEW s \in Seq(Nodes), NEW nd, \A k \in 1 .. Len(s) : nd[s[k]].data \in Data \cup {NULL},
           NEW i \in 1 .. Len(s) + 1, NEW new \in Nodes, NEW nd2,
           nd2[new].data \in Data,
           \A k \in 1 .. Len(s) : nd2[s[k]].data = nd[s[k]].data
    PROVE  /\ Entries(nd2, Ins(s, i, new)) = InsertAt(Entries(nd, s), i, Entry(nd2, new))
           /\ Len(Entries(nd, s)) = Len(s)
<1> DEFINE S == [element : Nodes, data : Data \cup {NULL}]
           D == Entries(nd, s)
           r == Ins(s, i, new)
           d == Entry(nd2, new)
<1>1. Len(s) \in Nat /\ i \in Nat /\ i >= 1 /\ i <= Len(s) + 1
  OBVIOUS
<1>2. /\ r \in Seq(Nodes) /\ Len(r) = Len(s) + 1
      /\ \A k \in 1 .. Len(s) + 1 :
             r[k] = IF k < i THEN s[k] ELSE IF k = i THEN new ELSE s[k - 1]
  BY <1>1, InsFacts
<1>3. D \in Seq(S) /\ Len(D) = Len(s) /\ \A k \in 1 .. Len(s) : D[k] = Entry(nd, s[k])
  <2>1. \A k \in 1 .. Len(s) : s[k] \in Nodes /\ Entry(nd, s[k]) \in S
    BY DEF Entry
  <2> QED
    BY <1>1, <2>1 DEF Entries
<1>d. d \in S
  BY DEF Entry
<1> HIDE DEF r, D, d
<1>4. /\ InsertAt(D, i, d) = Ins(D, i, d)
      /\ \A k \in 1 .. Len(s) + 1 :
             Ins(D, i, d)[k] = IF k < i THEN D[k] ELSE IF k = i THEN d ELSE D[k - 1]
  <2>1. d \in S /\ i \in 1 .. Len(D) + 1
    BY <1>3, <1>d
  <2> HIDE DEF S
  <2> QED
    BY <1>3, <2>1, InsFacts
<1>5. ASSUME NEW k \in 1 .. Len(s) + 1 PROVE Entry(nd2, r[k]) = Ins(D, i, d)[k]
  <2>1. CASE k < i
    <3>1. k \in 1 .. Len(s) /\ r[k] = s[k] /\ Ins(D, i, d)[k] = D[k]
      BY <1>1, <1>2, <1>4, <2>1
    <3> QED
      BY <1>3, <3>1 DEF Entry
  <2>2. CASE k = i
    BY <1>1, <1>2, <1>4, <2>2 DEF d
  <2>3. CASE k > i
    <3>1. k - 1 \in 1 .. Len(s) /\ r[k] = s[k - 1] /\ Ins(D, i, d)[k] = D[k - 1]
      BY <1>1, <1>2, <1>4, <2>3
    <3> QED
      BY <1>3, <3>1 DEF Entry
  <2>4. k < i \/ k = i \/ k > i
    BY <1>1
  <2> QED
    BY <2>1, <2>2, <2>3, <2>4, Zenon
<1>6. Entries(nd2, r) = [k \in 1 .. Len(s) + 1 |-> Entry(nd2, r[k])]
  BY <1>2 DEF Entries
<1>7. Ins(D, i, d) = [k \in 1 .. Len(s) + 1 |-> Ins(D, i, d)[k]]
  BY <1>3 DEF Ins
<1>8. Entries(nd2, r) = Ins(D, i, d)
  BY <1>5, <1>6, <1>7
<1> QED
  BY <1>3, <1>4, <1>8 DEF r, D, d

LEMMA EntriesRemoved ==
    ASSUME NEW s \in Seq(Nodes), NEW nd, \A k \in 1 .. Len(s) : nd[s[k]].data \in Data \cup {NULL},
           NEW i \in 1 .. Len(s), NEW nd2,
           \A k \in 1 .. Len(s) : k # i => nd2[s[k]].data = nd[s[k]].data
    PROVE  /\ Entries(nd2, Del(s, i)) = RemoveAt(Entries(nd, s), i)
           /\ Len(Entries(nd, s)) = Len(s)
<1> DEFINE S == [element : Nodes, data : Data \cup {NULL}]
           D == Entries(nd, s)
           r == Del(s, i)
<1>1. Len(s) \in Nat /\ i \in Nat /\ i >= 1 /\ i <= Len(s)
  OBVIOUS
<1>2. /\ r \in Seq(Nodes) /\ Len(r) = Len(s) - 1
      /\ \A k \in 1 .. Len(s) - 1 : r[k] = IF k < i THEN s[k] ELSE s[k + 1]
  BY <1>1, DelFacts
<1>3. D \in Seq(S) /\ Len(D) = Len(s) /\ \A k \in 1 .. Len(s) : D[k] = Entry(nd, s[k])
  <2>1. \A k \in 1 .. Len(s) : s[k] \in Nodes /\ Entry(nd, s[k]) \in S
    BY DEF Entry
  <2> QED
    BY <1>1, <2>1 DEF Entries
<1> HIDE DEF r, D
<1>4. /\ RemoveAt(D, i) = Del(D, i)
      /\ \A k \in 1 .. Len(s) - 1 : Del(D, i)[k] = IF k < i THEN D[k] ELSE D[k + 1]
  <2>1. i \in 1 .. Len(D)
    BY <1>3
  <2> HIDE DEF S
  <2> QED
    BY <1>3, <2>1, DelFacts
<1>5. ASSUME NEW k \in 1 .. Len(s) - 1 PROVE Entry(nd2, r[k]) = Del(D, i)[k]
  <2>1. CASE k < i
    <3>1. k \in 1 .. Len(s) /\ r[k] = s[k] /\ Del(D, i)[k] = D[k] /\ k # i
      BY <1>1, <1>2, <1>4, <2>1
    <3> QED
      BY <1>3, <3>1 DEF Entry
  <2>2. CASE k >= i
    <3>1. k + 1 \in 1 .. Len(s) /\ r[k] = s[k + 1] /\ Del(D, i)[k] = D[k + 1] /\ k + 1 # i
      BY <1>1, <1>2, <1>4, <2>2
    <3> QED
      BY <1>3, <3>1 DEF Entry
  <2>3. k < i \/ k >= i
    BY <1>1
  <2> QED
    BY <2>1, <2>2, <2>3, Zenon
<1>6. Entries(nd2, r) = [k \in 1 .. Len(s) - 1 |-> Entry(nd2, r[k])]
  BY <1>2 DEF Entries
<1>7. Del(D, i) = [k \in 1 .. Len(s) - 1 |-> Del(D, i)[k]]
  BY <1>3 DEF Del
<1>8. Entries(nd2, r) = Del(D, i)
  BY <1>5, <1>6, <1>7
<1> QED
  BY <1>3, <1>4, <1>8 DEF r, D

-----------------------------------------------------------------------------
(* The steps *)

\* What a live list says of one of its elements.
LEMMA Position ==
    ASSUME NEW s, Holds(s), at = "live", NEW element \in Elements
    PROVE  \E j \in 1 .. Len(s) :
               /\ element = s[j]
               /\ node[element].next = IF j < Len(s) THEN s[j + 1] ELSE NULL
<1>1. Elements = Range(s)
  BY Views
<1>2. Chain(node, head, s) /\ Ends(node, head, tail, s)
  BY DEF Holds
<1>3. /\ DOMAIN s = 1 .. Len(s) /\ Len(s) \in Nat
      /\ \A k \in 1 .. Len(s) - 1 : node[s[k]].next = s[k + 1]
      /\ Len(s) # 0 => node[s[Len(s)]].next = NULL
  <2>1. s \in Seq(Nodes)
    BY <1>2 DEF Chain
  <2> QED
    BY <1>2, <2>1 DEF Chain, Ends
<1>4. PICK j \in 1 .. Len(s) : element = s[j]
  BY <1>1, <1>3 DEF Range
<1>5. node[s[j]].next = IF j < Len(s) THEN s[j + 1] ELSE NULL
  <2>1. CASE j < Len(s)
    <3>1. j \in 1 .. Len(s) - 1
      BY <1>3, <2>1
    <3> QED
      BY <1>3, <2>1, <3>1
  <2>2. CASE j = Len(s)
    BY <1>3, <2>2
  <2>3. j < Len(s) \/ j = Len(s)
    <3>1. Len(s) \in Nat /\ j \in 1 .. Len(s)
      BY <1>3
    <3> QED
      BY ONLY <3>1
  <2> QED
    BY <2>1, <2>2, <2>3, Zenon
<1> QED
  BY <1>4, <1>5

\* What a live list is.
LEMMA LiveFacts ==
    ASSUME FieldTypes, NEW s, Holds(s), at = "live"
    PROVE  /\ Chain(node, head, s) /\ Ends(node, head, tail, s)
           /\ s \in Seq(Nodes) /\ Len(s) \in Nat /\ size = Len(s) /\ allocated = Range(s)
           /\ \A k \in 1 .. Len(s) : s[k] \in Nodes /\ node[s[k]].data \in Data \cup {NULL}
           /\ \A j, k \in 1 .. Len(s) : s[j] = s[k] => j = k
           /\ head = IF Len(s) > 0 THEN s[1] ELSE NULL
<1>1. /\ Chain(node, head, s) /\ Ends(node, head, tail, s) /\ size = Len(s)
      /\ allocated = Range(s)
  BY DEF Holds, Length, Faulted
<1>2. s \in Seq(Nodes) /\ \A j, k \in 1 .. Len(s) : s[j] = s[k] => j = k
  BY <1>1 DEF Chain
<1>3. Len(s) \in Nat /\ \A k \in 1 .. Len(s) : s[k] \in Nodes
  BY <1>2
<1>4. \A n \in Nodes : node[n].data \in Data \cup {NULL}
  BY DEF FieldTypes, Node
<1>5. head = IF Len(s) > 0 THEN s[1] ELSE NULL
  BY <1>1, <1>3 DEF Chain, Ends
<1> QED
  BY <1>1, <1>2, <1>3, <1>4, <1>5

\* A step keeps the invariant.
Kept == FieldTypes' /\ \E r : Holds(r)'

\* A node is linked in at place i, behind the element.
LEMMA InsertKept ==
    ASSUME FieldTypes, FieldTypes', NEW s, Holds(s), at = "live", at' = "live",
           NEW i \in 1 .. Len(s) + 1, NEW new \in Nodes \ allocated, NEW d \in Data,
           NEW element, IF i = 1 THEN element = NULL ELSE element = s[i - 1],
           head' = IF i = 1 THEN new ELSE head,
           tail' = IF i = Len(s) + 1 THEN new ELSE tail,
           size' = size + 1, allocated' = allocated \cup {new},
           node'[new].next = IF i <= Len(s) THEN s[i] ELSE NULL,
           node'[new].data = d,
           i > 1 => node'[s[i - 1]].next = new,
           \A k \in 1 .. Len(s) : k # i - 1 => node'[s[k]].next = node[s[k]].next,
           \A k \in 1 .. Len(s) : node'[s[k]].data = node[s[k]].data
    PROVE  Kept /\ Abstract!InsertNext(element, d)
<1> DEFINE r == Ins(s, i, new)
<1>1. /\ Chain(node, head, s) /\ Ends(node, head, tail, s)
      /\ s \in Seq(Nodes) /\ Len(s) \in Nat /\ size = Len(s) /\ allocated = Range(s)
      /\ \A k \in 1 .. Len(s) : node[s[k]].data \in Data \cup {NULL}
  BY LiveFacts
<1>2. new \in Nodes /\ new \notin Range(s)
  BY <1>1
<1>3. Chain(node', head', r) /\ Ends(node', head', tail', r)
  BY <1>1, <1>2, ChainInserted
<1>4. Len(r) = Len(s) + 1 /\ Range(r) = Range(s) \cup {new}
  <2>1. s \in Seq(Nodes) /\ i \in 1 .. Len(s) + 1 /\ new \in Nodes
    BY <1>1
  <2> QED
    BY ONLY <2>1, InsFacts
<1>5. /\ Entries(node', r) = InsertAt(Entries(node, s), i, Entry(node', new))
      /\ Len(Entries(node, s)) = Len(s)
  <2>1. node'[new].data \in Data
    OBVIOUS
  <2> QED
    BY <1>1, <1>2, <2>1, EntriesInserted
<1> HIDE DEF r
<1>6. Holds(r)'
  BY <1>1, <1>3, <1>4 DEF Holds, Length, Faulted
<1>7. contents = Entries(node, s) /\ contents' = Entries(node', r)
  BY <1>6, Views, ViewsPrimed
<1>8. Abstract!InsertNext(element, d)
  <2>1. i - 1 \in 0 .. Len(contents) /\ (i - 1) + 1 = i
    BY <1>1, <1>5, <1>7
  <2>2. contents' = InsertAt(contents, (i - 1) + 1, [element |-> new, data |-> d])
    BY <1>5, <1>7, <2>1 DEF Entry
  <2>3. \A k \in 1 .. Len(s) : contents[k].element = s[k]
    BY <1>7 DEF Entries, Entry
  <2>4. new \in Abstract!New
    <3>1. \A k \in 1 .. Len(s) : s[k] # new
      BY <1>1, <1>2 DEF Range
    <3>2. Len(contents) = Len(s)
      BY <1>5, <1>7
    <3> QED
      BY <1>2, <2>3, <3>1, <3>2 DEF Abstract!New
  <2>5. Abstract!At(i - 1, element)
    <3>1. CASE i = 1
      BY <3>1 DEF Abstract!At
    <3>2. CASE i # 1
      <4>1. i - 1 \in 1 .. Len(s) /\ i - 1 # 0
        BY <1>1, <3>2
      <4> QED
        BY <2>3, <3>2, <4>1 DEF Abstract!At
    <3> QED
      BY <3>1, <3>2
  <2> QED
    BY <2>1, <2>2, <2>4, <2>5 DEF Abstract!InsertNext, Abstract!InsertAt, InsertAt
<1> QED
  BY <1>6, <1>8 DEF Kept

\* The node in place i, behind the element, is unlinked.
LEMMA RemoveKept ==
    ASSUME NULL \notin Nodes, FieldTypes, FieldTypes', NEW s, Holds(s), at = "live",
           NEW i \in 1 .. Len(s),
           NEW element, IF i = 1 THEN element = NULL ELSE element = s[i - 1],
           head' = IF i = 1 THEN node[s[1]].next ELSE head,
           tail' = IF i = 1 THEN (IF Len(s) = 1 THEN NULL ELSE tail)
                   ELSE IF node[s[i]].next = NULL THEN s[i - 1] ELSE tail,
           \/ at' = "live" /\ size' = size - 1 /\ allocated' = allocated \ {s[i]}
           \/ at' = "null destroy" /\ size' = size,
           i > 1 => node'[s[i - 1]].next = node[s[i]].next,
           \A k \in 1 .. Len(s) : k # i - 1 /\ k # i => node'[s[k]].next = node[s[k]].next,
           \A k \in 1 .. Len(s) : k # i => node'[s[k]].data = node[s[k]].data
    PROVE  Kept /\ Abstract!RemoveNext(element)
<1> DEFINE r == Del(s, i)
<1>1. /\ Chain(node, head, s) /\ Ends(node, head, tail, s)
      /\ s \in Seq(Nodes) /\ Len(s) \in Nat /\ size = Len(s) /\ allocated = Range(s)
      /\ \A k \in 1 .. Len(s) : node[s[k]].data \in Data \cup {NULL}
      /\ \A j, k \in 1 .. Len(s) : s[j] = s[k] => j = k
  BY LiveFacts
<1>2. Chain(node', head', r) /\ Ends(node', head', tail', r)
  BY <1>1, ChainRemoved
<1>3. Len(r) = Len(s) - 1 /\ Range(r) = Range(s) \ {s[i]}
  <2>1. s \in Seq(Nodes) /\ i \in 1 .. Len(s)
    BY <1>1
  <2>2. /\ Len(Del(s, i)) = Len(s) - 1
        /\ (\A j, k \in 1 .. Len(s) : s[j] = s[k] => j = k) =>
               Range(Del(s, i)) = Range(s) \ {s[i]}
    BY ONLY <2>1, DelFacts
  <2> QED
    BY <1>1, <2>2
<1>4. Entries(node', r) = RemoveAt(Entries(node, s), i) /\ Len(Entries(node, s)) = Len(s)
  <2>1. /\ s \in Seq(Nodes) /\ i \in 1 .. Len(s)
        /\ \A k \in 1 .. Len(s) : node[s[k]].data \in Data \cup {NULL}
        /\ \A k \in 1 .. Len(s) : k # i => node'[s[k]].data = node[s[k]].data
    BY <1>1
  <2> QED
    BY ONLY <2>1, EntriesRemoved
<1> HIDE DEF r
<1>5. Holds(r)'
  BY <1>1, <1>2, <1>3 DEF Holds, Length, Faulted
<1>6. contents = Entries(node, s) /\ contents' = Entries(node', r)
  BY <1>5, Views, ViewsPrimed
<1>7. Abstract!RemoveNext(element)
  <2>1. i - 1 \in 0 .. Len(contents) - 1 /\ (i - 1) + 1 = i
    <3>1. Len(contents) = Len(s) /\ Len(s) \in Nat /\ i \in 1 .. Len(s)
      BY <1>1, <1>4, <1>6
    <3> QED
      BY ONLY <3>1
  <2>2. contents' = RemoveAt(contents, (i - 1) + 1)
    BY <1>4, <1>6, <2>1
  <2>3. Abstract!At(i - 1, element)
    <3>1. CASE i = 1
      <4>1. element = NULL
        BY <3>1, Zenon
      <4>2. i - 1 = 0
        BY ONLY i = 1, <3>1
      <4> QED
        BY <4>1, <4>2 DEF Abstract!At
    <3>2. CASE i # 1
      <4>1. i - 1 \in 1 .. Len(s) /\ i - 1 # 0
        <5>1. Len(s) \in Nat /\ i \in 1 .. Len(s) /\ i # 1
          BY <1>1, <3>2
        <5> QED
          BY ONLY <5>1
      <4>2. contents[i - 1].element = s[i - 1]
        BY <1>6, <4>1 DEF Entries, Entry
      <4> QED
        BY <3>2, <4>1, <4>2 DEF Abstract!At
    <3> QED
      BY <3>1, <3>2
  <2> QED
    BY <2>1, <2>2, <2>3 DEF Abstract!RemoveNext, Abstract!RemoveAt, RemoveAt
<1> QED
  BY <1>5, <1>7 DEF Kept

\* A call of list_insert_next.
LEMMA InsertNextKept ==
    ASSUME FieldTypes, NEW s, Holds(s),
           NEW element \in Elements \cup {NULL}, NEW d \in Data, list_insert_next(element, d)
    PROVE  /\ Kept
           /\ IF at' = "live" THEN Abstract!InsertNext(element, d) ELSE UNCHANGED contents
<1>1. at = "live" /\ null_destroy' = null_destroy
  BY DEF list_insert_next
<1>2. /\ Chain(node, head, s) /\ Ends(node, head, tail, s)
      /\ s \in Seq(Nodes) /\ Len(s) \in Nat /\ size = Len(s) /\ allocated = Range(s)
      /\ \A k \in 1 .. Len(s) : s[k] \in Nodes /\ s[k] \in Range(s)
      /\ \A j, k \in 1 .. Len(s) : s[j] = s[k] => j = k
      /\ head = IF Len(s) > 0 THEN s[1] ELSE NULL
  BY <1>1, LiveFacts DEF Range
<1>3. NULL \notin Nodes /\ NULL \notin Data
  BY LinkedListAssumption
<1>4. PICK new \in Nodes \ allocated :
          /\ allocated' = allocated \cup {new}
          /\ \/ element = NULL /\ InsertHead(new, d) /\ size' = size + 1 /\ UNCHANGED at
             \/ /\ element # NULL /\ node[element].next # NULL
                /\ InsertAfter(element, new, d) /\ size' = size + 1 /\ UNCHANGED at
             \/ /\ element # NULL /\ node[element].next = NULL
                /\ node' = [node EXCEPT ![new] = [data |-> d, next |-> NULL, prev |-> element]]
                /\ tail' = new
                /\ at' = "null element" /\ UNCHANGED <<head, size>>
  BY DEF list_insert_next
<1>5. new \in Nodes /\ \A k \in 1 .. Len(s) : s[k] # new
  BY <1>2
<1>6. /\ node \in [Nodes -> Node] /\ head \in Nodes \cup {NULL} /\ tail \in Nodes \cup {NULL}
      /\ size \in Nat /\ null_destroy' \in BOOLEAN
  BY <1>1 DEF FieldTypes
<1>7. CASE element = NULL /\ InsertHead(new, d) /\ size' = size + 1 /\ UNCHANGED at
  <2>1. /\ head' = new /\ tail' = IF size = 0 THEN new ELSE tail
        /\ node' = [n \in Nodes |->
                        IF n = new THEN [data |-> d, next |-> head, prev |-> NULL]
                        ELSE IF n = head THEN [node[n] EXCEPT !.prev = new] ELSE node[n]]
    BY <1>7 DEF InsertHead
  <2>2. node'[new].next = head /\ node'[new].data = d
    BY <1>5, <2>1
  <2>3. ASSUME NEW n \in Nodes, n # new
        PROVE  node'[n].next = node[n].next /\ node'[n].data = node[n].data
    BY <1>6, <2>1, <2>3 DEF Node
  <2>4. node' \in [Nodes -> Node]
    BY <1>5, <1>6, <2>1 DEF Node
  <2>5. FieldTypes'
    BY <1>1, <1>4, <1>5, <1>6, <1>7, <2>1, <2>4 DEF FieldTypes
  <2>6. /\ head' = IF 1 = 1 THEN new ELSE head
        /\ tail' = IF 1 = Len(s) + 1 THEN new ELSE tail
        /\ node'[new].next = IF 1 <= Len(s) THEN s[1] ELSE NULL
        /\ 1 \in 1 .. Len(s) + 1
    BY <1>2, <2>1, <2>2
  <2>7. \A k \in 1 .. Len(s) :
            node'[s[k]].next = node[s[k]].next /\ node'[s[k]].data = node[s[k]].data
    BY <1>2, <1>5, <2>3
  <2>8. at' = "live" /\ size' = size + 1 /\ allocated' = allocated \cup {new} /\ ~(1 > 1)
    BY <1>1, <1>4, <1>7
  <2> QED
    BY <1>1, <1>5, <1>7, <2>2, <2>5, <2>6, <2>7, <2>8, InsertKept
<1>8. CASE /\ element # NULL /\ node[element].next # NULL
           /\ InsertAfter(element, new, d) /\ size' = size + 1 /\ UNCHANGED at
  <2>1. PICK j \in 1 .. Len(s) :
            /\ element = s[j]
            /\ node[element].next = IF j < Len(s) THEN s[j + 1] ELSE NULL
    <3>1. element \in Elements
      BY <1>8
    <3> QED
      BY <1>1, <3>1, Position
  <2>2. j < Len(s) /\ node[element].next = s[j + 1]
    BY <1>8, <2>1
  <2>3. /\ j + 1 \in 1 .. Len(s) /\ j + 1 \in 1 .. Len(s) + 1 /\ j + 1 # 1
        /\ j + 1 # Len(s) + 1 /\ j + 1 <= Len(s) /\ j + 1 > 1 /\ (j + 1) - 1 = j
        /\ j # j + 1
    BY <1>2, <2>2
  <2>4. PICK c : c = s[j + 1]
    OBVIOUS
  <2>5. c \in Nodes /\ element \in Nodes /\ c # element /\ c # new /\ element # new
    BY <1>2, <1>5, <2>1, <2>3, <2>4
  <2>6. /\ node' = [node EXCEPT ![new] = [data |-> d, next |-> c, prev |-> element],
                                ![element].next = new, ![c].prev = new]
        /\ UNCHANGED <<head, tail>>
    BY <1>8, <2>2, <2>4 DEF InsertAfter
  <2>7. /\ node'[new].next = c /\ node'[new].data = d
        /\ node'[element].next = new /\ node'[element].data = node[element].data
        /\ node'[c].next = node[c].next /\ node'[c].data = node[c].data
        /\ \A n \in Nodes \ {new, element, c} : node'[n] = node[n]
    BY <1>5, <1>6, <2>5, <2>6 DEF Node
  <2>8. node' \in [Nodes -> Node]
    BY <1>5, <1>6, <2>5, <2>6 DEF Node
  <2>9. FieldTypes'
    BY <1>1, <1>6, <1>8, <2>6, <2>8 DEF FieldTypes
  <2>10. \A k \in 1 .. Len(s) : node'[s[k]].data = node[s[k]].data
    BY <1>2, <1>5, <2>7
  <2>11. \A k \in 1 .. Len(s) : k # (j + 1) - 1 => node'[s[k]].next = node[s[k]].next
    <3>1. \A k \in 1 .. Len(s) : k # j => s[k] # element
      BY <1>2, <2>1
    <3> QED
      BY <1>2, <1>5, <2>3, <2>7, <3>1
  <2>12. /\ head' = IF j + 1 = 1 THEN new ELSE head
         /\ tail' = IF j + 1 = Len(s) + 1 THEN new ELSE tail
         /\ node'[new].next = IF j + 1 <= Len(s) THEN s[j + 1] ELSE NULL
         /\ node'[s[(j + 1) - 1]].next = new
    BY <2>1, <2>3, <2>4, <2>6, <2>7
  <2>13. at' = "live" /\ size' = size + 1 /\ allocated' = allocated \cup {new}
    BY <1>1, <1>4, <1>8
  <2> QED
    <3>1. IF j + 1 = 1 THEN element = NULL ELSE element = s[(j + 1) - 1]
      BY <2>1, <2>3
    <3>2. (j + 1 > 1) => node'[s[(j + 1) - 1]].next = new
      BY <2>12
    <3>3. Kept /\ Abstract!InsertNext(element, d)
      BY <1>1, <2>3, <2>7, <2>9, <2>10, <2>11, <2>12, <2>13, <3>1, <3>2, InsertKept
    <3> QED
      BY <2>13, <3>3
<1>9. CASE /\ element # NULL /\ node[element].next = NULL
           /\ node' = [node EXCEPT ![new] = [data |-> d, next |-> NULL, prev |-> element]]
           /\ tail' = new
           /\ at' = "null element" /\ UNCHANGED <<head, size>>
  <2>1. element \in Nodes
    <3>1. element \in Elements
      BY <1>9
    <3> QED
      BY <1>1, <1>2, <3>1, Position
  <2>2. node' \in [Nodes -> Node] /\ \A n \in Nodes : n # new => node'[n] = node[n]
    BY <1>5, <1>6, <1>9, <2>1 DEF Node
  <2>3. FieldTypes'
    BY <1>5, <1>6, <1>9, <2>2 DEF FieldTypes
  <2>4. \A k \in 1 .. Len(s) : node'[s[k]] = node[s[k]]
    BY <1>2, <1>5, <2>2
  <2>5. Chain(node', head', s)
    <3>1. \A k \in 1 .. Len(s) - 1 : node'[s[k]].next = node[s[k]].next
      BY <1>2, <2>4
    <3> QED
      BY <1>2, <1>9, <3>1 DEF Chain
  <2>6. Holds(s)'
    BY <1>2, <1>9, <2>5 DEF Holds, Length, Faulted
  <2>7. contents' = contents
    <3>1. contents = Entries(node, s) /\ contents' = Entries(node', s)
      BY <2>6, Views, ViewsPrimed
    <3> QED
      BY <2>4, <3>1 DEF Entries, Entry
  <2> QED
    BY <1>9, <2>3, <2>6, <2>7 DEF Kept
<1> QED
  BY <1>4, <1>7, <1>8, <1>9

\* A call of list_remove_next.
LEMMA RemoveNextKept ==
    ASSUME FieldTypes, NEW s, Holds(s),
           NEW element \in Elements \cup {NULL}, list_remove_next(element)
    PROVE  Kept /\ Abstract!RemoveNext(element)
<1>1. /\ at = "live" /\ size # 0 /\ null_destroy' = null_destroy
      /\ element # NULL => node[element].next # NULL
  BY DEF list_remove_next
<1>2. /\ Chain(node, head, s) /\ Ends(node, head, tail, s)
      /\ s \in Seq(Nodes) /\ Len(s) \in Nat /\ size = Len(s) /\ allocated = Range(s)
      /\ \A k \in 1 .. Len(s) : s[k] \in Nodes
      /\ \A j, k \in 1 .. Len(s) : s[j] = s[k] => j = k
      /\ head = IF Len(s) > 0 THEN s[1] ELSE NULL
  BY <1>1, LiveFacts
<1>3. NULL \notin Nodes
  BY LinkedListAssumption
<1>4. /\ node \in [Nodes -> Node] /\ head \in Nodes \cup {NULL} /\ tail \in Nodes \cup {NULL}
      /\ size \in Nat /\ null_destroy' \in BOOLEAN
  BY <1>1 DEF FieldTypes
\* The node old is in place i, behind the element.
<1>5. PICK i \in 1 .. Len(s) :
          /\ Removed(element) = s[i]
          /\ element = NULL => i = 1
          /\ element # NULL => i > 1 /\ element = s[i - 1]
  <2>1. CASE element = NULL
    <3>1. 1 \in 1 .. Len(s) /\ head = s[1]
      BY <1>1, <1>2
    <3> QED
      BY <2>1, <3>1 DEF Removed
  <2>2. CASE element # NULL
    <3>1. PICK j \in 1 .. Len(s) :
              /\ element = s[j]
              /\ node[element].next = IF j < Len(s) THEN s[j + 1] ELSE NULL
      <4>1. element \in Elements
        BY <2>2
      <4> QED
        BY <1>1, <4>1, Position
    <3>2. j < Len(s) /\ node[element].next = s[j + 1]
      BY <1>1, <2>2, <3>1
    <3>3. j + 1 \in 1 .. Len(s) /\ j + 1 > 1 /\ (j + 1) - 1 = j
      BY <1>2, <3>2
    <3> QED
      BY <2>2, <3>1, <3>2, <3>3 DEF Removed
  <2> QED
    BY <2>1, <2>2
<1>6. PICK old, rest : old = s[i] /\ rest = node[s[i]].next
  OBVIOUS
<1>7. old \in Nodes /\ rest \in Nodes \cup {NULL}
  BY <1>2, <1>4, <1>6 DEF Node
<1>8. PICK kept : kept = IF element = NULL THEN node ELSE [node EXCEPT ![element].next = rest]
  OBVIOUS
<1>9. /\ head' = IF element = NULL THEN rest ELSE head
      /\ tail' = IF element = NULL THEN (IF size = 1 THEN NULL ELSE tail)
                 ELSE IF rest = NULL THEN element ELSE tail
      /\ \/ node' = kept /\ at' = "null destroy" /\ UNCHANGED <<size, allocated>>
         \/ /\ node' = [kept EXCEPT ![old] = Cleared]
            /\ allocated' = allocated \ {old}
            /\ size' = size - 1 /\ UNCHANGED at
  BY <1>5, <1>6, <1>8 DEF list_remove_next, Freed
<1>10. element # NULL => /\ element \in Nodes /\ element # old
                         /\ i - 1 \in 1 .. Len(s) /\ i - 1 # i
  BY <1>2, <1>5, <1>6
<1>11. /\ kept \in [Nodes -> Node]
       /\ element # NULL => kept[element].next = rest
       /\ \A n \in Nodes : n # element => kept[n] = node[n]
       /\ \A n \in Nodes : kept[n].data = node[n].data
  <2>1. CASE element = NULL
    BY <1>3, <1>4, <1>8, <2>1
  <2>2. CASE element # NULL
    <3>1. kept = [node EXCEPT ![element].next = rest] /\ element \in Nodes
      BY <1>8, <1>10, <2>2
    <3> QED
      BY <1>4, <1>7, <3>1 DEF Node
  <2> QED
    BY <2>1, <2>2
<1>12. /\ node' \in [Nodes -> Node]
       /\ \A n \in Nodes : n # old => node'[n] = kept[n]
  <2>1. Cleared \in Node
    BY DEF Cleared, Node
  <2>2. CASE node' = kept
    BY <1>11, <2>2
  <2>3. CASE node' = [kept EXCEPT ![old] = Cleared]
    BY <1>7, <1>11, <2>1, <2>3
  <2> QED
    BY <1>9, <2>2, <2>3
<1>13. FieldTypes'
  <2>1. head' \in Nodes \cup {NULL} /\ tail' \in Nodes \cup {NULL}
    BY <1>4, <1>7, <1>9, <1>10
  <2>2. size' \in Nat
    <3>1. size \in Nat /\ size # 0 /\ (size' = size \/ size' = size - 1)
      BY <1>1, <1>4, <1>9
    <3> QED
      BY ONLY <3>1
  <2>3. at' \in {"live", "destroyed", "null element", "null destroy"}
    BY <1>1, <1>9
  <2> QED
    BY <1>4, <1>12, <2>1, <2>2, <2>3 DEF FieldTypes
<1>14. element = NULL <=> i = 1
  BY <1>5, <1>10
<1>15. /\ head' = IF i = 1 THEN node[s[1]].next ELSE head
       /\ tail' = IF i = 1 THEN (IF Len(s) = 1 THEN NULL ELSE tail)
                  ELSE IF node[s[i]].next = NULL THEN s[i - 1] ELSE tail
  BY <1>2, <1>5, <1>6, <1>9, <1>14
<1>16. \/ at' = "live" /\ size' = size - 1 /\ allocated' = allocated \ {s[i]}
       \/ at' = "null destroy" /\ size' = size
  BY <1>1, <1>6, <1>9
<1>17. i > 1 => node'[s[i - 1]].next = node[s[i]].next
  BY <1>5, <1>6, <1>10, <1>11, <1>12, <1>14
<1>18. \A k \in 1 .. Len(s) : k # i => s[k] \in Nodes /\ s[k] # old
  BY <1>2, <1>6
<1>19. \A k \in 1 .. Len(s) : k # i => node'[s[k]].data = node[s[k]].data
  BY <1>11, <1>12, <1>18
<1>20. \A k \in 1 .. Len(s) : k # i - 1 /\ k # i => node'[s[k]].next = node[s[k]].next
  <2>1. \A k \in 1 .. Len(s) : k # i - 1 => s[k] # element
    BY <1>2, <1>3, <1>5, <1>10
  <2> QED
    BY <1>11, <1>12, <1>18, <2>1
<1> QED
  BY <1>1, <1>3, <1>5, <1>13, <1>14, <1>15, <1>16, <1>17, <1>19, <1>20, RemoveKept

\* A list without nodes.
LEMMA EmptyHolds ==
    ASSUME head' = NULL, tail' = NULL, size' = 0, allocated' = {}, at' \in {"live", "destroyed"}
    PROVE  Holds(<<>>)' /\ contents' = <<>>
<1>1. Len(<<>>) = 0 /\ Range(<<>>) = {} /\ <<>> \in Seq(Nodes)
  BY DEF Range
<1>2. Holds(<<>>)'
  <2>1. Chain(node', head', <<>>)
    BY <1>1 DEF Chain
  <2>2. Ends(node', head', tail', <<>>)
    BY <1>1 DEF Ends
  <2>3. Length' = 0
    BY DEF Length
  <2> QED
    BY <1>1, <2>1, <2>2, <2>3 DEF Holds
<1>3. contents' = Entries(node', <<>>)
  BY <1>2, ViewsPrimed
<1>4. Entries(node', <<>>) = <<>>
  BY <1>1 DEF Entries
<1> QED
  BY <1>2, <1>3, <1>4

\* A call of list_destroy.
LEMMA DestroyKept ==
    ASSUME FieldTypes, NEW s, Holds(s), list_destroy
    PROVE  /\ Kept
           /\ IF at' = "destroyed" THEN Abstract!Destroy ELSE Abstract!RemoveNext(NULL)
<1>1. at = "live" /\ null_destroy' = null_destroy
  BY DEF list_destroy
<1>2. /\ s \in Seq(Nodes) /\ Len(s) \in Nat /\ size = Len(s) /\ allocated = Range(s)
      /\ head = IF Len(s) > 0 THEN s[1] ELSE NULL
      /\ \A k \in 1 .. Len(s) : s[k] \in Nodes
  BY <1>1, LiveFacts
<1>3. /\ node \in [Nodes -> Node] /\ head \in Nodes \cup {NULL} /\ tail \in Nodes \cup {NULL}
      /\ size \in Nat /\ null_destroy' \in BOOLEAN
  BY <1>1 DEF FieldTypes
<1>4. CASE /\ size > 0 /\ null_destroy
           /\ head' = node[head].next /\ tail' = IF size = 1 THEN NULL ELSE tail
           /\ at' = "null destroy" /\ UNCHANGED <<node, size, allocated>>
  <2>1. 1 \in 1 .. Len(s) /\ head = s[1] /\ head \in Nodes
    <3>1. Len(s) \in Nat /\ Len(s) > 0
      BY <1>2, <1>4
    <3>2. 1 \in 1 .. Len(s)
      BY ONLY <3>1
    <3> QED
      BY <1>2, <3>1, <3>2
  <2>2. node[head].next \in Nodes \cup {NULL}
    BY <1>3, <2>1 DEF Node
  <2>3. FieldTypes'
    BY <1>3, <1>4, <2>2 DEF FieldTypes
  <2>4. /\ head' = IF 1 = 1 THEN node[s[1]].next ELSE head
        /\ tail' = IF 1 = 1 THEN (IF Len(s) = 1 THEN NULL ELSE tail)
                   ELSE IF node[s[1]].next = NULL THEN s[1 - 1] ELSE tail
        /\ ~(1 > 1) /\ node' = node /\ at' = "null destroy" /\ size' = size
    <3>1. head' = node[s[1]].next /\ tail' = IF Len(s) = 1 THEN NULL ELSE tail
      BY <1>2, <1>4, <2>1
    <3>2. ~(1 > 1) /\ 1 = 1
      OBVIOUS
    <3>3. node' = node /\ at' = "null destroy" /\ size' = size
      BY <1>4
    <3> QED
      BY <3>1, <3>2, <3>3, Zenon
  <2>5. NULL \notin Nodes
    BY LinkedListAssumption
  <2> QED
    BY <1>1, <1>4, <2>1, <2>3, <2>4, <2>5, RemoveKept
<1>5. CASE /\ node' = [n \in Nodes |-> IF n \in Elements THEN Cleared ELSE node[n]]
           /\ allocated' = allocated \ Elements
           /\ head' = NULL /\ tail' = NULL /\ size' = 0
           /\ at' = "destroyed"
  <2>1. allocated' = {}
    BY <1>2, <1>5, Views
  <2>2. node' \in [Nodes -> Node]
    BY <1>3, <1>5 DEF Node, Cleared
  <2>3. FieldTypes'
    BY <1>3, <1>5, <2>2 DEF FieldTypes
  <2>4. Holds(<<>>)' /\ contents' = <<>>
    BY <1>5, <2>1, EmptyHolds
  <2> QED
    BY <1>5, <2>3, <2>4 DEF Kept, Abstract!Destroy
<1> QED
  BY <1>4, <1>5 DEF list_destroy

\* A step that leaves the list as it is: list_init of a destroyed list, or no step.
LEMMA SameKept ==
    ASSUME FieldTypes, NEW s, Holds(s),
           UNCHANGED <<node, head, tail, size, allocated>>,
           \/ at = "destroyed" /\ at' = "live" /\ null_destroy' \in BOOLEAN
           \/ UNCHANGED <<at, null_destroy>>
    PROVE  Kept /\ UNCHANGED contents
<1>1. Length' = Length /\ (Faulted' <=> Faulted) /\ (at = "null element" <=> at' = "null element")
  BY DEF Length, Faulted
<1>2. Holds(s)'
  BY <1>1 DEF Holds
<1>3. FieldTypes'
  BY DEF FieldTypes
<1>4. contents' = contents
  BY <1>2, Views, ViewsPrimed
<1> QED
  BY <1>2, <1>3, <1>4 DEF Kept

\* Every step keeps the invariant, and is one of the sequence's or leaves it alone.
LEMMA StepKept == ASSUME IInv, [Next]_vars PROVE Kept /\ [Abstract!Next]_contents
<1>1. FieldTypes
  BY DEF IInv
<1>2. PICK s : Holds(s)
  BY DEF IInv
<1>e. Elements \subseteq Nodes
  <2>1. Elements = Range(s) /\ s \in Seq(Nodes)
    BY <1>2, Views DEF Holds, Chain
  <2> QED
    BY <2>1 DEF Range
<1>3. ASSUME NEW element \in Elements \cup {NULL}, NEW d \in Data, list_insert_next(element, d)
      PROVE  Kept /\ [Abstract!Next]_contents
  <2>1. /\ Kept
        /\ IF at' = "live" THEN Abstract!InsertNext(element, d) ELSE UNCHANGED contents
    BY <1>1, <1>2, <1>3, InsertNextKept
  <2> QED
    BY <1>e, <2>1 DEF Abstract!Next
<1>4. ASSUME NEW element \in Elements \cup {NULL}, list_remove_next(element)
      PROVE  Kept /\ [Abstract!Next]_contents
  <2>1. Kept /\ Abstract!RemoveNext(element)
    BY <1>1, <1>2, <1>4, RemoveNextKept
  <2> QED
    BY <1>e, <2>1 DEF Abstract!Next
<1>5. CASE list_destroy
  <2>1. Kept /\ (Abstract!Destroy \/ Abstract!RemoveNext(NULL))
    BY <1>1, <1>2, <1>5, DestroyKept
  <2> QED
    BY <2>1 DEF Abstract!Next
<1>6. CASE list_init
  BY <1>1, <1>2, <1>6, SameKept DEF list_init
<1>7. CASE UNCHANGED vars
  BY <1>1, <1>2, <1>7, SameKept DEF vars
<1> QED
  BY <1>3, <1>4, <1>5, <1>6, <1>7 DEF Next

\* Every call is the operation of that name at the place of its element.
LEMMA CallKept == ASSUME IInv PROVE CallsAgree
<1>1. FieldTypes
  BY DEF IInv
<1>2. PICK s : Holds(s)
  BY DEF IInv
<1>3. ASSUME NEW element \in Elements \cup {NULL}, NEW d \in Data, list_insert_next(element, d)
      PROVE  IF at' = "live" THEN Abstract!InsertNext(element, d) ELSE UNCHANGED contents
  BY <1>1, <1>2, <1>3, InsertNextKept
<1>4. ASSUME NEW element \in Elements \cup {NULL}, list_remove_next(element)
      PROVE  Abstract!RemoveNext(element)
  BY <1>1, <1>2, <1>4, RemoveNextKept
<1>5. ASSUME list_destroy
      PROVE  IF at' = "destroyed" THEN Abstract!Destroy ELSE Abstract!RemoveNext(NULL)
  BY <1>1, <1>2, <1>5, DestroyKept
<1> QED
  BY <1>3, <1>4, <1>5 DEF CallsAgree

LEMMA InitKept == Init => IInv /\ Abstract!Init
<1> SUFFICES ASSUME Init PROVE IInv /\ Abstract!Init
  OBVIOUS
<1>1. /\ node = [n \in Nodes |-> Cleared] /\ head = NULL /\ tail = NULL /\ size = 0
      /\ null_destroy \in BOOLEAN /\ allocated = {} /\ at = "live"
  BY DEF Init
<1>2. FieldTypes
  BY <1>1 DEF FieldTypes, Node, Cleared
<1>3. Holds(<<>>)
  <2>1. Len(<<>>) = 0 /\ Range(<<>>) = {} /\ <<>> \in Seq(Nodes)
    BY DEF Range
  <2> QED
    BY <1>1, <2>1 DEF Holds, Length, Faulted, Chain, Ends
<1>4. contents = <<>>
  BY <1>3, Views DEF Entries
<1> QED
  BY <1>2, <1>3, <1>4 DEF IInv, Abstract!Init

-----------------------------------------------------------------------------
(* The theorems *)

\* The links always are those of a sequence of different nodes, whose length, last
\* node and memory are what size, tail and the allocator say.
THEOREM Invariance == Spec => []IInv
<1>1. IInv /\ [Next]_vars => IInv'
  BY StepKept DEF Kept, IInv
<1>2. Init => IInv
  BY InitKept
<1> QED
  BY <1>1, <1>2, PTL DEF Spec

\* linkedlist.c never leaks or frees a linked node, and its links agree with its
\* size and its tail, also in a call that faults.
THEOREM AlwaysLinked == Spec => []Linked
<1>1. IInv => Linked
  <2> SUFFICES ASSUME IInv PROVE Linked
    OBVIOUS
  <2>1. FieldTypes
    BY DEF IInv
  <2>2. PICK s : Holds(s)
    BY DEF IInv
  <2>3. InOrder = s /\ Elements = Range(s) /\ Length = Len(s)
    BY <2>2, Views
  <2>4. TypeOK
    <3>1. ~Faulted => allocated = Elements
      BY <2>2, <2>3 DEF Holds
    <3> QED
      BY <2>1, <3>1 DEF FieldTypes, TypeOK, Faulted
  <2>5. ASSUME at # "null element"
        PROVE  IF Length = 0 THEN head = NULL /\ tail = NULL
               ELSE /\ IsInjective(InOrder)
                    /\ InOrder[Length] = tail /\ node[tail].next = NULL
    <3>1. Chain(node, head, s) /\ Ends(node, head, tail, s)
      BY <2>2, <2>5 DEF Holds
    <3>2. /\ s \in Seq(Nodes) /\ DOMAIN s = 1 .. Len(s)
          /\ \A j, k \in 1 .. Len(s) : s[j] = s[k] => j = k
      <4>1. s \in Seq(Nodes)
        BY <3>1 DEF Chain
      <4> QED
        BY <3>1, <4>1 DEF Chain
    <3>3. IsInjective(s)
      BY <3>2 DEF IsInjective
    <3> QED
      BY <2>3, <3>1, <3>3 DEF Ends
  <2> QED
    BY <2>4, <2>5 DEF Linked
<1> QED
  BY <1>1, Invariance, PTL

\* linkedlist.c implements the sequence that linkedlist.h describes: list_insert_next
\* puts one new element with the caller's data right behind the caller's element,
\* list_remove_next takes out the one right behind it, list_destroy all of them, and
\* nothing else changes the sequence, also in the calls that fault.
THEOREM Implements == Spec => IsSequence
<1>1. IInv /\ [Next]_vars => [Abstract!Next]_contents
  BY StepKept
<1>2. Init => Abstract!Init
  BY InitKept
<1>3. Spec => Abstract!Spec
  BY <1>1, <1>2, Invariance, PTL DEF Spec, Abstract!Spec
<1>4. Spec => [][CallsAgree]_vars
  <2>1. IInv => [CallsAgree]_vars
    BY CallKept
  <2> QED
    BY <2>1, Invariance, PTL
<1> QED
  BY <1>3, <1>4 DEF IsSequence
=============================================================================
