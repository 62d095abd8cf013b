--------------------------- MODULE NodeQueueProofs ---------------------------
(* Every node of the scheduler's queues is in one place, and the linked lists   *)
(* implement the queues, for every number of nodes and queues, every set of     *)
(* items and at most two sleepers.                                              *)
EXTENDS NodeQueues, FiniteSetTheorems, FunctionTheorems, SequenceTheorems,
        WellFoundedInduction, TLAPS

\* queue_enqueue_prio is called while the sleep queue has at most one element.
\* With more it may insert behind the tail without moving it.
TwoSleepers == MaxSorted <= 2

\* From head h the next pointers nd lead through the nodes of s, all different,
\* to NULL.
Chain(nd, h, s) ==
    /\ s \in Seq(Blocks)
    /\ \A i, j \in 1 .. Len(s) : s[i] = s[j] => i = j
    /\ h = IF Len(s) = 0 THEN Null ELSE s[1]
    /\ \A i \in 1 .. Len(s) : nd[s[i]] = IF i < Len(s) THEN s[i + 1] ELSE Null

\* Each queue q is the sequence f[q] of nodes, the free stack is s.
QueueIs(q, f) ==
    /\ Chain(next, queues[q].head, f[q])
    /\ queues[q].size = Len(f[q])
    /\ Len(f[q]) # 0 => queues[q].tail = f[q][Len(f[q])]

StackIs(s) == Chain(next, ba.top, s) /\ ba.size = Len(s)

\* A node that was handed out once is in one queue or on the stack.
Apart(f, s) ==
    /\ \A q, r \in QueueIds : q # r => Members(f[q]) \cap Members(f[r]) = {}
    /\ \A q \in QueueIds : Members(f[q]) \cap Members(s) = {}
    /\ \A n \in Blocks :
          n < ba.implicit_next <=> n \in Members(s) \/ \E q \in QueueIds : n \in Members(f[q])

Holds(f, s) ==
    /\ f \in [QueueIds -> Seq(Blocks)]
    /\ \A q \in QueueIds : QueueIs(q, f)
    /\ StackIs(s)
    /\ Apart(f, s)

\* What the fields hold, whatever the lists are
FieldTypes ==
    /\ next \in [Blocks -> Blocks \cup {Null}]
    /\ data \in [Blocks -> Items \cup {0}]
    /\ ba \in [top : Blocks \cup {Null}, size : Nat, implicit_next : 1 .. NumNodes + 1]
    /\ queues \in [QueueIds -> [head : Blocks \cup {Null}, tail : Blocks \cup {Null},
                                size : Nat]]
    /\ failed \in BOOLEAN

\* The inductive invariant
IInv == FieldTypes /\ \E f, s : Holds(f, s)

-----------------------------------------------------------------------------
(* Chains of nodes *)

LEMMA ChainFacts ==
    ASSUME NEW nd, NEW h, NEW s, Chain(nd, h, s)
    PROVE  /\ s \in Seq(Blocks) /\ Len(s) \in Nat /\ DOMAIN s = 1 .. Len(s)
           /\ \A i \in 1 .. Len(s) : s[i] \in Blocks /\ s[i] # Null /\ s[i] \in Members(s)
           /\ \A n \in Members(s) : n \in Blocks /\ \E i \in 1 .. Len(s) : n = s[i]
           /\ Len(s) = 0 <=> Members(s) = {}
<1>1. s \in Seq(Blocks) /\ Len(s) \in Nat /\ DOMAIN s = 1 .. Len(s)
  BY DEF Chain
<1>2. \A i \in 1 .. Len(s) : s[i] \in Blocks /\ s[i] # Null
  <2>1. Null \notin Blocks
    BY NodeAssumption DEF Blocks, Null
  <2> QED
    BY <1>1, <2>1
<1>3. Members(s) = {s[i] : i \in 1 .. Len(s)}
  BY <1>1 DEF Members
<1> QED
  BY <1>1, <1>2, <1>3

\* Only the links of its own nodes matter to a chain.
LEMMA ChainSame ==
    ASSUME NEW nd, NEW nd2, NEW h, NEW s, Chain(nd, h, s),
           \A n \in Members(s) : nd2[n] = nd[n]
    PROVE  Chain(nd2, h, s)
<1>1. \A i \in 1 .. Len(s) : nd2[s[i]] = nd[s[i]]
  BY ChainFacts
<1> QED
  BY <1>1 DEF Chain

\* A chain without its first node
LEMMA ChainPop ==
    ASSUME NEW nd, NEW h, NEW s, Chain(nd, h, s), Len(s) # 0
    PROVE  /\ h = s[1] /\ h \in Blocks /\ h \in Members(s)
           /\ Chain(nd, nd[h], Tail(s)) /\ Len(Tail(s)) = Len(s) - 1
           /\ Members(Tail(s)) = Members(s) \ {h}
           /\ \A i \in 1 .. Len(s) - 1 : Tail(s)[i] = s[i + 1]
<1>1. /\ s \in Seq(Blocks) /\ Len(s) \in Nat \ {0} /\ DOMAIN s = 1 .. Len(s)
      /\ \A i \in 1 .. Len(s) : s[i] \in Blocks
  BY ChainFacts
<1>2. /\ \A i, j \in 1 .. Len(s) : s[i] = s[j] => i = j
      /\ \A i \in 1 .. Len(s) : nd[s[i]] = IF i < Len(s) THEN s[i + 1] ELSE Null
      /\ h = s[1] /\ 1 \in 1 .. Len(s)
  BY <1>1 DEF Chain
<1> DEFINE t == Tail(s)
<1>3. /\ t \in Seq(Blocks) /\ Len(t) = Len(s) - 1 /\ DOMAIN t = 1 .. Len(s) - 1
      /\ \A i \in 1 .. Len(s) - 1 : t[i] = s[i + 1]
  BY <1>1
<1> HIDE DEF t
<1>4. \A i \in 1 .. Len(s) - 1 : i + 1 \in 1 .. Len(s) /\ i \in Nat
  BY <1>1
<1>5. \A i, j \in 1 .. Len(t) : t[i] = t[j] => i = j
  BY <1>2, <1>3, <1>4
<1>6. nd[h] = IF Len(t) = 0 THEN Null ELSE t[1]
  BY <1>1, <1>2, <1>3
<1>7. ASSUME NEW i \in 1 .. Len(t) PROVE nd[t[i]] = IF i < Len(t) THEN t[i + 1] ELSE Null
  <2>1. i + 1 \in 1 .. Len(s) /\ t[i] = s[i + 1] /\ (i < Len(t) <=> i + 1 < Len(s))
    BY <1>1, <1>3, <1>4
  <2>2. nd[t[i]] = IF i + 1 < Len(s) THEN s[i + 2] ELSE Null
    BY <1>2, <2>1
  <2>3. i < Len(t) => t[i + 1] = s[i + 2]
    BY <1>1, <1>3
  <2> QED
    BY <2>1, <2>2, <2>3
<1>8. Members(t) = Members(s) \ {h}
  <2>1. ASSUME NEW n \in Members(s), n # h PROVE n \in Members(t)
    <3>1. PICK i \in 1 .. Len(s) : n = s[i]
      BY <1>1 DEF Members
    <3>2. i - 1 \in 1 .. Len(s) - 1 /\ (i - 1) + 1 = i
      BY <1>1, <1>2, <2>1, <3>1
    <3>3. t[i - 1] = n
      BY <1>3, <3>1, <3>2
    <3> QED
      BY <1>3, <3>2, <3>3 DEF Members
  <2>2. ASSUME NEW n \in Members(t) PROVE n \in Members(s) /\ n # h
    <3>1. PICK i \in 1 .. Len(s) - 1 : n = s[i + 1]
      BY <1>3 DEF Members
    <3>2. i + 1 \in 1 .. Len(s) /\ i + 1 # 1
      BY <1>4
    <3> QED
      BY <1>1, <1>2, <3>1, <3>2 DEF Members
  <2> QED
    BY <2>1, <2>2
<1>9. Chain(nd, nd[h], t)
  BY <1>3, <1>5, <1>6, <1>7 DEF Chain
<1>10. h \in Blocks /\ h \in Members(s)
  BY <1>1, <1>2 DEF Members
<1> QED
  BY <1>2, <1>3, <1>8, <1>9, <1>10 DEF t

\* A node before a chain
LEMMA ChainPush ==
    ASSUME NEW nd, NEW nd2, NEW h, NEW s, Chain(nd, h, s),
           NEW n \in Blocks, n \notin Members(s), nd2[n] = h,
           \A m \in Members(s) : nd2[m] = nd[m]
    PROVE  /\ Chain(nd2, n, <<n>> \o s) /\ Len(<<n>> \o s) = Len(s) + 1
           /\ Members(<<n>> \o s) = Members(s) \cup {n}
           /\ (<<n>> \o s)[1] = n
           /\ \A i \in 1 .. Len(s) : (<<n>> \o s)[i + 1] = s[i]
<1>1. /\ s \in Seq(Blocks) /\ Len(s) \in Nat /\ DOMAIN s = 1 .. Len(s)
      /\ \A i \in 1 .. Len(s) : s[i] \in Blocks /\ s[i] \in Members(s)
  BY ChainFacts
<1>2. /\ \A i, j \in 1 .. Len(s) : s[i] = s[j] => i = j
      /\ \A i \in 1 .. Len(s) : nd2[s[i]] = IF i < Len(s) THEN s[i + 1] ELSE Null
      /\ h = IF Len(s) = 0 THEN Null ELSE s[1]
  BY <1>1 DEF Chain
<1> DEFINE t == <<n>> \o s
<1>3. /\ t \in Seq(Blocks) /\ Len(t) = Len(s) + 1 /\ DOMAIN t = 1 .. Len(s) + 1
      /\ t[1] = n /\ \A i \in 1 .. Len(s) : t[i + 1] = s[i]
  BY <1>1
<1> HIDE DEF t
<1>4. ASSUME NEW i \in 1 .. Len(s) + 1, i # 1 PROVE i - 1 \in 1 .. Len(s) /\ t[i] = s[i - 1]
  <2>1. i - 1 \in 1 .. Len(s) /\ (i - 1) + 1 = i
    BY <1>1, <1>4
  <2> QED
    BY <1>3, <2>1
<1>5. ASSUME NEW i \in 1 .. Len(t), NEW j \in 1 .. Len(t), t[i] = t[j] PROVE i = j
  <2>1. CASE i = 1 /\ j # 1
    BY <1>1, <1>3, <1>4, <1>5, <2>1
  <2>2. CASE i # 1 /\ j = 1
    BY <1>1, <1>3, <1>4, <1>5, <2>2
  <2>3. CASE i # 1 /\ j # 1
    <3>1. i - 1 = j - 1
      BY <1>2, <1>3, <1>4, <1>5, <2>3
    <3> QED
      BY <1>1, <1>3, <3>1
  <2> QED
    BY <2>1, <2>2, <2>3
<1>6. ASSUME NEW i \in 1 .. Len(t) PROVE nd2[t[i]] = IF i < Len(t) THEN t[i + 1] ELSE Null
  <2>1. CASE i = 1
    <3>1. nd2[t[i]] = h
      BY <1>3, <2>1
    <3>2. Len(s) # 0 => t[2] = s[1]
      <4>1. Len(s) # 0 => 1 \in 1 .. Len(s) /\ 1 + 1 = 2
        BY <1>1
      <4> QED
        BY <1>3, <4>1
    <3> QED
      BY <1>1, <1>2, <1>3, <2>1, <3>1, <3>2
  <2>2. CASE i # 1
    <3>1. i - 1 \in 1 .. Len(s) /\ t[i] = s[i - 1]
      BY <1>3, <1>4, <2>2
    <3>2. nd2[t[i]] = IF i - 1 < Len(s) THEN s[(i - 1) + 1] ELSE Null
      BY <1>2, <3>1
    <3>3. i < Len(t) => i \in 1 .. Len(s) /\ t[i + 1] = s[i]
      BY <1>1, <1>3
    <3> QED
      BY <1>1, <1>3, <3>2, <3>3
  <2> QED
    BY <2>1, <2>2
<1>7. Members(t) = Members(s) \cup {n}
  <2>1. Members(t) = {t[i] : i \in 1 .. Len(s) + 1} /\ Members(s) = {s[i] : i \in 1 .. Len(s)}
    BY <1>1, <1>3 DEF Members
  <2>2. ASSUME NEW m \in Members(s) PROVE m \in Members(t)
    <3>1. PICK i \in 1 .. Len(s) : m = s[i]
      BY <2>1
    <3>2. i + 1 \in 1 .. Len(s) + 1 /\ t[i + 1] = m
      BY <1>1, <1>3, <3>1
    <3> QED
      BY <2>1, <3>2
  <2>3. n \in Members(t)
    BY <1>1, <1>3, <2>1
  <2>4. ASSUME NEW m \in Members(t) PROVE m \in Members(s) \/ m = n
    <3>1. PICK i \in 1 .. Len(s) + 1 : m = t[i]
      BY <2>1
    <3> QED
      BY <1>1, <1>3, <1>4, <3>1
  <2> QED
    BY <2>2, <2>3, <2>4
<1>8. Chain(nd2, n, t)
  BY <1>1, <1>3, <1>5, <1>6 DEF Chain
<1> QED
  BY <1>3, <1>7, <1>8 DEF t

\* nd2 has the link from the last node of s to n.
LinksLast(nd, nd2, s, n) ==
    /\ nd2[n] = Null
    /\ \A i \in 1 .. Len(s) : nd2[s[i]] = IF i = Len(s) THEN n ELSE nd[s[i]]

\* A node behind a chain
LEMMA ChainAppend ==
    ASSUME NEW nd, NEW nd2, NEW h, NEW s, Chain(nd, h, s),
           NEW n \in Blocks, n \notin Members(s), LinksLast(nd, nd2, s, n)
    PROVE  /\ Chain(nd2, IF Len(s) = 0 THEN n ELSE h, Append(s, n))
           /\ Len(Append(s, n)) = Len(s) + 1
           /\ Members(Append(s, n)) = Members(s) \cup {n}
           /\ Append(s, n)[Len(s) + 1] = n
           /\ \A i \in 1 .. Len(s) : Append(s, n)[i] = s[i]
<1>1. /\ s \in Seq(Blocks) /\ Len(s) \in Nat /\ DOMAIN s = 1 .. Len(s)
      /\ \A i \in 1 .. Len(s) : s[i] \in Blocks /\ s[i] \in Members(s)
  BY ChainFacts
<1>2. /\ \A i, j \in 1 .. Len(s) : s[i] = s[j] => i = j
      /\ \A i \in 1 .. Len(s) : nd[s[i]] = IF i < Len(s) THEN s[i + 1] ELSE Null
      /\ h = IF Len(s) = 0 THEN Null ELSE s[1]
  BY DEF Chain
<1> DEFINE t == Append(s, n)
<1>3. /\ t \in Seq(Blocks) /\ Len(t) = Len(s) + 1 /\ DOMAIN t = 1 .. Len(s) + 1
      /\ t[Len(s) + 1] = n /\ \A i \in 1 .. Len(s) : t[i] = s[i]
  BY <1>1, AppendProperties
<1> HIDE DEF t
<1>4. \A i \in 1 .. Len(s) + 1 : i \in 1 .. Len(s) \/ i = Len(s) + 1
  BY <1>1
<1>5. \A i, j \in 1 .. Len(t) : t[i] = t[j] => i = j
  BY <1>1, <1>2, <1>3, <1>4
<1>6. ASSUME NEW i \in 1 .. Len(t) PROVE nd2[t[i]] = IF i < Len(t) THEN t[i + 1] ELSE Null
  <2>1. CASE i = Len(s) + 1
    <3>1. t[i] = n /\ ~(i < Len(t))
      BY <1>1, <1>3, <2>1
    <3>2. nd2[n] = Null
      BY DEF LinksLast
    <3> QED
      BY <3>1, <3>2
  <2>2. CASE i = Len(s)
    <3>1. i \in 1 .. Len(s) /\ t[i] = s[i] /\ t[i + 1] = n /\ i < Len(t)
      BY <1>1, <1>3, <2>2
    <3> QED
      BY <2>2, <3>1 DEF LinksLast
  <2>3. CASE i < Len(s)
    <3>1. i \in 1 .. Len(s) /\ i + 1 \in 1 .. Len(s) /\ i < Len(t) /\ i # Len(s)
      BY <1>1, <1>3, <2>3
    <3>2. t[i] = s[i] /\ t[i + 1] = s[i + 1] /\ nd2[s[i]] = nd[s[i]]
      BY <1>3, <3>1 DEF LinksLast
    <3> QED
      BY <1>2, <2>3, <3>1, <3>2
  <2>4. i = Len(s) + 1 \/ i = Len(s) \/ i < Len(s)
    <3>1. i \in 1 .. Len(s) + 1
      BY <1>3
    <3>2. \A k \in Nat : \A m \in 1 .. k + 1 : m = k + 1 \/ m = k \/ m < k
      OBVIOUS
    <3> QED
      BY <1>1, <3>1, <3>2, Zenon
  <2> QED
    BY <2>1, <2>2, <2>3, <2>4, Zenon
<1>7. Members(t) = Members(s) \cup {n}
  <2>1. Members(t) = {t[i] : i \in 1 .. Len(s) + 1} /\ Members(s) = {s[i] : i \in 1 .. Len(s)}
    BY <1>1, <1>3 DEF Members
  <2>2. ASSUME NEW m \in Members(s) PROVE m \in Members(t)
    <3>1. PICK i \in 1 .. Len(s) : m = s[i]
      BY <2>1
    <3>2. i \in 1 .. Len(s) + 1 /\ t[i] = m
      BY <1>1, <1>3, <3>1
    <3> QED
      BY <2>1, <3>2
  <2>3. n \in Members(t)
    BY <1>1, <1>3, <2>1
  <2>4. ASSUME NEW m \in Members(t) PROVE m \in Members(s) \/ m = n
    <3>1. PICK i \in 1 .. Len(s) + 1 : m = t[i]
      BY <2>1
    <3> QED
      BY <1>3, <1>4, <2>1, <3>1
  <2> QED
    BY <2>2, <2>3, <2>4
<1>8. (IF Len(s) = 0 THEN n ELSE h) = t[1]
  BY <1>1, <1>2, <1>3
<1>9. Chain(nd2, IF Len(s) = 0 THEN n ELSE h, t)
  <2>1. Len(t) # 0
    BY <1>1, <1>3
  <2> QED
    BY <1>3, <1>5, <1>6, <1>8, <2>1 DEF Chain
<1> QED
  BY <1>3, <1>7, <1>9 DEF t

-----------------------------------------------------------------------------
(* What list finds *)

\* < is well-founded on the naturals.
LEMMA Least == ASSUME NEW T, T \subseteq Nat, T # {} PROVE \E m \in T : \A k \in T : m <= k
<1> DEFINE R == {ss \in Nat \X Nat : ss[1] < ss[2]}
<1>1. IsWellFoundedOn(R, Nat)
  <2>1. OpToRel(<, Nat) = R
    BY DEF OpToRel
  <2> QED
    BY <2>1, NatLessThanWellFounded, Zenon
<1> HIDE DEF R
<1>2. PICK m \in T : \A k \in T : ~(<<k, m>> \in R)
  BY <1>1, WFMin, Zenon
<1>3. ASSUME NEW k \in T PROVE m <= k
  <2>1. k \in Nat /\ m \in Nat /\ <<k, m>> \notin R
    BY <1>2
  <2> QED
    BY <2>1 DEF R
<1> QED
  BY <1>3

\* A chain has no more nodes than there are.
LEMMA ChainBound ==
    ASSUME NEW nd, NEW h, NEW s, Chain(nd, h, s)
    PROVE  Len(s) \in 0 .. NumNodes /\ Cardinality(Members(s)) = Len(s) /\ IsFiniteSet(Members(s))
<1>1. /\ s \in Seq(Blocks) /\ Len(s) \in Nat /\ DOMAIN s = 1 .. Len(s)
      /\ \A i, j \in 1 .. Len(s) : s[i] = s[j] => i = j
  BY ChainFacts DEF Chain
<1>2. IsFiniteSet(1 .. Len(s)) /\ Cardinality(1 .. Len(s)) = Len(s)
  BY <1>1, FS_Interval
<1>3. s \in Bijection(1 .. Len(s), Members(s))
  <2>1. Members(s) = {s[i] : i \in 1 .. Len(s)}
    BY <1>1 DEF Members
  <2>2. s = [i \in 1 .. Len(s) |-> s[i]]
    BY <1>1
  <2>3. \A i \in 1 .. Len(s) : s[i] \in Members(s)
    BY <2>1
  <2>4. s \in [1 .. Len(s) -> Members(s)]
    BY <2>2, <2>3
  <2>5. \A n \in Members(s) : \E i \in 1 .. Len(s) : s[i] = n
    BY <2>1
  <2>6. s \in Injection(1 .. Len(s), Members(s))
    BY <1>1, <2>4 DEF Injection, IsInjective
  <2>7. s \in Surjection(1 .. Len(s), Members(s))
    BY <2>4, <2>5 DEF Surjection
  <2> QED
    BY <2>6, <2>7 DEF Bijection
<1>4. IsFiniteSet(Members(s)) /\ Cardinality(Members(s)) = Len(s)
  BY <1>2, <1>3, FS_Bijection DEF ExistsBijection
<1>5. IsFiniteSet(Blocks) /\ Cardinality(Blocks) = NumNodes
  BY NodeAssumption, FS_Interval DEF Blocks
<1>6. Members(s) \subseteq Blocks
  BY ChainFacts
<1>7. Len(s) <= NumNodes
  BY <1>4, <1>5, <1>6, FS_Subset
<1> QED
  BY <1>1, <1>4, <1>7

\* The nodes list follows, as far as there are any
Nth(mem, h) ==
    LET nth[i \in 1 .. NumNodes + 1] ==
            IF i = 1 THEN h ELSE IF nth[i - 1] = Null THEN Null ELSE mem[nth[i - 1]]
    IN  nth

\* They are those of the chain: both solve the same recursion, and the first
\* place where two solutions differ would have a place before it.
LEMMA NthOfChain ==
    ASSUME NEW nd, NEW h, NEW s, Chain(nd, h, s)
    PROVE  \A i \in 1 .. NumNodes + 1 : Nth(nd, h)[i] = IF i <= Len(s) THEN s[i] ELSE Null
<1> DEFINE F(g) == [i \in 1 .. NumNodes + 1 |->
                       IF i = 1 THEN h ELSE IF g[i - 1] = Null THEN Null ELSE nd[g[i - 1]]]
           a == CHOOSE g : g = F(g)
           b == [i \in 1 .. NumNodes + 1 |-> IF i <= Len(s) THEN s[i] ELSE Null]
<1>1. /\ Len(s) \in Nat /\ DOMAIN s = 1 .. Len(s) /\ NumNodes \in Nat
      /\ h = IF Len(s) = 0 THEN Null ELSE s[1]
      /\ \A i \in 1 .. Len(s) : nd[s[i]] = IF i < Len(s) THEN s[i + 1] ELSE Null
      /\ \A i \in 1 .. Len(s) : s[i] # Null
  BY ChainFacts, NodeAssumption DEF Chain
<1>2. ASSUME NEW i \in 1 .. NumNodes + 1 PROVE b[i] = F(b)[i]
  <2>1. CASE i = 1
    BY <1>1, <2>1
  <2>2. CASE i # 1 /\ i - 1 <= Len(s)
    <3>1. /\ i - 1 \in 1 .. Len(s) /\ (i - 1) + 1 = i /\ i - 1 \in 1 .. NumNodes + 1
          /\ (i - 1 < Len(s) <=> i <= Len(s))
      BY <1>1, <2>2
    <3>2. b[i - 1] = s[i - 1] /\ s[i - 1] # Null
      BY <1>1, <3>1
    <3>3. nd[s[i - 1]] = IF i <= Len(s) THEN s[i] ELSE Null
      BY <1>1, <3>1
    <3> QED
      BY <2>2, <3>2, <3>3
  <2>3. CASE i # 1 /\ ~(i - 1 <= Len(s))
    <3>1. i - 1 \in 1 .. NumNodes + 1 /\ ~(i <= Len(s))
      BY <1>1, <2>3
    <3> QED
      BY <2>3, <3>1
  <2> QED
    BY <2>1, <2>2, <2>3
<1>3. b = F(b)
  <2>1. F(b) = [i \in 1 .. NumNodes + 1 |-> F(b)[i]]
    OBVIOUS
  <2>2. b = [i \in 1 .. NumNodes + 1 |-> b[i]]
    OBVIOUS
  <2> HIDE DEF F, b
  <2> QED
    BY <1>2, <2>1, <2>2
<1>4. a = F(a)
  BY <1>3, Zenon
<1>5. Nth(nd, h) = a
  BY Zenon DEF Nth
<1> HIDE DEF a
<1>6. \A i \in 1 .. NumNodes + 1 : a[i] = b[i]
  <2> DEFINE T == {i \in 1 .. NumNodes + 1 : a[i] # b[i]}
  <2> SUFFICES ASSUME T # {} PROVE FALSE
    OBVIOUS
  <2>1. PICK m \in T : \A k \in T : m <= k
    <3>1. T \subseteq Nat
      BY <1>1
    <3> HIDE DEF T
    <3> QED
      BY <3>1, Least
  <2>2. m \in 1 .. NumNodes + 1 /\ a[m] # b[m]
    OBVIOUS
  <2>3. /\ a[m] = IF m = 1 THEN h ELSE IF a[m - 1] = Null THEN Null ELSE nd[a[m - 1]]
        /\ b[m] = IF m = 1 THEN h ELSE IF b[m - 1] = Null THEN Null ELSE nd[b[m - 1]]
    <3> HIDE DEF b
    <3> QED
      BY <1>3, <1>4, <2>2
  <2>4. m # 1
    BY <2>2, <2>3
  <2>5. m - 1 \in 1 .. NumNodes + 1 /\ ~(m <= m - 1)
    BY <1>1, <2>2, <2>4
  <2>6. a[m - 1] = b[m - 1]
    <3> HIDE DEF b
    <3> QED
      BY <2>1, <2>5
  <2> HIDE DEF b
  <2> QED
    BY <2>2, <2>3, <2>6
<1> QED
  BY <1>5, <1>6

\* list finds the nodes of the chain.
LEMMA ListOfChain ==
    ASSUME NEW nd, NEW q, NEW s, Chain(nd, q.head, s)
    PROVE  list(nd, q) = s
<1> DEFINE found == {i \in 1 .. NumNodes + 1 : Nth(nd, q.head)[i] # Null}
           length == IF q.head = Null THEN 0 ELSE Max(found)
<1>1. list(nd, q) = [i \in 1 .. length |-> Nth(nd, q.head)[i]]
  BY Zenon DEF list, Nth
<1>2. /\ s \in Seq(Blocks) /\ Len(s) \in Nat /\ DOMAIN s = 1 .. Len(s)
      /\ \A i \in 1 .. Len(s) : s[i] # Null
      /\ q.head = IF Len(s) = 0 THEN Null ELSE s[1]
  BY ChainFacts DEF Chain
<1>3. Len(s) \in 0 .. NumNodes /\ NumNodes \in Nat
  BY ChainBound, NodeAssumption
<1>4. \A i \in 1 .. NumNodes + 1 : Nth(nd, q.head)[i] = IF i <= Len(s) THEN s[i] ELSE Null
  BY NthOfChain
<1>5. found = 1 .. Len(s)
  BY <1>2, <1>3, <1>4
<1>6. length = Len(s)
  <2>1. CASE Len(s) = 0
    BY <1>2, <2>1
  <2>2. CASE Len(s) # 0
    <3>1. q.head # Null
      BY <1>2, <2>2
    <3>2. Max(1 .. Len(s)) = Len(s)
      <4>1. Len(s) \in 1 .. Len(s) /\ \A i \in 1 .. Len(s) : Len(s) >= i
        BY <1>2, <2>2
      <4>2. ASSUME NEW x \in 1 .. Len(s), \A i \in 1 .. Len(s) : x >= i PROVE x = Len(s)
        <5>1. x >= Len(s)
          BY <4>1, <4>2
        <5>2. \A k \in Nat : \A m \in 1 .. k : m >= k => m = k
          OBVIOUS
        <5> QED
          BY <1>2, <5>1, <5>2, Zenon
      <4> QED
        BY <4>1, <4>2, Zenon DEF Max
    <3> QED
      BY <1>5, <3>1, <3>2
  <2> QED
    BY <2>1, <2>2
<1>7. list(nd, q) = [i \in 1 .. Len(s) |-> Nth(nd, q.head)[i]]
  BY <1>1, <1>6
<1>8. \A i \in 1 .. Len(s) : Nth(nd, q.head)[i] = s[i]
  BY <1>3, <1>4
<1> QED
  BY <1>2, <1>7, <1>8

-----------------------------------------------------------------------------
(* What the operations do to the sequences *)

\* block_alloc returns a node that is in no queue, and takes it off the stack.
LEMMA Allocated ==
    ASSUME FieldTypes, NEW f, NEW s, Holds(f, s), allocated_block # Null
    PROVE  LET n == allocated_block IN
           /\ n \in Blocks /\ \A q \in QueueIds : n \notin Members(f[q])
           /\ block_alloc \in [top : Blocks \cup {Null}, size : Nat,
                               implicit_next : 1 .. NumNodes + 1]
           /\ \A m \in Blocks :
                 m < block_alloc.implicit_next <=> m < ba.implicit_next \/ m = n
           /\ \E s2 : /\ Chain(next, block_alloc.top, s2) /\ block_alloc.size = Len(s2)
                      /\ Members(s2) = Members(s) \ {n}
<1> DEFINE n == allocated_block
<1>1. /\ Chain(next, ba.top, s) /\ ba.size = Len(s) /\ Len(s) \in Nat
      /\ Apart(f, s) /\ NumNodes \in Nat
      /\ ba \in [top : Blocks \cup {Null}, size : Nat, implicit_next : 1 .. NumNodes + 1]
      /\ next \in [Blocks -> Blocks \cup {Null}]
  BY NodeAssumption DEF Holds, StackIs, FieldTypes, Chain
<1>2. \A m \in Blocks : m \in Nat
  BY <1>1 DEF Blocks
<1>3. CASE ba.size # 0
  <2>1. n = ba.top /\ block_alloc = [ba EXCEPT !.top = next[ba.top], !.size = @ - 1]
    BY <1>3 DEF allocated_block, block_alloc
  <2>2. /\ n \in Blocks /\ n \in Members(s)
        /\ Chain(next, next[n], Tail(s)) /\ Len(Tail(s)) = Len(s) - 1
        /\ Members(Tail(s)) = Members(s) \ {n}
    BY <1>1, <1>3, <2>1, ChainPop
  <2>3. /\ block_alloc.top = next[n] /\ block_alloc.size = Len(s) - 1
        /\ block_alloc.implicit_next = ba.implicit_next
    BY <1>1, <2>1
  <2>4. block_alloc \in [top : Blocks \cup {Null}, size : Nat, implicit_next : 1 .. NumNodes + 1]
    <3>1. next[ba.top] \in Blocks \cup {Null} /\ ba.size - 1 \in Nat
      BY <1>1, <1>3, <2>1, <2>2
    <3> QED
      BY <1>1, <2>1, <3>1
  <2>5. n < ba.implicit_next /\ \A q \in QueueIds : n \notin Members(f[q])
    BY <1>1, <2>2 DEF Apart
  <2>6. \A m \in Blocks : m < block_alloc.implicit_next <=> m < ba.implicit_next \/ m = n
    BY <2>3, <2>5
  <2> HIDE DEF n
  <2> QED
    BY <2>2, <2>3, <2>4, <2>5, <2>6 DEF n
<1>4. CASE ba.size = 0
  <2>1. /\ n = ba.implicit_next /\ ba.implicit_next <= NumNodes
        /\ block_alloc = [ba EXCEPT !.implicit_next = @ + 1]
    BY <1>4 DEF allocated_block, block_alloc
  <2>2. n \in Blocks /\ ~(n < ba.implicit_next)
    BY <1>1, <2>1 DEF Blocks
  <2>3. n \notin Members(s) /\ \A q \in QueueIds : n \notin Members(f[q])
    BY <1>1, <2>2 DEF Apart
  <2>4. /\ block_alloc.top = ba.top /\ block_alloc.size = ba.size
        /\ block_alloc.implicit_next = ba.implicit_next + 1
    BY <1>1, <2>1
  <2>5. block_alloc \in [top : Blocks \cup {Null}, size : Nat, implicit_next : 1 .. NumNodes + 1]
    BY <1>1, <2>1
  <2>6. \A m \in Blocks : m < block_alloc.implicit_next <=> m < ba.implicit_next \/ m = n
    BY <1>1, <1>2, <2>1, <2>4
  <2>7. Members(s) = Members(s) \ {n}
    BY <2>3
  <2> HIDE DEF n
  <2> QED
    BY <1>1, <2>2, <2>3, <2>4, <2>5, <2>6, <2>7 DEF n
<1> QED
  BY <1>3, <1>4, Zenon DEF n

\* A queue gets the node that was allocated.
LEMMA Enqueued ==
    ASSUME FieldTypes, NEW f, NEW s, Holds(f, s), allocated_block # Null,
           ba' = block_alloc, NEW id \in QueueIds, NEW t,
           Chain(next', queues'[id].head, t), queues'[id].size = Len(t),
           Len(t) # 0 => queues'[id].tail = t[Len(t)],
           Members(t) = Members(f[id]) \cup {allocated_block},
           \A m \in Blocks \ Members(t) : next'[m] = next[m],
           \A q \in QueueIds \ {id} : queues'[q] = queues[q]
    PROVE  \E s2 : Holds([f EXCEPT ![id] = t], s2)'
<1> DEFINE n == allocated_block
           g == [f EXCEPT ![id] = t]
<1>1. /\ n \in Blocks /\ \A q \in QueueIds : n \notin Members(f[q])
      /\ \A m \in Blocks : m < ba'.implicit_next <=> m < ba.implicit_next \/ m = n
  BY Allocated
<1>2. PICK s2 : /\ Chain(next, ba'.top, s2) /\ ba'.size = Len(s2)
                /\ Members(s2) = Members(s) \ {n}
  BY Allocated
<1> HIDE DEF n
<1>3. /\ f \in [QueueIds -> Seq(Blocks)] /\ t \in Seq(Blocks)
      /\ \A q \in QueueIds : QueueIs(q, f)
      /\ Apart(f, s) /\ Chain(next, ba.top, s)
  BY DEF Holds, StackIs, Chain
<1>4. /\ g \in [QueueIds -> Seq(Blocks)] /\ g[id] = t
      /\ \A q \in QueueIds \ {id} : g[q] = f[q]
  BY <1>3
<1> HIDE DEF g
<1>5. /\ \A q \in QueueIds : \A m \in Members(f[q]) : m \in Blocks
      /\ \A m \in Members(s) : m \in Blocks
  BY <1>3, ChainFacts DEF QueueIs
<1>6. Members(t) = Members(f[id]) \cup {n}
  BY DEF n
<1>7. \A q \in QueueIds \ {id} : QueueIs(q, g)'
  <2> TAKE q \in QueueIds \ {id}
  <2>1. /\ Chain(next, queues[q].head, f[q]) /\ queues[q].size = Len(f[q])
        /\ Len(f[q]) # 0 => queues[q].tail = f[q][Len(f[q])]
    BY <1>3 DEF QueueIs
  <2>2. \A m \in Members(f[q]) : next'[m] = next[m]
    BY <1>1, <1>3, <1>5, <1>6 DEF Apart
  <2>3. Chain(next', queues[q].head, f[q])
    BY <2>1, <2>2, ChainSame
  <2> QED
    BY <1>4, <2>1, <2>3 DEF QueueIs
<1>8. QueueIs(id, g)'
  BY <1>4 DEF QueueIs
<1>9. StackIs(s2)'
  <2>1. \A m \in Members(s2) : next'[m] = next[m]
    BY <1>2, <1>3, <1>5, <1>6 DEF Apart
  <2>2. Chain(next', ba'.top, s2)
    BY <1>2, <2>1, ChainSame
  <2> QED
    BY <1>2, <2>2 DEF StackIs
<1>10. Apart(g, s2)'
  <2>1. ASSUME NEW q \in QueueIds, NEW r \in QueueIds, q # r
        PROVE  Members(g[q]) \cap Members(g[r]) = {}
    <3>1. CASE q = id
      BY <1>1, <1>3, <1>4, <1>6, <2>1, <3>1 DEF Apart
    <3>2. CASE r = id
      BY <1>1, <1>3, <1>4, <1>6, <2>1, <3>2 DEF Apart
    <3>3. CASE q # id /\ r # id
      BY <1>3, <1>4, <2>1, <3>3 DEF Apart
    <3> QED
      BY <3>1, <3>2, <3>3
  <2>2. ASSUME NEW q \in QueueIds PROVE Members(g[q]) \cap Members(s2) = {}
    <3>1. Members(f[q]) \cap Members(s) = {}
      BY <1>3 DEF Apart
    <3>2. Members(g[q]) \subseteq Members(f[q]) \cup {n}
      BY <1>4, <1>6
    <3> QED
      BY <1>2, <3>1, <3>2
  <2>3. ASSUME NEW m \in Blocks
        PROVE  m < ba'.implicit_next <=>
                   m \in Members(s2) \/ \E q \in QueueIds : m \in Members(g[q])
    <3>1. m < ba'.implicit_next <=> m < ba.implicit_next \/ m = n
      BY <1>1
    <3>2. m < ba.implicit_next <=> m \in Members(s) \/ \E q \in QueueIds : m \in Members(f[q])
      BY <1>3 DEF Apart
    <3>3. m \in Members(s2) <=> m \in Members(s) /\ m # n
      BY <1>2
    <3>4. (\E q \in QueueIds : m \in Members(g[q]))
              <=> (\E q \in QueueIds : m \in Members(f[q])) \/ m = n
      <4>1. \A q \in QueueIds : m \in Members(g[q]) <=> m \in Members(f[q]) \/ (q = id /\ m = n)
        BY <1>4, <1>6
      <4> QED
        BY <4>1
    <3> QED
      BY <3>1, <3>2, <3>3, <3>4
  <2> QED
    BY <2>1, <2>2, <2>3 DEF Apart
<1>11. Holds(g, s2)'
  BY <1>4, <1>7, <1>8, <1>9, <1>10 DEF Holds
<1> QED
  BY <1>11 DEF g

\* The node is linked behind the others, which queue_enqueue does, and
\* queue_enqueue_prio if it finds no other.
LEMMA EnqueuedLast ==
    ASSUME FieldTypes, NEW f, NEW s, Holds(f, s), allocated_block # Null,
           NEW n, n = allocated_block, ba' = block_alloc, NEW id \in QueueIds,
           next' = linked_last(next, queues[id], n),
           queues' = [queues EXCEPT ![id] = queue_enqueue(queues[id], n)]
    PROVE  /\ \E s2 : Holds([f EXCEPT ![id] = Append(f[id], n)], s2)'
           /\ next' \in [Blocks -> Blocks \cup {Null}]
           /\ queues' \in [QueueIds -> [head : Blocks \cup {Null}, tail : Blocks \cup {Null},
                                        size : Nat]]
<1> DEFINE h == f[id]
           q == queues[id]
<1>1. n \in Blocks /\ n \notin Members(h)
  BY Allocated
<1>2. /\ Chain(next, q.head, h) /\ q.size = Len(h)
      /\ Len(h) # 0 => q.tail = h[Len(h)]
  BY DEF Holds, QueueIs
<1>3. /\ next \in [Blocks -> Blocks \cup {Null}]
      /\ queues \in [QueueIds -> [head : Blocks \cup {Null}, tail : Blocks \cup {Null},
                                  size : Nat]]
      /\ q \in [head : Blocks \cup {Null}, tail : Blocks \cup {Null}, size : Nat]
  BY DEF FieldTypes
<1>4. /\ Len(h) \in Nat /\ DOMAIN h = 1 .. Len(h)
      /\ \A i \in 1 .. Len(h) : h[i] \in Blocks /\ h[i] \in Members(h)
      /\ \A i, j \in 1 .. Len(h) : h[i] = h[j] => i = j
  BY <1>2, ChainFacts DEF Chain
<1>5. /\ next' = IF q.size = 0 THEN [next EXCEPT ![n] = Null]
                 ELSE [next EXCEPT ![n] = Null, ![q.tail] = n]
      /\ queues'[id] = [head |-> IF q.size = 0 THEN n ELSE q.head,
                        tail |-> n, size |-> q.size + 1]
      /\ \A r \in QueueIds \ {id} : queues'[r] = queues[r]
  BY <1>3 DEF linked_last, queue_enqueue
<1> HIDE DEF h, q
<1>6. Len(h) # 0 => q.tail \in Members(h) /\ q.tail \in Blocks /\ Len(h) \in 1 .. Len(h)
  BY <1>2, <1>4
<1>7. \A m \in Blocks : next'[m] = IF Len(h) # 0 /\ m = q.tail THEN n
                                   ELSE IF m = n THEN Null ELSE next[m]
  BY <1>1, <1>2, <1>3, <1>5
<1>8. LinksLast(next, next', h, n)
  <2>1. next'[n] = Null
    BY <1>1, <1>6, <1>7
  <2>2. ASSUME NEW i \in 1 .. Len(h) PROVE next'[h[i]] = IF i = Len(h) THEN n ELSE next[h[i]]
    <3>1. h[i] \in Blocks /\ h[i] # n /\ Len(h) # 0
      BY <1>1, <1>4
    <3>2. h[i] = q.tail <=> i = Len(h)
      BY <1>2, <1>4, <1>6, <3>1
    <3>3. next'[h[i]] = IF h[i] = q.tail THEN n ELSE next[h[i]]
      BY <1>7, <3>1
    <3> QED
      BY <3>2, <3>3, Zenon
  <2> QED
    BY <2>1, <2>2, Zenon DEF LinksLast
<1> DEFINE t == Append(h, n)
<1>9. /\ Chain(next', IF Len(h) = 0 THEN n ELSE q.head, t) /\ Len(t) = Len(h) + 1
      /\ Members(t) = Members(h) \cup {n} /\ t[Len(h) + 1] = n
  BY <1>1, <1>2, <1>8, ChainAppend
<1> HIDE DEF t
<1>10. /\ queues'[id].head = (IF Len(h) = 0 THEN n ELSE q.head)
       /\ queues'[id].tail = n /\ queues'[id].size = Len(h) + 1
  BY <1>2, <1>5
<1>11. ASSUME NEW m \in Blocks \ Members(t) PROVE next'[m] = next[m]
  BY <1>6, <1>7, <1>9
<1>12. next' \in [Blocks -> Blocks \cup {Null}]
  BY <1>1, <1>3, <1>5
<1>13. queues' \in [QueueIds -> [head : Blocks \cup {Null}, tail : Blocks \cup {Null},
                                 size : Nat]]
  <2>1. queue_enqueue(q, n) \in [head : Blocks \cup {Null}, tail : Blocks \cup {Null}, size : Nat]
    BY <1>1, <1>3 DEF queue_enqueue
  <2> QED
    BY <1>3, <2>1 DEF q
<1>14. \E s2 : Holds([f EXCEPT ![id] = t], s2)'
  <2>1. Chain(next', queues'[id].head, t)
    BY <1>9, <1>10
  <2>2. queues'[id].size = Len(t)
    BY <1>9, <1>10
  <2>3. queues'[id].tail = t[Len(t)]
    BY <1>9, <1>10
  <2>4. Members(t) = Members(f[id]) \cup {allocated_block}
    BY <1>9 DEF h
  <2> QED
    BY <1>5, <1>11, <2>1, <2>2, <2>3, <2>4, Enqueued
<1> QED
  BY <1>12, <1>13, <1>14 DEF t, h

\* The node is linked before the others: queue_enqueue_prio when the first node's
\* item is not smaller.
LEMMA EnqueuedFirst ==
    ASSUME FieldTypes, NEW f, NEW s, Holds(f, s), allocated_block # Null,
           NEW n, n = allocated_block, ba' = block_alloc, NEW id \in QueueIds, queues[id].size # 0,
           next' = [next EXCEPT ![n] = queues[id].head],
           queues' = [queues EXCEPT ![id] = [head |-> n, tail |-> queues[id].tail,
                                   size |-> queues[id].size + 1]]
    PROVE  /\ \E s2 : Holds([f EXCEPT ![id] = <<n>> \o f[id]], s2)'
           /\ next' \in [Blocks -> Blocks \cup {Null}]
           /\ queues' \in [QueueIds -> [head : Blocks \cup {Null}, tail : Blocks \cup {Null},
                                        size : Nat]]
<1> DEFINE h == f[id]
           q == queues[id]
<1>1. n \in Blocks /\ n \notin Members(h)
  BY Allocated
<1>2. /\ Chain(next, q.head, h) /\ q.size = Len(h)
      /\ Len(h) # 0 => q.tail = h[Len(h)]
  BY DEF Holds, QueueIs
<1>3. /\ next \in [Blocks -> Blocks \cup {Null}]
      /\ queues \in [QueueIds -> [head : Blocks \cup {Null}, tail : Blocks \cup {Null},
                                  size : Nat]]
      /\ q \in [head : Blocks \cup {Null}, tail : Blocks \cup {Null}, size : Nat]
  BY DEF FieldTypes
<1>4. /\ next' = [next EXCEPT ![n] = q.head]
      /\ queues'[id] = [head |-> n, tail |-> q.tail, size |-> q.size + 1]
      /\ \A r \in QueueIds \ {id} : queues'[r] = queues[r]
  BY <1>3
<1>5. Len(h) \in Nat \ {0} /\ \A m \in Members(h) : m \in Blocks
  BY <1>2, ChainFacts
<1>6. queues' \in [QueueIds -> [head : Blocks \cup {Null}, tail : Blocks \cup {Null},
                                size : Nat]]
  <2>1. [head |-> n, tail |-> q.tail, size |-> q.size + 1]
            \in [head : Blocks \cup {Null}, tail : Blocks \cup {Null}, size : Nat]
    BY <1>1, <1>3
  <2> QED
    BY <1>3, <2>1
<1> HIDE DEF h, q
<1>7. next'[n] = q.head /\ \A m \in Blocks : m # n => next'[m] = next[m]
  BY <1>1, <1>3, <1>4
<1> DEFINE t == <<n>> \o h
<1>8. /\ Chain(next', n, t) /\ Len(t) = Len(h) + 1
      /\ Members(t) = Members(h) \cup {n} /\ \A i \in 1 .. Len(h) : t[i + 1] = h[i]
  <2>1. \A m \in Members(h) : next'[m] = next[m]
    BY <1>1, <1>5, <1>7
  <2>2. Chain(next, q.head, h) /\ next'[n] = q.head
    BY <1>2, <1>7
  <2> HIDE DEF t
  <2>3. /\ Chain(next', n, <<n>> \o h) /\ Len(<<n>> \o h) = Len(h) + 1
        /\ Members(<<n>> \o h) = Members(h) \cup {n}
        /\ \A i \in 1 .. Len(h) : (<<n>> \o h)[i + 1] = h[i]
    <3>1. PICK nd2 : nd2 = next'
      OBVIOUS
    <3>2. /\ Chain(nd2, n, <<n>> \o h) /\ Len(<<n>> \o h) = Len(h) + 1
          /\ Members(<<n>> \o h) = Members(h) \cup {n}
          /\ \A i \in 1 .. Len(h) : (<<n>> \o h)[i + 1] = h[i]
      BY ONLY <1>1, <2>1, <2>2, <3>1, ChainPush
    <3> QED
      BY <3>1, <3>2, Zenon
  <2> QED
    BY <2>3, Zenon DEF t
<1> HIDE DEF t
<1>9. queues'[id].head = n /\ queues'[id].tail = q.tail /\ queues'[id].size = Len(h) + 1
  BY <1>2, <1>4
<1>10. t[Len(t)] = q.tail
  <2>1. Len(h) \in 1 .. Len(h)
    BY <1>5
  <2>2. t[Len(h) + 1] = h[Len(h)]
    BY <1>8, <2>1
  <2> QED
    BY <1>2, <1>5, <1>8, <2>2
<1>11. next' \in [Blocks -> Blocks \cup {Null}]
  BY <1>1, <1>3, <1>4
<1>12. \E s2 : Holds([f EXCEPT ![id] = t], s2)'
  <2>1. Members(t) = Members(f[id]) \cup {allocated_block}
    BY <1>8 DEF h
  <2>2. \A m \in Blocks \ Members(t) : next'[m] = next[m]
    BY <1>7, <1>8
  <2> QED
    BY <1>4, <1>8, <1>9, <1>10, <2>1, <2>2, Enqueued
<1> QED
  BY <1>6, <1>11, <1>12 DEF t, h

\* block_free's record, and queue_dequeue's
LEMMA Longer ==
    ASSUME NEW X, NEW Y, NEW r \in [top : X, size : Nat, implicit_next : Y], NEW x \in X
    PROVE  [r EXCEPT !.top = x, !.size = @ + 1] \in [top : X, size : Nat, implicit_next : Y]
<1> DEFINE a == [r EXCEPT !.top = x, !.size = @ + 1]
<1>1. a = [k \in {"top", "size", "implicit_next"} |->
              IF k = "top" THEN x ELSE IF k = "size" THEN r.size + 1 ELSE r.implicit_next]
  OBVIOUS
<1>2. a = [top |-> x, size |-> r.size + 1, implicit_next |-> r.implicit_next]
  BY <1>1
<1>3. r.size + 1 \in Nat /\ r.implicit_next \in Y
  OBVIOUS
<1> HIDE DEF a
<1>4. a \in [top : X, size : Nat, implicit_next : Y]
  BY <1>2, <1>3
<1> QED
  BY <1>4 DEF a

LEMMA Shorter ==
    ASSUME NEW X, NEW r \in [head : X, tail : X, size : Nat], NEW x
    PROVE  [r EXCEPT !.head = x, !.size = @ - 1]
               = [head |-> x, tail |-> r.tail, size |-> r.size - 1]
<1> DEFINE a == [r EXCEPT !.head = x, !.size = @ - 1]
<1>1. a = [k \in {"head", "tail", "size"} |->
              IF k = "head" THEN x ELSE IF k = "size" THEN r.size - 1 ELSE r.tail]
  OBVIOUS
<1> QED
  BY <1>1

\* The first node of a queue goes back on the free stack.
LEMMA Dequeued ==
    ASSUME FieldTypes, NEW f, NEW s, Holds(f, s), NEW id \in QueueIds, DequeueAndFree(id)
    PROVE  /\ \E s2 : Holds([f EXCEPT ![id] = Tail(f[id])], s2)'
           /\ FieldTypes'
           /\ Len(f[id]) # 0
<1> DEFINE h == f[id]
           q == queues[id]
           c == queues[id].head
<1>1. /\ Chain(next, c, h) /\ q.size = Len(h) /\ Len(h) # 0
      /\ q.tail = h[Len(h)]
  BY DEF Holds, QueueIs, DequeueAndFree
<1>2. /\ next \in [Blocks -> Blocks \cup {Null}]
      /\ queues \in [QueueIds -> [head : Blocks \cup {Null}, tail : Blocks \cup {Null},
                                  size : Nat]]
      /\ q \in [head : Blocks \cup {Null}, tail : Blocks \cup {Null}, size : Nat]
      /\ ba \in [top : Blocks \cup {Null}, size : Nat, implicit_next : 1 .. NumNodes + 1]
  BY DEF FieldTypes
<1>3. /\ next' = [next EXCEPT ![c] = IF ba.size = 0 THEN Null ELSE ba.top]
      /\ ba' = [ba EXCEPT !.top = c, !.size = @ + 1]
      /\ queues' = [queues EXCEPT ![id] = [q EXCEPT !.head = next[c], !.size = @ - 1]]
      /\ UNCHANGED <<data, failed>>
  BY DEF DequeueAndFree, block_free, free_link, queue_dequeue
<1>4. /\ c \in Blocks /\ c \in Members(h) /\ Chain(next, next[c], Tail(h))
      /\ Len(Tail(h)) = Len(h) - 1 /\ Members(Tail(h)) = Members(h) \ {c}
      /\ \A i \in 1 .. Len(h) - 1 : Tail(h)[i] = h[i + 1]
  BY <1>1, ChainPop
<1>5. /\ Chain(next, ba.top, s) /\ ba.size = Len(s) /\ Apart(f, s)
      /\ f \in [QueueIds -> Seq(Blocks)] /\ \A r \in QueueIds : QueueIs(r, f)
      /\ Len(s) \in Nat /\ Len(h) \in Nat \ {0}
  <2>1. Chain(next, ba.top, s) /\ ba.size = Len(s) /\ Len(s) \in Nat
    BY ChainFacts DEF Holds, StackIs
  <2>2. Len(h) \in Nat \ {0}
    BY <1>1, ChainFacts
  <2> QED
    BY <2>1, <2>2 DEF Holds
<1>6. next[c] \in Blocks \cup {Null}
  BY <1>2, <1>4
<1>7. /\ queues'[id] = [head |-> next[c], tail |-> q.tail, size |-> q.size - 1]
      /\ \A r \in QueueIds \ {id} : queues'[r] = queues[r]
      /\ queues' \in [QueueIds -> [head : Blocks \cup {Null}, tail : Blocks \cup {Null},
                                   size : Nat]]
  <2>1. [q EXCEPT !.head = next[c], !.size = @ - 1]
            = [head |-> next[c], tail |-> q.tail, size |-> q.size - 1]
    <3> HIDE DEF c, q
    <3> QED
      BY <1>2, Shorter
  <2>2. q.size - 1 \in Nat
    BY <1>1, <1>5
  <2>3. [head |-> next[c], tail |-> q.tail, size |-> q.size - 1]
            \in [head : Blocks \cup {Null}, tail : Blocks \cup {Null}, size : Nat]
    BY <1>2, <1>6, <2>2
  <2> HIDE DEF c, q
  <2> QED
    BY <1>2, <1>3, <2>1, <2>3
<1>8. FieldTypes'
  <2>1. next' \in [Blocks -> Blocks \cup {Null}]
    BY <1>2, <1>3
  <2>2. ba' \in [top : Blocks \cup {Null}, size : Nat, implicit_next : 1 .. NumNodes + 1]
    <3> HIDE DEF c
    <3> QED
      <4>1. c \in Blocks \cup {Null}
        BY <1>4
      <4>2. [ba EXCEPT !.top = c, !.size = @ + 1]
                \in [top : Blocks \cup {Null}, size : Nat, implicit_next : 1 .. NumNodes + 1]
        <5> DEFINE X == Blocks \cup {Null}
                   Y == 1 .. NumNodes + 1
        <5>1. ba \in [top : X, size : Nat, implicit_next : Y] /\ c \in X
          BY <1>2, <4>1
        <5> HIDE DEF X, Y
        <5>2. [ba EXCEPT !.top = c, !.size = @ + 1] \in [top : X, size : Nat, implicit_next : Y]
          BY <5>1, Longer
        <5> QED
          BY <5>2 DEF X, Y
      <4> QED
        BY <1>3, <4>2, Zenon
  <2> QED
    BY <1>3, <1>7, <2>1, <2>2 DEF FieldTypes
<1>9. PICK n : n = c
  OBVIOUS
<1> DEFINE t == Tail(h)
           g == [f EXCEPT ![id] = t]
           s2 == <<n>> \o s
<1>10. /\ g \in [QueueIds -> Seq(Blocks)] /\ g[id] = t
       /\ \A r \in QueueIds \ {id} : g[r] = f[r]
  BY <1>4, <1>5 DEF Chain
<1>11. /\ next'[n] = (IF ba.size = 0 THEN Null ELSE ba.top)
       /\ \A m \in Blocks : m # n => next'[m] = next[m]
       /\ ba'.top = n /\ ba'.size = Len(s) + 1 /\ ba'.implicit_next = ba.implicit_next
  BY <1>2, <1>3, <1>4, <1>5, <1>9
<1>12. \A r \in QueueIds : \A m \in Members(f[r]) : m \in Blocks
  BY <1>5, ChainFacts DEF QueueIs
<1>13. n \in Blocks /\ n \in Members(h) /\ n \notin Members(s)
  BY <1>4, <1>5, <1>9 DEF Apart
<1>14. /\ Chain(next', n, s2) /\ Len(s2) = Len(s) + 1 /\ Members(s2) = Members(s) \cup {n}
  <2>1. ba.top = (IF ba.size = 0 THEN Null ELSE ba.top)
    BY <1>5 DEF Chain
  <2>2. next'[n] = ba.top
    BY <1>11, <2>1, Zenon
  <2>3. \A m \in Members(s) : next'[m] = next[m]
    BY <1>5, <1>11, <1>13, ChainFacts
  <2> QED
    BY <1>5, <1>13, <2>2, <2>3, ChainPush
<1>15. Members(t) = Members(h) \ {n} /\ Chain(next, next[c], t) /\ Len(t) = Len(h) - 1
  BY <1>4, <1>9
<1>16. Len(t) # 0 => t[Len(t)] = q.tail
  <2>1. Len(t) # 0 => Len(h) - 1 \in 1 .. Len(h) - 1 /\ (Len(h) - 1) + 1 = Len(h)
    BY <1>5, <1>15
  <2> QED
    BY <1>1, <1>4, <1>15, <2>1
<1> HIDE DEF t, g, s2, h, q, c
<1>17. QueueIs(id, g)'
  <2>1. \A m \in Members(t) : next'[m] = next[m]
    BY <1>11, <1>12, <1>15 DEF h
  <2>2. Chain(next', next[c], t)
    BY <1>15, <2>1, ChainSame
  <2>3. queues'[id].head = next[c] /\ queues'[id].tail = q.tail /\ queues'[id].size = Len(t)
    BY <1>1, <1>7, <1>15
  <2> QED
    BY <1>10, <1>16, <2>2, <2>3 DEF QueueIs
<1>18. \A r \in QueueIds \ {id} : QueueIs(r, g)'
  <2> TAKE r \in QueueIds \ {id}
  <2>1. /\ Chain(next, queues[r].head, f[r]) /\ queues[r].size = Len(f[r])
        /\ Len(f[r]) # 0 => queues[r].tail = f[r][Len(f[r])]
    BY <1>5 DEF QueueIs
  <2>2. \A m \in Members(f[r]) : next'[m] = next[m]
    BY <1>5, <1>11, <1>12, <1>13 DEF Apart, h
  <2>3. Chain(next', queues[r].head, f[r])
    BY <2>1, <2>2, ChainSame
  <2> QED
    BY <1>7, <1>10, <2>1, <2>3 DEF QueueIs
<1>19. StackIs(s2)'
  BY <1>11, <1>14 DEF StackIs
<1>20. Apart(g, s2)'
  <2>1. \A r \in QueueIds : Members(g[r]) = Members(f[r]) \ {n}
    <3>1. Members(g[id]) = Members(f[id]) \ {n}
      BY <1>10, <1>15 DEF h
    <3>2. ASSUME NEW r \in QueueIds \ {id} PROVE Members(g[r]) = Members(f[r]) \ {n}
      BY <1>5, <1>10, <1>13, <3>2 DEF Apart, h
    <3> QED
      BY <3>1, <3>2
  <2>2. \A m \in Blocks :
           m < ba.implicit_next <=> m \in Members(s) \/ \E r \in QueueIds : m \in Members(f[r])
    BY <1>5 DEF Apart
  <2>3. ASSUME NEW m \in Blocks
        PROVE  m < ba'.implicit_next <=>
                   m \in Members(s2) \/ \E r \in QueueIds : m \in Members(g[r])
    BY <1>11, <1>13, <1>14, <2>1, <2>2 DEF h
  <2>4. \A r \in QueueIds : Members(g[r]) \cap Members(s2) = {}
    BY <1>5, <1>14, <2>1 DEF Apart
  <2>5. \A p, r \in QueueIds : p # r => Members(g[p]) \cap Members(g[r]) = {}
    BY <1>5, <2>1 DEF Apart
  <2> QED
    BY <2>3, <2>4, <2>5 DEF Apart
<1>21. Holds(g, s2)'
  BY <1>10, <1>17, <1>18, <1>19, <1>20 DEF Holds
<1> QED
  BY <1>1, <1>8, <1>21 DEF g, t, h

-----------------------------------------------------------------------------
(* The invariant *)

LEMMA InitIInv == QueuesInit => IInv
<1> SUFFICES ASSUME QueuesInit PROVE IInv
  OBVIOUS
<1> DEFINE f == [q \in QueueIds |-> <<>>]
<1>1. NumNodes \in Nat /\ \A n \in Blocks : n \in Nat \ {0}
  BY NodeAssumption DEF Blocks
<1>2. FieldTypes
  <2>1. Null \in Blocks \cup {Null} /\ 1 \in 1 .. NumNodes + 1 /\ 0 \in Nat
    BY <1>1
  <2> QED
    BY <2>1 DEF QueuesInit, FieldTypes
<1>3. \A nd : Chain(nd, Null, <<>>)
  BY DEF Chain
<1>4. Members(<<>>) = {}
  BY DEF Members
<1>5. ba.top = Null /\ ba.size = 0 /\ ba.implicit_next = 1
  BY DEF QueuesInit
<1>6. \A q \in QueueIds : queues[q].head = Null /\ queues[q].size = 0
  BY DEF QueuesInit
<1>7. \A q \in QueueIds : f[q] = <<>>
  OBVIOUS
<1>8. f \in [QueueIds -> Seq(Blocks)]
  OBVIOUS
<1> HIDE DEF f
<1>9. \A q \in QueueIds : QueueIs(q, f)
  BY <1>3, <1>6, <1>7 DEF QueueIs
<1>10. StackIs(<<>>)
  BY <1>3, <1>5 DEF StackIs
<1>11. Apart(f, <<>>)
  BY <1>1, <1>4, <1>5, <1>7 DEF Apart
<1> QED
  BY <1>2, <1>8, <1>9, <1>10, <1>11 DEF IInv, Holds

\* schedule puts a READY process behind the others.
LEMMA QueuedReady ==
    ASSUME FieldTypes, NEW f, NEW s, Holds(f, s), NEW n, n = allocated_block,
           NEW id \in ReadyQueues, NEW x \in Items, ScheduleReady(id, x)
    PROVE  /\ FieldTypes'
           /\ \E s2 : Holds([f EXCEPT ![id] = Append(f[id], n)], s2)'
<1>1. id \in QueueIds
  BY DEF QueueIds
<1>2. /\ allocated_block # Null /\ ba' = block_alloc
      /\ next' = linked_last(next, queues[id], n)
      /\ queues' = [queues EXCEPT ![id] = queue_enqueue(queues[id], n)]
      /\ data' = [data EXCEPT ![n] = x] /\ UNCHANGED failed
  BY Zenon DEF ScheduleReady
<1>3. /\ \E s2 : Holds([f EXCEPT ![id] = Append(f[id], n)], s2)'
      /\ next' \in [Blocks -> Blocks \cup {Null}]
      /\ queues' \in [QueueIds -> [head : Blocks \cup {Null}, tail : Blocks \cup {Null},
                                   size : Nat]]
  BY <1>1, <1>2, EnqueuedLast
<1>4. ba' \in [top : Blocks \cup {Null}, size : Nat, implicit_next : 1 .. NumNodes + 1]
  BY <1>2, Allocated
<1> QED
  BY <1>2, <1>3, <1>4 DEF FieldTypes

\* What queue_enqueue_prio finds in a queue of one
LEMMA OtherOfOne ==
    ASSUME NEW q, NEW h, Chain(next, q.head, h), Len(h) = 1, NEW x
    PROVE  other(next, q, x) = IF x > data[h[1]] THEN Null ELSE h[1]
<1>1. list(next, q) = h /\ DOMAIN h = {1}
  <2>1. DOMAIN h = 1 .. Len(h)
    BY ChainFacts
  <2> QED
    BY <2>1, ListOfChain
<1> DEFINE found == {i \in DOMAIN h : ~(x > data[h[i]])}
<1>2. other(next, q, x) = IF found = {} THEN Null ELSE h[Min(found)]
  BY <1>1 DEF other
<1>3. CASE x > data[h[1]]
  <2>1. found = {}
    BY <1>1, <1>3
  <2> QED
    BY <1>2, <1>3, <2>1
<1>4. CASE ~(x > data[h[1]])
  <2>1. found = {1}
    BY <1>1, <1>4
  <2>2. Min({1}) = 1
    <3>1. \A k \in {1} : (\A y \in {1} : k <= y) <=> k = 1
      OBVIOUS
    <3> QED
      BY <3>1 DEF Min
  <2> QED
    BY <1>2, <1>4, <2>1, <2>2
<1> QED
  BY <1>3, <1>4

\* schedule puts a SLEEPING process where its key belongs.
LEMMA QueuedSleeping ==
    ASSUME TwoSleepers, FieldTypes, NEW f, NEW s, Holds(f, s), NEW n, n = allocated_block,
           NEW x \in Items, ScheduleSleeping(x)
    PROVE  LET h == f[SleepQueue] IN
           /\ FieldTypes'
           /\ \/ /\ Len(h) = 0 \/ (Len(h) = 1 /\ data[h[1]] <= x)
                 /\ \E s2 : Holds([f EXCEPT ![SleepQueue] = Append(h, n)], s2)'
              \/ /\ Len(h) = 1 /\ x <= data[h[1]]
                 /\ \E s2 : Holds([f EXCEPT ![SleepQueue] = <<n>> \o h], s2)'
<1> DEFINE h == f[SleepQueue]
           q == queues[SleepQueue]
           o == other(next, q, x)
<1>1. SleepQueue \in QueueIds
  BY DEF QueueIds
<1>2. /\ allocated_block # Null /\ ba' = block_alloc /\ q.size < MaxSorted
      /\ next' = IF q.size = 0 THEN linked_last(next, q, n) ELSE prio_next(q, n, o)
      /\ queues' = IF q.size = 0 THEN [queues EXCEPT ![SleepQueue] = queue_enqueue(q, n)]
                   ELSE [queues EXCEPT ![SleepQueue] = prio_queue(q, n, o)]
      /\ data' = [data EXCEPT ![n] = x] /\ UNCHANGED failed
  BY Zenon DEF ScheduleSleeping
<1>3. Chain(next, q.head, h) /\ q.size = Len(h) /\ Len(h) \in Nat
      /\ (Len(h) # 0 => q.tail = h[Len(h)])
  BY <1>1, ChainFacts DEF Holds, QueueIs
<1>4. Len(h) = 0 \/ Len(h) = 1
  <2>1. Len(h) < MaxSorted /\ MaxSorted \in Nat /\ MaxSorted <= 2 /\ Len(h) \in Nat
    BY <1>2, <1>3, NodeAssumption DEF TwoSleepers
  <2>2. \A k, m \in Nat : k < m /\ m <= 2 => k = 0 \/ k = 1
    OBVIOUS
  <2> QED
    BY <2>1, <2>2, Zenon
<1>5. ba' \in [top : Blocks \cup {Null}, size : Nat, implicit_next : 1 .. NumNodes + 1]
  BY <1>2, Allocated
<1>6. /\ data' \in [Blocks -> Items \cup {0}] /\ failed' \in BOOLEAN
      /\ Len(h) = 1 => data[h[1]] \in Nat /\ x \in Nat /\ h[1] \in Blocks
                       /\ h[1] # Null /\ h[1] = q.head /\ q.tail = h[1]
  <2>1. data' \in [Blocks -> Items \cup {0}] /\ failed' \in BOOLEAN
    BY <1>2 DEF FieldTypes
  <2>2. ASSUME Len(h) = 1
        PROVE  h[1] \in Blocks /\ h[1] # Null /\ h[1] = q.head /\ q.tail = h[1]
    <3>1. 1 \in 1 .. Len(h)
      BY <2>2
    <3> QED
      BY <1>3, <2>2, <3>1, ChainFacts DEF Chain
  <2>3. x \in Nat /\ \A m \in Blocks : data[m] \in Nat
    <3>1. \A m \in Blocks : data[m] \in Items \cup {0}
      BY Zenon DEF FieldTypes
    <3>2. \A y \in Items \cup {0} : y \in Nat
      BY NodeAssumption
    <3> QED
      BY <3>1, <3>2
  <2> HIDE DEF h, q
  <2> QED
    BY <2>1, <2>2, <2>3, Zenon
<1>7. q.size = 0 \/ (Len(h) = 1 /\ data[h[1]] < x) =>
         /\ next' = linked_last(next, q, n)
         /\ queues' = [queues EXCEPT ![SleepQueue] = queue_enqueue(q, n)]
  <2>1. CASE q.size = 0
    BY <1>2, <2>1, Zenon
  <2>2. CASE Len(h) = 1 /\ data[h[1]] < x
    <3> HIDE DEF q, h
    <3>1. o = Null
      BY <1>3, <1>6, <2>2, OtherOfOne
    <3>2. q.size # 0 /\ o # q.head
      BY <1>3, <1>6, <2>2, <3>1
    <3> HIDE DEF o
    <3>3. next' = prio_next(q, n, o) /\ queues' = [queues EXCEPT ![SleepQueue] = prio_queue(q, n, o)]
      BY <1>2, <3>2, Zenon
    <3>4. prio_next(q, n, o) = linked_last(next, q, n)
      BY <3>1, <3>2, Zenon DEF prio_next, linked_last
    <3>5. prio_queue(q, n, o) = queue_enqueue(q, n)
      BY <3>1, <3>2, Zenon DEF prio_queue, queue_enqueue
    <3> QED
      BY <3>3, <3>4, <3>5, Zenon
  <2> QED
    BY <2>1, <2>2, Zenon
<1>8. Len(h) = 1 /\ ~(data[h[1]] < x) =>
         /\ next' = [next EXCEPT ![n] = queues[SleepQueue].head]
         /\ queues' = [queues EXCEPT ![SleepQueue] =
                          [head |-> n, tail |-> queues[SleepQueue].tail,
                           size |-> queues[SleepQueue].size + 1]]
  <2> SUFFICES ASSUME Len(h) = 1, ~(data[h[1]] < x)
               PROVE  /\ next' = [next EXCEPT ![n] = q.head]
                      /\ queues' = [queues EXCEPT ![SleepQueue] =
                                       [head |-> n, tail |-> q.tail, size |-> q.size + 1]]
    BY Zenon
  <2> HIDE DEF q, h
  <2>1. o = q.head /\ o # Null
    BY <1>3, <1>6, OtherOfOne
  <2>2. q.size # 0
    BY <1>3
  <2> HIDE DEF o
  <2>3. next' = prio_next(q, n, o) /\ queues' = [queues EXCEPT ![SleepQueue] = prio_queue(q, n, o)]
    BY <1>2, <2>2, Zenon
  <2>4. prio_next(q, n, o) = [next EXCEPT ![n] = q.head]
    BY <2>1, Zenon DEF prio_next
  <2>5. prio_queue(q, n, o) = [head |-> n, tail |-> q.tail, size |-> q.size + 1]
    BY <2>1, Zenon DEF prio_queue
  <2> QED
    BY <2>3, <2>4, <2>5, Zenon
<1>9. CASE q.size = 0 \/ (Len(h) = 1 /\ data[h[1]] < x)
  <2>1. /\ \E s2 : Holds([f EXCEPT ![SleepQueue] = Append(h, n)], s2)'
        /\ next' \in [Blocks -> Blocks \cup {Null}]
        /\ queues' \in [QueueIds -> [head : Blocks \cup {Null}, tail : Blocks \cup {Null},
                                     size : Nat]]
    BY <1>1, <1>2, <1>7, <1>9, EnqueuedLast
  <2>2. FieldTypes'
    BY <1>5, <1>6, <2>1 DEF FieldTypes
  <2>3. Len(h) = 0 \/ (Len(h) = 1 /\ data[h[1]] <= x)
    BY <1>3, <1>6, <1>9
  <2> QED
    BY <2>1, <2>2, <2>3, Zenon
<1>10. CASE Len(h) = 1 /\ ~(data[h[1]] < x)
  <2>1. /\ \E s2 : Holds([f EXCEPT ![SleepQueue] = <<n>> \o h], s2)'
        /\ next' \in [Blocks -> Blocks \cup {Null}]
        /\ queues' \in [QueueIds -> [head : Blocks \cup {Null}, tail : Blocks \cup {Null},
                                     size : Nat]]
    <3>1. queues[SleepQueue].size # 0
      BY <1>3, <1>10
    <3> QED
      BY <1>1, <1>2, <1>8, <1>10, <3>1, EnqueuedFirst
  <2>2. FieldTypes'
    BY <1>5, <1>6, <2>1 DEF FieldTypes
  <2>3. x <= data[h[1]]
    BY <1>6, <1>10
  <2> QED
    BY <1>10, <2>1, <2>2, <2>3, Zenon
<1> QED
  BY <1>3, <1>4, <1>9, <1>10, Zenon

LEMMA NextIInv == ASSUME TwoSleepers, IInv, [QueuesNext]_queues_vars PROVE IInv'
<1>1. FieldTypes
  BY DEF IInv
<1>2. PICK f, s : Holds(f, s)
  BY DEF IInv
<1>3. PICK n : n = allocated_block
  OBVIOUS
<1>4. ASSUME UNCHANGED <<next, data, ba, queues>>, failed' \in BOOLEAN PROVE IInv'
  <2>1. FieldTypes'
    BY <1>1, <1>4 DEF FieldTypes
  <2>2. Holds(f, s)'
    BY <1>2, <1>4 DEF Holds, QueueIs, StackIs, Apart
  <2> QED
    BY <2>1, <2>2 DEF IInv
<1>5. CASE AllocationFails
  BY <1>4, <1>5 DEF AllocationFails
<1>6. ASSUME NEW id \in ReadyQueues, NEW x \in Items, ScheduleReady(id, x) PROVE IInv'
  <2>1. FieldTypes' /\ \E s2 : Holds([f EXCEPT ![id] = Append(f[id], n)], s2)'
    BY <1>1, <1>2, <1>3, <1>6, QueuedReady
  <2> QED
    BY <2>1, Zenon DEF IInv
<1>7. ASSUME NEW x \in Items, ScheduleSleeping(x) PROVE IInv'
  <2>1. /\ FieldTypes'
        /\ \/ \E s2 : Holds([f EXCEPT ![SleepQueue] = Append(f[SleepQueue], n)], s2)'
           \/ \E s2 : Holds([f EXCEPT ![SleepQueue] = <<n>> \o f[SleepQueue]], s2)'
    BY <1>1, <1>2, <1>3, <1>7, QueuedSleeping
  <2> QED
    BY <2>1, Zenon DEF IInv
<1>8. ASSUME NEW id \in QueueIds, DequeueAndFree(id) PROVE IInv'
  <2>1. FieldTypes' /\ \E s2 : Holds([f EXCEPT ![id] = Tail(f[id])], s2)'
    BY <1>1, <1>2, <1>8, Dequeued
  <2> QED
    BY <2>1, Zenon DEF IInv
<1>9. CASE UNCHANGED queues_vars
  BY <1>1, <1>4, <1>9 DEF queues_vars, FieldTypes
<1> QED
  BY <1>5, <1>6, <1>7, <1>8, <1>9 DEF QueuesNext

\* The sequences are what NodesInOnePlace and Contents read from memory.
LEMMA ListsAre ==
    ASSUME NEW f, NEW s, Holds(f, s)
    PROVE  /\ \A q \in QueueIds : list(next, queues[q]) = f[q]
           /\ free_nodes = s
<1>1. \A q \in QueueIds : list(next, queues[q]) = f[q]
  BY ListOfChain DEF Holds, QueueIs
<1>2. /\ Chain(next, ba.top, s) /\ ba.size = Len(s)
      /\ s \in Seq(Blocks) /\ Len(s) \in Nat
  BY ChainFacts DEF Holds, StackIs
<1>3. list(next, [head |-> ba.top]) = s
  <2>1. [head |-> ba.top].head = ba.top
    OBVIOUS
  <2> QED
    BY <1>2, <2>1, ListOfChain
<1>4. SubSeq(s, 1, Len(s)) = s
  BY <1>2
<1>5. free_nodes = SubSeq(s, 1, Len(s))
  BY <1>2, <1>3 DEF free_nodes
<1> QED
  BY <1>1, <1>4, <1>5

LEMMA InOnePlace == IInv => NodesInOnePlace
<1> SUFFICES ASSUME IInv PROVE NodesInOnePlace
  OBVIOUS
<1>1. FieldTypes
  BY DEF IInv
<1>2. PICK f, s : Holds(f, s)
  BY DEF IInv
<1>3. (\A q \in QueueIds : list(next, queues[q]) = f[q]) /\ free_nodes = s
  BY <1>2, ListsAre
<1>4. /\ \A q \in QueueIds :
            /\ Chain(next, queues[q].head, f[q]) /\ queues[q].size = Len(f[q])
            /\ Len(f[q]) # 0 => queues[q].tail = f[q][Len(f[q])]
      /\ Chain(next, ba.top, s) /\ ba.size = Len(s) /\ Apart(f, s)
  BY <1>2 DEF Holds, QueueIs, StackIs
<1>5. /\ \A q \in QueueIds : Len(f[q]) \in 0 .. NumNodes
                            /\ Cardinality(Members(f[q])) = Len(f[q])
      /\ Len(s) \in 0 .. NumNodes /\ Cardinality(Members(s)) = Len(s)
  BY <1>4, ChainBound
<1>6. /\ \A q \in QueueIds : \A n \in Members(f[q]) : n \in Blocks
      /\ \A n \in Members(s) : n \in Blocks
  BY <1>4, ChainFacts
<1> DEFINE lists == [q \in QueueIds |-> list(next, queues[q])]
           fresh == {n \in Blocks : n >= ba.implicit_next}
<1>7. \A q \in QueueIds : lists[q] = f[q]
  BY <1>3
<1> HIDE DEF lists
<1>8. QueuesTypeOK
  <2>1. ba \in [top : Blocks \cup {Null}, size : 0 .. NumNodes, implicit_next : 1 .. NumNodes + 1]
    <3>1. ba.size \in 0 .. NumNodes
      BY <1>4, <1>5
    <3> QED
      BY <1>1, <3>1 DEF FieldTypes
  <2>2. queues \in [QueueIds -> [head : Blocks \cup {Null}, tail : Blocks \cup {Null},
                                 size : 0 .. NumNodes]]
    <3>1. \A q \in QueueIds : queues[q].size \in 0 .. NumNodes
      BY <1>4, <1>5
    <3>2. \A q \in QueueIds : queues[q] \in [head : Blocks \cup {Null}, tail : Blocks \cup {Null},
                                             size : 0 .. NumNodes]
      BY <1>1, <3>1 DEF FieldTypes
    <3> QED
      BY <1>1, <3>2 DEF FieldTypes
  <2> QED
    BY <1>1, <2>1, <2>2 DEF FieldTypes, QueuesTypeOK
<1>9. \A n \in Blocks : n \in fresh <=> ~(n < ba.implicit_next)
  <2>1. \A n \in Blocks : n \in Nat
    BY NodeAssumption DEF Blocks
  <2>2. ba.implicit_next \in Nat
    BY <1>1, NodeAssumption DEF FieldTypes
  <2> QED
    BY <2>1, <2>2
<1>10. fresh \subseteq Blocks
  OBVIOUS
<1> HIDE DEF fresh
<1>11. /\ Members(s) \cap fresh = {}
       /\ UNION {Members(lists[q]) : q \in QueueIds} = Blocks \ (Members(s) \cup fresh)
  <2>1. \A n \in Blocks :
           n \notin fresh <=> n \in Members(s) \/ \E q \in QueueIds : n \in Members(f[q])
    BY <1>4, <1>9 DEF Apart
  <2>2. \A q \in QueueIds : Members(f[q]) \cap Members(s) = {}
    BY <1>4 DEF Apart
  <2>3. \A n : n \in UNION {Members(lists[q]) : q \in QueueIds}
                   <=> \E q \in QueueIds : n \in Members(f[q])
    BY <1>7
  <2> QED
    BY <1>6, <2>1, <2>2, <2>3
<1>12. \A q \in QueueIds :
          /\ Len(lists[q]) = queues[q].size
          /\ queues[q].size # 0 => queues[q].tail = lists[q][queues[q].size]
          /\ Cardinality(Members(lists[q])) = queues[q].size
  BY <1>4, <1>5, <1>7
<1>13. \A q, r \in QueueIds : q # r => Members(lists[q]) \cap Members(lists[r]) = {}
  BY <1>4, <1>7 DEF Apart
<1>14. Cardinality(Members(free_nodes)) = ba.size
  BY <1>3, <1>4, <1>5
<1> QED
  BY <1>3, <1>8, <1>11, <1>12, <1>13, <1>14, Zenon DEF NodesInOnePlace, lists, fresh

\* However schedule and dispatch use queue.c, block.c and stack.c, the inductive
\* invariant holds while queue_enqueue_prio meets at most one sleeper.
THEOREM Invariance == ASSUME TwoSleepers PROVE QueuesSpec => []IInv
<1>1. QueuesInit => IInv
  BY InitIInv
<1>2. IInv /\ [QueuesNext]_queues_vars => IInv'
  BY NextIInv
<1> QED
  BY <1>1, <1>2, PTL DEF QueuesSpec

\* No node of ba_qnodes is ever lost, shared by two queues or handed out twice:
\* each is in one queue, once, on the free stack or not used yet, and the heads,
\* tails and sizes agree with the linked lists, for every number of nodes.
THEOREM NoNodeLost == ASSUME TwoSleepers PROVE QueuesSpec => []NodesInOnePlace
<1>1. IInv => NodesInOnePlace
  BY InOnePlace
<1> QED
  BY <1>1, Invariance, PTL

-----------------------------------------------------------------------------
(* The lists implement the queues *)

\* What the nodes of one list point to
Vals(dt, h) == [i \in 1 .. Len(h) |-> dt[h[i]]]

LEMMA SameSeq ==
    ASSUME NEW V, NEW a \in Seq(V), NEW b \in Seq(V), Len(a) = Len(b),
           \A i \in 1 .. Len(a) : a[i] = b[i]
    PROVE  a = b
<1>1. a = [i \in 1 .. Len(a) |-> a[i]] /\ b = [i \in 1 .. Len(b) |-> b[i]]
  OBVIOUS
<1> QED
  BY <1>1

LEMMA ValsFacts ==
    ASSUME NEW V, NEW dt \in [Blocks -> V], NEW h \in Seq(Blocks)
    PROVE  /\ Vals(dt, h) \in Seq(V) /\ Len(Vals(dt, h)) = Len(h) /\ Len(h) \in Nat
           /\ \A i \in 1 .. Len(h) : Vals(dt, h)[i] = dt[h[i]]
<1>1. \A i \in 1 .. Len(h) : dt[h[i]] \in V
  OBVIOUS
<1> QED
  BY <1>1 DEF Vals

LEMMA ValsSame ==
    ASSUME NEW dt, NEW dt2, NEW h \in Seq(Blocks), \A m \in Members(h) : dt2[m] = dt[m]
    PROVE  Vals(dt2, h) = Vals(dt, h)
<1>1. \A i \in 1 .. Len(h) : h[i] \in Members(h)
  BY DEF Members
<1> QED
  BY <1>1 DEF Vals

LEMMA ValsAppend ==
    ASSUME NEW V, NEW dt \in [Blocks -> V], NEW h \in Seq(Blocks), NEW n \in Blocks
    PROVE  Vals(dt, Append(h, n)) = Append(Vals(dt, h), dt[n])
<1> DEFINE t == Append(h, n)
           c == Vals(dt, h)
           a == Append(c, dt[n])
           b == Vals(dt, t)
<1>1. /\ t \in Seq(Blocks) /\ Len(t) = Len(h) + 1 /\ Len(h) \in Nat /\ t[Len(h) + 1] = n
      /\ \A i \in 1 .. Len(h) : t[i] = h[i]
  BY AppendProperties
<1>2. /\ c \in Seq(V) /\ Len(c) = Len(h) /\ \A i \in 1 .. Len(h) : c[i] = dt[h[i]]
  BY ValsFacts
<1> HIDE DEF t, c
<1>3. /\ b \in Seq(V) /\ Len(b) = Len(h) + 1 /\ \A i \in 1 .. Len(h) + 1 : b[i] = dt[t[i]]
  BY <1>1, ValsFacts
<1>4. /\ a \in Seq(V) /\ Len(a) = Len(h) + 1 /\ a[Len(h) + 1] = dt[n]
      /\ \A i \in 1 .. Len(h) : a[i] = c[i]
  BY <1>1, <1>2, AppendProperties
<1> HIDE DEF a, b
<1>5. ASSUME NEW i \in 1 .. Len(h) + 1 PROVE b[i] = a[i]
  <2>1. CASE i \in 1 .. Len(h)
    BY <1>1, <1>2, <1>3, <1>4, <2>1
  <2>2. CASE i = Len(h) + 1
    BY <1>1, <1>3, <1>4, <2>2
  <2> QED
    BY <1>1, <2>1, <2>2
<1>6. a = b
  BY <1>3, <1>4, <1>5, SameSeq
<1> QED
  BY <1>6 DEF a, b, c, t

LEMMA ValsPush ==
    ASSUME NEW V, NEW dt \in [Blocks -> V], NEW h \in Seq(Blocks), NEW n \in Blocks
    PROVE  Vals(dt, <<n>> \o h) = <<dt[n]>> \o Vals(dt, h)
<1> DEFINE t == <<n>> \o h
           c == Vals(dt, h)
           a == <<dt[n]>> \o c
           b == Vals(dt, t)
<1>1. /\ t \in Seq(Blocks) /\ Len(t) = Len(h) + 1 /\ Len(h) \in Nat /\ t[1] = n
      /\ \A i \in 1 .. Len(h) : t[i + 1] = h[i]
  OBVIOUS
<1>2. /\ c \in Seq(V) /\ Len(c) = Len(h) /\ \A i \in 1 .. Len(h) : c[i] = dt[h[i]]
  BY ValsFacts
<1> HIDE DEF t, c
<1>3. /\ b \in Seq(V) /\ Len(b) = Len(h) + 1 /\ \A i \in 1 .. Len(h) + 1 : b[i] = dt[t[i]]
  BY <1>1, ValsFacts
<1>4. /\ a \in Seq(V) /\ Len(a) = Len(h) + 1 /\ a[1] = dt[n]
      /\ \A i \in 1 .. Len(h) : a[i + 1] = c[i]
  <2>1. dt[n] \in V
    OBVIOUS
  <2> QED
    BY <1>1, <1>2, <2>1
<1> HIDE DEF a, b
<1>5. ASSUME NEW i \in 1 .. Len(h) + 1 PROVE b[i] = a[i]
  <2>1. CASE i = 1
    BY <1>1, <1>3, <1>4, <2>1
  <2>2. CASE i # 1
    <3>1. i - 1 \in 1 .. Len(h) /\ (i - 1) + 1 = i
      BY <1>1, <2>2
    <3>2. t[i] = h[i - 1] /\ a[i] = c[i - 1]
      BY <1>1, <1>4, <3>1
    <3> QED
      BY <1>2, <1>3, <3>1, <3>2
  <2> QED
    BY <2>1, <2>2
<1>6. a = b
  BY <1>3, <1>4, <1>5, SameSeq
<1> QED
  BY <1>6 DEF a, b, c, t

LEMMA ValsTail ==
    ASSUME NEW V, NEW dt \in [Blocks -> V], NEW h \in Seq(Blocks), Len(h) # 0
    PROVE  Vals(dt, Tail(h)) = Tail(Vals(dt, h))
<1> DEFINE t == Tail(h)
           c == Vals(dt, h)
           a == Tail(c)
           b == Vals(dt, t)
<1>1. /\ t \in Seq(Blocks) /\ Len(t) = Len(h) - 1 /\ Len(h) \in Nat \ {0}
      /\ \A i \in 1 .. Len(h) - 1 : t[i] = h[i + 1]
  OBVIOUS
<1>2. /\ c \in Seq(V) /\ Len(c) = Len(h) /\ \A i \in 1 .. Len(h) : c[i] = dt[h[i]]
  BY ValsFacts
<1> HIDE DEF t, c
<1>3. /\ b \in Seq(V) /\ Len(b) = Len(h) - 1 /\ \A i \in 1 .. Len(h) - 1 : b[i] = dt[t[i]]
  <2>1. b \in Seq(V) /\ Len(b) = Len(t) /\ \A i \in 1 .. Len(t) : b[i] = dt[t[i]]
    BY <1>1, ValsFacts, Zenon
  <2> HIDE DEF b
  <2> QED
    BY <1>1, <2>1
<1>4. /\ a \in Seq(V) /\ Len(a) = Len(h) - 1
      /\ \A i \in 1 .. Len(h) - 1 : a[i] = c[i + 1]
  BY <1>1, <1>2
<1> HIDE DEF a, b
<1>5. \A i \in 1 .. Len(h) - 1 : i + 1 \in 1 .. Len(h)
  BY <1>1
<1>6. \A i \in 1 .. Len(h) - 1 : a[i] = b[i]
  BY <1>1, <1>2, <1>3, <1>4, <1>5
<1>7. a = b
  BY <1>3, <1>4, <1>6, SameSeq
<1> QED
  BY <1>7 DEF a, b, c, t

\* The contents of the queues whose lists are f
Read(dt, f) == [q \in QueueIds |-> Vals(dt, f[q])]

\* The abstract state before a step and after it
LEMMA ContentsRead == ASSUME NEW f, NEW s, Holds(f, s) PROVE Contents = Read(data, f)
<1>1. \A q \in QueueIds : Chain(next, queues[q].head, f[q])
  BY DEF Holds, QueueIs
<1>2. \A q \in QueueIds : list(next, queues[q]) = f[q] /\ DOMAIN f[q] = 1 .. Len(f[q])
  BY <1>1, ListOfChain, ChainFacts
<1> QED
  BY <1>2 DEF Contents, Read, Vals

LEMMA ContentsReadNext ==
    ASSUME NEW f, NEW s, Holds(f, s)' PROVE Contents' = Read(data', f)
<1>1. \A q \in QueueIds : Chain(next', queues'[q].head, f[q])
  BY DEF Holds, QueueIs
<1>2. \A q \in QueueIds : list(next', queues'[q]) = f[q] /\ DOMAIN f[q] = 1 .. Len(f[q])
  BY <1>1, ListOfChain, ChainFacts
<1> QED
  BY <1>2 DEF Contents, Read, Vals

\* A node is handed out exactly when the queues do not hold all of them.
LEMMA InUseIs ==
    ASSUME FieldTypes, NEW f, NEW s, Holds(f, s)
    PROVE  IF allocated_block = Null THEN Queues!InUse = NumNodes
           ELSE Queues!InUse \in Nat /\ Queues!InUse < NumNodes
<1> DEFINE places == UNION {{q} \X DOMAIN Contents[q] : q \in QueueIds}
           used == {n \in Blocks : \E q \in QueueIds : n \in Members(f[q])}
           b == [p \in places |-> f[p[1]][p[2]]]
<1>1. /\ \A q \in QueueIds : Chain(next, queues[q].head, f[q])
      /\ Chain(next, ba.top, s) /\ ba.size = Len(s) /\ Apart(f, s)
  BY DEF Holds, QueueIs, StackIs
<1>2. Queues!InUse = Cardinality(places)
  BY Zenon DEF Queues!InUse, Queues!Cardinality, Cardinality, Queues!IsFiniteSet, IsFiniteSet
<1>3. \A q \in QueueIds : DOMAIN Contents[q] = 1 .. Len(f[q])
  BY ContentsRead DEF Read, Vals
<1>4. \A p : p \in places <=>
          \E q \in QueueIds : \E i \in 1 .. Len(f[q]) : p = <<q, i>>
  BY <1>3
<1> HIDE DEF places
<1>5. b \in Bijection(places, used)
  <2>1. \A q \in QueueIds : \A i \in 1 .. Len(f[q]) :
           f[q][i] \in Blocks /\ f[q][i] \in Members(f[q]) /\ <<q, i>> \in places
    BY <1>1, <1>4, ChainFacts
  <2>2. b \in [places -> used]
    BY <1>4, <2>1
  <2>3. ASSUME NEW n \in used PROVE \E p \in places : b[p] = n
    <3>1. PICK q \in QueueIds : n \in Members(f[q])
      OBVIOUS
    <3>2. PICK i \in 1 .. Len(f[q]) : n = f[q][i]
      BY <1>1, <3>1, ChainFacts
    <3> QED
      BY <2>1, <3>2
  <2>4. ASSUME NEW p \in places, NEW r \in places, b[p] = b[r] PROVE p = r
    <3>1. PICK q \in QueueIds : \E i \in 1 .. Len(f[q]) : p = <<q, i>>
      BY <1>4
    <3>2. PICK i \in 1 .. Len(f[q]) : p = <<q, i>>
      BY <3>1
    <3>3. PICK q2 \in QueueIds : \E j \in 1 .. Len(f[q2]) : r = <<q2, j>>
      BY <1>4
    <3>4. PICK j \in 1 .. Len(f[q2]) : r = <<q2, j>>
      BY <3>3
    <3>5. f[q][i] = f[q2][j]
      BY <2>4, <3>2, <3>4
    <3>6. q = q2
      BY <1>1, <2>1, <3>5 DEF Apart
    <3>7. i = j
      BY <1>1, <3>5, <3>6 DEF Chain
    <3> QED
      BY <3>2, <3>4, <3>6, <3>7
  <2> HIDE DEF b, used
  <2>5. b \in Injection(places, used)
    BY <2>2, <2>4 DEF Injection, IsInjective
  <2>6. b \in Surjection(places, used)
    BY <2>2, <2>3 DEF Surjection
  <2> QED
    BY <2>5, <2>6 DEF Bijection
<1>6. IsFiniteSet(Blocks) /\ Cardinality(Blocks) = NumNodes /\ NumNodes \in Nat
  BY NodeAssumption, FS_Interval DEF Blocks
<1>7. /\ IsFiniteSet(used) /\ Cardinality(used) <= NumNodes
      /\ Cardinality(used) = NumNodes => used = Blocks
  <2>1. used \subseteq Blocks
    OBVIOUS
  <2> QED
    BY <1>6, <2>1, FS_Subset
<1>8. Cardinality(places) = Cardinality(used) /\ Cardinality(used) \in Nat
  <2>2. ExistsBijection(places, used)
    BY <1>5 DEF ExistsBijection
  <2>3. ExistsBijection(used, places)
    BY <2>2, Fun_ExistsBijSymmetric
  <2>4. IsFiniteSet(places) /\ Cardinality(places) = Cardinality(used)
    BY <1>7, <2>3, FS_Bijection
  <2> QED
    BY <1>7, <2>4, FS_CardinalityType
<1>9. CASE allocated_block = Null
  <2>1. ba.size = 0 /\ ba.implicit_next = NumNodes + 1
    <3>1. ba.size # 0 => ba.top \in Blocks
      BY <1>1, ChainPop
    <3>2. Null \notin Blocks
      BY NodeAssumption DEF Blocks, Null
    <3>3. ba.implicit_next \in 1 .. NumNodes + 1 /\ Null \notin 1 .. NumNodes
      BY <3>2 DEF FieldTypes, Blocks
    <3> QED
      BY <1>6, <1>9, <3>1, <3>2, <3>3 DEF allocated_block
  <2>2. Members(s) = {}
    BY <1>1, <2>1, ChainFacts
  <2>3. \A n \in Blocks : n < ba.implicit_next
    BY <1>6, <2>1 DEF Blocks
  <2>4. used = Blocks
    BY <1>1, <2>2, <2>3 DEF Apart
  <2> QED
    BY <1>2, <1>6, <1>8, <1>9, <2>4
<1>10. CASE allocated_block # Null
  <2>1. allocated_block \in Blocks /\ \A q \in QueueIds : allocated_block \notin Members(f[q])
    BY <1>10, Allocated
  <2>2. used # Blocks
    BY <2>1
  <2> HIDE DEF used
  <2> QED
    BY <1>2, <1>6, <1>7, <1>8, <1>10, <2>2
<1> QED
  BY <1>9, <1>10

\* A step of the lists is a step of the queues.
LEMMA StepRefines ==
    ASSUME TwoSleepers, IInv, [QueuesNext]_queues_vars
    PROVE  [Queues!Next]_<<Contents, failed>>
<1>1. FieldTypes
  BY DEF IInv
<1>2. PICK f, s : Holds(f, s)
  BY DEF IInv
<1>3. PICK n : n = allocated_block
  OBVIOUS
<1>4. PICK V : V = Items \cup {0}
  OBVIOUS
<1>5. data \in [Blocks -> V] /\ Contents = Read(data, f)
  BY <1>1, <1>2, <1>4, ContentsRead DEF FieldTypes
<1>6. f \in [QueueIds -> Seq(Blocks)] /\ SleepQueue \in QueueIds
  BY <1>2 DEF Holds, QueueIds
<1>7. \A q \in QueueIds : Contents[q] = Vals(data, f[q])
  BY <1>5 DEF Read
<1>8. n # Null => /\ Queues!InUse < NumNodes
                  /\ n \in Blocks /\ \A q \in QueueIds : n \notin Members(f[q])
  BY <1>1, <1>2, <1>3, InUseIs, Allocated
<1>9. ASSUME n # Null, NEW id \in QueueIds, NEW x, data' = [data EXCEPT ![n] = x],
             NEW t \in Seq(Blocks), \E s2 : Holds([f EXCEPT ![id] = t], s2)',
             FieldTypes'
      PROVE  /\ data' \in [Blocks -> V] /\ data'[n] = x
             /\ Vals(data', f[id]) = Contents[id]
             /\ Contents' = [Contents EXCEPT ![id] = Vals(data', t)]
  <2>1. data' \in [Blocks -> V]
    BY <1>4, <1>9 DEF FieldTypes
  <2>2. /\ data'[n] = x
        /\ \A q \in QueueIds : \A m \in Members(f[q]) : data'[m] = data[m]
    BY <1>5, <1>8, <1>9
  <2>3. \A q \in QueueIds : Vals(data', f[q]) = Vals(data, f[q])
    BY <1>6, <2>2, ValsSame
  <2>4. PICK g : g = [f EXCEPT ![id] = t]
    OBVIOUS
  <2>5. Contents' = Read(data', g)
    BY <1>9, <2>4, ContentsReadNext
  <2>6. g[id] = t /\ \A q \in QueueIds \ {id} : g[q] = f[q]
    BY <1>6, <2>4
  <2>7. Contents = [q \in QueueIds |-> Contents[q]]
    BY <1>5 DEF Read
  <2>8. Contents' = [q \in QueueIds |-> IF q = id THEN Vals(data', t) ELSE Contents[q]]
    BY <1>7, <2>3, <2>5, <2>6 DEF Read
  <2> QED
    BY <1>7, <2>1, <2>2, <2>3, <2>7, <2>8
<1>10. CASE AllocationFails
  <2>1. n = Null /\ failed' = TRUE /\ UNCHANGED <<next, data, ba, queues>>
    BY <1>3, <1>10 DEF AllocationFails
  <2>2. Queues!InUse = NumNodes
    BY <1>1, <1>2, <1>3, <2>1, InUseIs
  <2>3. Contents' = Contents
    BY <2>1 DEF Contents
  <2> QED
    BY <2>1, <2>2, <2>3 DEF Queues!Next, Queues!Fail
<1>11. ASSUME NEW id \in ReadyQueues, NEW x \in Items, ScheduleReady(id, x)
       PROVE  Queues!Next
  <2>1. /\ n # Null /\ data' = [data EXCEPT ![n] = x] /\ ~failed /\ UNCHANGED failed
        /\ id \in QueueIds \ {SleepQueue}
    BY <1>3, <1>11, NodeAssumption DEF ScheduleReady, QueueIds
  <2>2. FieldTypes' /\ \E s2 : Holds([f EXCEPT ![id] = Append(f[id], n)], s2)'
    BY <1>1, <1>2, <1>3, <1>11, QueuedReady
  <2>3. f[id] \in Seq(Blocks) /\ Append(f[id], n) \in Seq(Blocks)
    BY <1>6, <1>8, <2>1
  <2>4. /\ data' \in [Blocks -> V] /\ data'[n] = x /\ Vals(data', f[id]) = Contents[id]
        /\ Contents' = [Contents EXCEPT ![id] = Vals(data', Append(f[id], n))]
    BY <1>9, <2>1, <2>2, <2>3
  <2>5. Vals(data', Append(f[id], n)) = Append(Vals(data', f[id]), data'[n])
    BY <1>8, <2>1, <2>3, <2>4, ValsAppend
  <2>6. Contents' = [Contents EXCEPT ![id] = Append(Contents[id], x)]
    BY <2>4, <2>5, Zenon
  <2>7. Queues!Put(id, x)
    BY <1>8, <2>1, <2>6 DEF Queues!Put
  <2> QED
    BY <1>11, <2>1, <2>7 DEF Queues!Next
<1>12. ASSUME NEW x \in Items, ScheduleSleeping(x) PROVE Queues!Next
  <2> DEFINE id == SleepQueue
             h == f[SleepQueue]
             c == Contents[SleepQueue]
  <2>1. n # Null /\ data' = [data EXCEPT ![n] = x] /\ ~failed /\ UNCHANGED failed
    BY <1>3, <1>12 DEF ScheduleSleeping
  <2>2. /\ FieldTypes'
        /\ \/ /\ Len(h) = 0 \/ (Len(h) = 1 /\ data[h[1]] <= x)
              /\ \E s2 : Holds([f EXCEPT ![id] = Append(h, n)], s2)'
           \/ /\ Len(h) = 1 /\ x <= data[h[1]]
              /\ \E s2 : Holds([f EXCEPT ![id] = <<n>> \o h], s2)'
    BY <1>1, <1>2, <1>3, <1>12, QueuedSleeping
  <2>3. h \in Seq(Blocks) /\ Append(h, n) \in Seq(Blocks) /\ <<n>> \o h \in Seq(Blocks)
    BY <1>6, <1>8, <2>1
  <2>4. /\ c \in Seq(V) /\ Len(c) = Len(h) /\ Len(h) \in Nat
        /\ \A i \in 1 .. Len(h) : c[i] = data[h[i]]
    <3>1. c = Vals(data, h) /\ h \in Seq(Blocks) /\ data \in [Blocks -> V]
      BY <1>5, <1>6, <1>7, <2>3
    <3> HIDE DEF h, c
    <3>2. /\ Vals(data, h) \in Seq(V) /\ Len(Vals(data, h)) = Len(h) /\ Len(h) \in Nat
          /\ \A i \in 1 .. Len(h) : Vals(data, h)[i] = data[h[i]]
      BY <3>1, ValsFacts, Zenon
    <3> QED
      BY <3>1, <3>2, Zenon
  <2> HIDE DEF h, c
  <2>5. ASSUME NEW k \in {0, Len(c)},
               \A i \in 1 .. Len(c) : IF i <= k THEN c[i] <= x ELSE x <= c[i],
               Contents' = [Contents EXCEPT ![id] =
                               SubSeq(c, 1, k) \o <<x>> \o SubSeq(c, k + 1, Len(c))]
        PROVE  Queues!Next
    <3>1. k \in 0 .. Len(c)
      BY <2>4
    <3>2. Queues!PutInOrder(id, x)
      BY <1>8, <2>1, <2>5, <3>1 DEF Queues!PutInOrder, c
    <3> QED
      BY <1>6, <1>12, <3>2 DEF Queues!Next
  <2>6. CASE /\ Len(h) = 0 \/ (Len(h) = 1 /\ data[h[1]] <= x)
             /\ \E s2 : Holds([f EXCEPT ![id] = Append(h, n)], s2)'
    <3>1. /\ data' \in [Blocks -> V] /\ data'[n] = x /\ Vals(data', h) = c
          /\ Contents' = [Contents EXCEPT ![id] = Vals(data', Append(h, n))]
      BY <1>6, <1>9, <2>1, <2>2, <2>3, <2>6 DEF h, c
    <3>2. Vals(data', Append(h, n)) = Append(Vals(data', h), data'[n])
      BY <1>8, <2>1, <2>3, <3>1, ValsAppend
    <3>3. Append(c, x) = SubSeq(c, 1, Len(c)) \o <<x>> \o SubSeq(c, Len(c) + 1, Len(c))
      <4>1. SubSeq(c, 1, Len(c)) = c /\ SubSeq(c, Len(c) + 1, Len(c)) = <<>>
        BY <2>4
      <4>2. c \o <<x>> = Append(c, x) /\ Append(c, x) \o <<>> = Append(c, x)
        BY <2>4
      <4> QED
        BY <4>1, <4>2
    <3>4. \A i \in 1 .. Len(c) : i <= Len(c) /\ c[i] <= x
      BY <2>4, <2>6
    <3> QED
      BY <2>5, <3>1, <3>2, <3>3, <3>4
  <2>7. CASE /\ Len(h) = 1 /\ x <= data[h[1]]
             /\ \E s2 : Holds([f EXCEPT ![id] = <<n>> \o h], s2)'
    <3>1. /\ data' \in [Blocks -> V] /\ data'[n] = x /\ Vals(data', h) = c
          /\ Contents' = [Contents EXCEPT ![id] = Vals(data', <<n>> \o h)]
      BY <1>6, <1>9, <2>1, <2>2, <2>3, <2>7 DEF h, c
    <3>2. Vals(data', <<n>> \o h) = <<data'[n]>> \o Vals(data', h)
      BY <1>8, <2>1, <2>3, <3>1, ValsPush
    <3>3. <<x>> \o c = SubSeq(c, 1, 0) \o <<x>> \o SubSeq(c, 0 + 1, Len(c))
      <4>1. SubSeq(c, 0 + 1, Len(c)) = c /\ SubSeq(c, 1, 0) = <<>>
        BY <2>4
      <4>2. <<>> \o <<x>> = <<x>>
        OBVIOUS
      <4> QED
        BY <4>1, <4>2
    <3>4. \A i \in 1 .. Len(c) : ~(i <= 0) /\ x <= c[i]
      BY <2>4, <2>7
    <3> QED
      BY <2>5, <3>1, <3>2, <3>3, <3>4
  <2> QED
    BY <2>2, <2>6, <2>7
<1>13. ASSUME NEW id \in QueueIds, DequeueAndFree(id) PROVE Queues!Next
  <2>1. ~failed /\ UNCHANGED <<data, failed>>
    BY <1>13 DEF DequeueAndFree
  <2>2. Len(f[id]) # 0 /\ \E s2 : Holds([f EXCEPT ![id] = Tail(f[id])], s2)'
    BY <1>1, <1>2, <1>13, Dequeued
  <2>3. PICK g : g = [f EXCEPT ![id] = Tail(f[id])]
    OBVIOUS
  <2>4. Contents' = Read(data, g)
    BY <2>1, <2>2, <2>3, ContentsReadNext
  <2>5. g[id] = Tail(f[id]) /\ \A q \in QueueIds \ {id} : g[q] = f[q]
    BY <1>6, <2>3
  <2>6. f[id] \in Seq(Blocks)
    BY <1>6
  <2>7. Vals(data, Tail(f[id])) = Tail(Contents[id])
    BY <1>5, <1>7, <2>2, <2>6, ValsTail
  <2>8. Contents = [q \in QueueIds |-> Contents[q]]
    BY <1>5 DEF Read
  <2>9. Contents' = [Contents EXCEPT ![id] = Tail(Contents[id])]
    BY <1>7, <2>4, <2>5, <2>7, <2>8 DEF Read
  <2>10. Contents[id] # <<>>
    <3>1. Len(Contents[id]) = Len(f[id])
      <4>1. Len(Vals(data, f[id])) = Len(f[id])
        BY <1>5, <2>6, ValsFacts, Zenon
      <4> QED
        BY <1>7, <4>1, Zenon
    <3> QED
      BY <2>2, <3>1
  <2>11. Queues!Take(id)
    BY <2>1, <2>9, <2>10 DEF Queues!Take
  <2> QED
    BY <2>11 DEF Queues!Next
<1>14. CASE UNCHANGED queues_vars
  BY <1>14 DEF queues_vars, Contents
<1> QED
  BY <1>10, <1>11, <1>12, <1>13, <1>14, Zenon DEF QueuesNext

\* The lists of nodes implement FIFO queues, and a queue in order of the times to
\* wake up while it has at most one element when one is added; an allocation
\* fails only when all nodes are in queues.
THEOREM QueuesImplemented == ASSUME TwoSleepers PROVE QueuesSpec => ListsAreQueues
<1>1. QueuesInit => Queues!Init
  <2> SUFFICES ASSUME QueuesInit PROVE Queues!Init
    OBVIOUS
  <2>1. PICK f, s : Holds(f, s)
    BY InitIInv DEF IInv
  <2>2. \A q \in QueueIds : f[q] \in Seq(Blocks) /\ Len(f[q]) = 0
    BY <2>1 DEF Holds, QueueIs, QueuesInit
  <2>3. \A q \in QueueIds : Vals(data, f[q]) = <<>>
    BY <2>2 DEF Vals
  <2>4. Contents = [q \in QueueIds |-> <<>>]
    BY <2>1, <2>3, ContentsRead DEF Read
  <2> QED
    BY <2>4 DEF Queues!Init, QueuesInit
<1>2. IInv /\ [QueuesNext]_queues_vars => [Queues!Next]_<<Contents, failed>>
  BY StepRefines
<1> QED
  BY <1>1, <1>2, Invariance, PTL DEF QueuesSpec, ListsAreQueues, Queues!Spec
=============================================================================
