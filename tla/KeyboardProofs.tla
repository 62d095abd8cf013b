---------------------------- MODULE KeyboardProofs ----------------------------
(* Theorems about Keyboard for every size of the buffer, every scan code table *)
(* and any number of readers.                                                  *)
EXTENDS Keyboard, SequenceTheorems, TLAPS

\* The slot k places after the oldest unread character
Slot(k) == IF last_index + k < BUFFER_SIZE THEN last_index + k
                                           ELSE last_index + k - BUFFER_SIZE

\* The characters between last_index and next_index are the unread ones.  They
\* never fill the buffer, so the handler's test for a full one is never true.
RingInv ==
    /\ buffer_size <= MaxAhead
    /\ next_index = Slot(buffer_size)
    /\ \A k \in 0 .. buffer_size - 1 : buffer[Slot(k)] \in Chars

-----------------------------------------------------------------------------
(* Indices that wrap, and sequences given as functions *)

\* x % n for an x that wraps at most once.
LEMMA ModFacts ==
    ASSUME NEW n \in Nat \ {0}, NEW x \in 0 .. 2 * n - 1
    PROVE  x % n = IF x < n THEN x ELSE x - n
<1>1. CASE x < n
  <2>1. x \in 0 .. n - 1
    BY <1>1
  <2> QED
    BY <1>1, <2>1
<1>2. CASE ~(x < n)
  <2>1. x \in n .. 2 * n - 1
    BY <1>2
  <2>2. x % n = x - n
    BY <2>1
  <2> QED
    BY <1>2, <2>2
<1> QED
  BY <1>1, <1>2

\* A function on 1 .. n is a sequence.
LEMMA FunctionIsSeq ==
    ASSUME NEW S, NEW n \in Nat, NEW f \in [1 .. n -> S]
    PROVE  f \in Seq(S) /\ Len(f) = n
  OBVIOUS

\* Append and Tail, recognised by the elements of the sequence they make.
LEMMA IsAppend ==
    ASSUME NEW S, NEW s \in Seq(S), NEW t \in Seq(S), NEW c \in S,
           Len(t) = Len(s) + 1, \A i \in 1 .. Len(s) : t[i] = s[i], t[Len(t)] = c
    PROVE  t = Append(s, c)
<1>1. /\ Append(s, c) \in Seq(S) /\ Len(Append(s, c)) = Len(s) + 1
      /\ \A i \in 1 .. Len(s) + 1 : Append(s, c)[i] = IF i <= Len(s) THEN s[i] ELSE c
  OBVIOUS
<1>2. \A i \in 1 .. Len(t) : t[i] = Append(s, c)[i]
  BY <1>1
<1> QED
  BY <1>1, <1>2, SeqEqual

LEMMA IsTail ==
    ASSUME NEW S, NEW s \in Seq(S), NEW t \in Seq(S), Len(s) = Len(t) + 1,
           \A i \in 1 .. Len(t) : t[i] = s[i + 1]
    PROVE  s # <<>> /\ Head(s) = s[1] /\ t = Tail(s)
<1>1. s # <<>> /\ Head(s) = s[1]
  OBVIOUS
<1>2. /\ Tail(s) \in Seq(S) /\ Len(Tail(s)) = Len(t)
      /\ \A i \in 1 .. Len(t) : Tail(s)[i] = s[i + 1]
  BY <1>1, HeadTailProperties
<1> QED
  BY <1>1, <1>2, SeqEqual

-----------------------------------------------------------------------------
(* The ring *)

\* Every variable has its type, and both indices stay inside the buffer also
\* when more characters are typed than it holds.
THEOREM TypeCorrect == Spec => []TypeOK
<1> USE KeyboardAssumption
<1>1. Init => TypeOK
  BY DEF Init, TypeOK
<1>2. TypeOK /\ [Next]_vars => TypeOK'
  <2> SUFFICES ASSUME TypeOK, [Next]_vars PROVE TypeOK'
    OBVIOUS
  <2> USE DEF TypeOK
  <2>1. ASSUME NEW down \in {0, 1}, Shift(down) PROVE TypeOK'
    BY <2>1 DEF Shift, ring
  <2>2. ASSUME NEW key \in Keys, KeyDown(key) PROVE TypeOK'
    <3>1. CASE scan_code_table[shiftdown][key] = NUL
      BY <2>2, <3>1 DEF KeyDown, ring
    <3>2. CASE scan_code_table[shiftdown][key] # NUL
      <4>1. scan_code_table[shiftdown][key] \in Chars
        BY <3>2 DEF Chars
      <4>2. next_index' \in 0 .. BUFFER_SIZE - 1
        BY <2>2, <3>2 DEF KeyDown, advanced
      <4>3. last_index' \in 0 .. BUFFER_SIZE - 1
        BY <2>2, <3>2, ModFacts DEF KeyDown
      <4> QED
        BY <2>2, <3>2, <4>1, <4>2, <4>3 DEF KeyDown
    <3> QED
      BY <3>1, <3>2
  <2>3. ASSUME NEW r \in Readers, StartRead(r) \/ KeyAvailable(r) \/ Msleep0(r)
        PROVE  TypeOK'
    BY <2>3 DEF StartRead, KeyAvailable, Msleep0, Goto, ring
  <2>4. ASSUME NEW r \in Readers, GetKey(r) PROVE TypeOK'
    BY <2>4 DEF GetKey, Goto, advanced, keyboard_char_available
  <2>5. CASE UNCHANGED vars
    BY <2>5 DEF vars
  <2> QED
    BY <2>1, <2>2, <2>3, <2>4, <2>5 DEF Next, ReadKey
<1> QED
  BY <1>1, <1>2, PTL DEF Spec

\* With fewer than BUFFER_SIZE unread characters the ring holds them in order.
LEMMA RingHolds ==
    ASSUME MaxAhead < BUFFER_SIZE PROVE Spec => []RingInv
<1> USE KeyboardAssumption
<1>1. Init => RingInv
  BY DEF Init, RingInv, Slot
<1>2. TypeOK /\ RingInv /\ [Next]_vars => RingInv'
  <2> SUFFICES ASSUME TypeOK, RingInv, [Next]_vars PROVE RingInv'
    OBVIOUS
  <2>1. ASSUME UNCHANGED ring PROVE RingInv'
    BY <2>1 DEF ring, RingInv, Slot
  <2>2. ASSUME NEW key \in Keys, KeyDown(key) PROVE RingInv'
    <3> DEFINE c == scan_code_table[shiftdown][key]
    <3>1. CASE c = NUL
      BY <2>1, <2>2, <3>1 DEF KeyDown
    <3>2. CASE c # NUL
      <4>1. c \in Chars
        BY <3>2 DEF Chars, TypeOK
      <4>2. /\ buffer_size < MaxAhead /\ buffer_size' = buffer_size + 1
            /\ buffer' = [buffer EXCEPT ![next_index] = c]
            /\ next_index' = advanced(next_index)
        BY <2>2, <3>2 DEF KeyDown
      <4>3. UNCHANGED last_index
        BY <2>2, <3>2, <4>2 DEF KeyDown, RingInv, Slot, TypeOK
      <4>4. \A k \in 0 .. buffer_size - 1 : Slot(k) # next_index /\ Slot(k) \in 0 .. BUFFER_SIZE - 1
        BY <4>2 DEF RingInv, Slot, TypeOK
      <4>5. \A k \in 0 .. buffer_size : buffer'[Slot(k)] \in Chars
        BY <4>1, <4>2, <4>4 DEF RingInv, TypeOK
      <4>6. next_index' = Slot(buffer_size + 1)
        BY <4>2 DEF RingInv, Slot, TypeOK, advanced
      <4> QED
        BY <4>2, <4>3, <4>5, <4>6 DEF RingInv, Slot, TypeOK
    <3> QED
      BY <3>1, <3>2
  <2>3. ASSUME NEW r \in Readers, GetKey(r) PROVE RingInv'
    <3>1. CASE ~keyboard_char_available
      BY <2>1, <2>3, <3>1 DEF GetKey, ring
    <3>2. CASE keyboard_char_available
      <4>1. /\ UNCHANGED <<buffer, next_index>> /\ buffer_size > 0
            /\ buffer_size' = buffer_size - 1 /\ last_index' = advanced(last_index)
        BY <2>3, <3>2 DEF GetKey, keyboard_char_available
      <4>2. \A k \in 0 .. buffer_size - 1 : Slot(k)' = Slot(k + 1)
        BY <4>1 DEF Slot, advanced, TypeOK, RingInv
      <4> QED
        BY <4>1, <4>2 DEF RingInv, TypeOK
    <3> QED
      BY <3>1, <3>2
  <2>4. CASE \E r \in Readers : StartRead(r) \/ KeyAvailable(r) \/ Msleep0(r)
    BY <2>1, <2>4 DEF StartRead, KeyAvailable, Msleep0
  <2>5. CASE \E down \in {0, 1} : Shift(down)
    BY <2>1, <2>5 DEF Shift
  <2>6. CASE UNCHANGED vars
    BY <2>1, <2>6 DEF vars, ring
  <2> QED
    BY <2>2, <2>3, <2>4, <2>5, <2>6 DEF Next, ReadKey
<1> QED
  BY <1>1, <1>2, TypeCorrect, PTL DEF Spec

\* Unread by its elements.
UnreadIsRing ==
    /\ Unread \in Seq(Chars)
    /\ Len(Unread) = buffer_size
    /\ \A i \in 1 .. buffer_size : Unread[i] = buffer[Slot(i - 1)]

LEMMA UnreadFacts ==
    ASSUME MaxAhead < BUFFER_SIZE, TypeOK, RingInv
    PROVE  UnreadIsRing
<1> USE KeyboardAssumption
<1>1. ASSUME NEW i \in 1 .. buffer_size
      PROVE  /\ (last_index + i - 1) % BUFFER_SIZE = Slot(i - 1)
             /\ buffer[Slot(i - 1)] \in Chars
  <2>1. /\ last_index + i - 1 \in 0 .. 2 * BUFFER_SIZE - 1
        /\ last_index + i - 1 = last_index + (i - 1)
        /\ i - 1 \in 0 .. buffer_size - 1
    BY <1>1 DEF TypeOK, RingInv
  <2>2. PICK x \in 0 .. 2 * BUFFER_SIZE - 1 : x = last_index + i - 1
    BY <2>1
  <2>3. x % BUFFER_SIZE = IF x < BUFFER_SIZE THEN x ELSE x - BUFFER_SIZE
    BY ModFacts
  <2>4. Slot(i - 1) = IF x < BUFFER_SIZE THEN x ELSE x - BUFFER_SIZE
    <3>1. x = last_index + (i - 1)
      BY <2>1, <2>2
    <3>2. last_index \in Int /\ i \in Int /\ BUFFER_SIZE \in Int
      BY DEF TypeOK
    <3> QED
      BY <3>1, <3>2 DEF Slot
  <2> QED
    BY <2>1, <2>2, <2>3, <2>4 DEF RingInv
<1>2. Unread = [i \in 1 .. buffer_size |-> buffer[Slot(i - 1)]]
  BY <1>1 DEF Unread
<1>3. Unread \in [1 .. buffer_size -> Chars]
  BY <1>1, <1>2
<1>4. buffer_size \in Nat
  BY DEF TypeOK
<1>5. Unread \in Seq(Chars) /\ Len(Unread) = buffer_size
  BY <1>3, <1>4, FunctionIsSeq
<1> QED
  BY <1>2, <1>5 DEF UnreadIsRing

\* What a key adds and what a reader takes.
LEMMA StepFacts ==
    ASSUME MaxAhead < BUFFER_SIZE, TypeOK, RingInv,
           UnreadIsRing, UnreadIsRing', [Next]_vars
    PROVE  Ahead!Next \/ UNCHANGED <<Unread, result>>
<1> USE KeyboardAssumption
<1>1. ASSUME UNCHANGED <<ring, result>> PROVE UNCHANGED <<Unread, result>>
  BY <1>1 DEF ring, Unread
<1>2. ASSUME NEW key \in Keys, KeyDown(key) PROVE Ahead!Next \/ UNCHANGED <<Unread, result>>
  <2> DEFINE c == scan_code_table[shiftdown][key]
  <2>1. CASE c = NUL
    BY <1>1, <1>2, <2>1 DEF KeyDown
  <2>2. CASE c # NUL
    <3>1. c \in Chars
      BY <2>2 DEF Chars, TypeOK
    <3>2. /\ buffer_size < MaxAhead /\ buffer_size' = buffer_size + 1
          /\ buffer' = [buffer EXCEPT ![next_index] = c] /\ UNCHANGED result
      BY <1>2, <2>2 DEF KeyDown
    <3>3. UNCHANGED last_index
      BY <1>2, <2>2, <3>2 DEF KeyDown, RingInv, Slot, TypeOK
    <3>4. \A k \in 0 .. buffer_size : Slot(k)' = Slot(k) /\ Slot(k) \in 0 .. BUFFER_SIZE - 1
      BY <3>2, <3>3 DEF Slot, TypeOK, RingInv
    <3>5. \A k \in 0 .. buffer_size - 1 : Slot(k) # next_index
      BY <3>2 DEF RingInv, Slot, TypeOK
    <3>6. \A i \in 1 .. buffer_size : Unread'[i] = Unread[i]
      <4> TAKE i \in 1 .. buffer_size
      <4>1. i - 1 \in 0 .. buffer_size - 1 /\ i \in 1 .. buffer_size'
        BY <3>2 DEF TypeOK
      <4>2. Unread[i] = buffer[Slot(i - 1)] /\ Unread'[i] = buffer'[Slot(i - 1)']
        BY <4>1 DEF UnreadIsRing
      <4>3. /\ Slot(i - 1)' = Slot(i - 1) /\ Slot(i - 1) # next_index
            /\ Slot(i - 1) \in 0 .. BUFFER_SIZE - 1
        BY <3>4, <3>5, <4>1 DEF TypeOK
      <4> QED
        BY <3>2, <4>2, <4>3 DEF TypeOK
    <3>7. Unread'[buffer_size + 1] = c
      <4>1. buffer_size + 1 \in 1 .. buffer_size' /\ (buffer_size + 1) - 1 = buffer_size
            /\ buffer_size \in 0 .. buffer_size
        BY <3>2 DEF TypeOK
      <4> QED
        BY <3>2, <3>4, <4>1 DEF TypeOK, RingInv, UnreadIsRing
    <3>8. Unread' = Append(Unread, c)
      BY <3>1, <3>2, <3>6, <3>7, IsAppend DEF UnreadIsRing
    <3> QED
      BY <3>1, <3>2, <3>8 DEF Ahead!Next, Ahead!Type
  <2> QED
    BY <2>1, <2>2
<1>3. ASSUME NEW r \in Readers, GetKey(r) PROVE Ahead!Next
  <2>1. CASE ~keyboard_char_available
    <3>1. buffer_size = 0 /\ UNCHANGED ring /\ result' = [result EXCEPT ![r] = NUL]
      BY <1>3, <2>1 DEF GetKey, keyboard_char_available, ring, TypeOK
    <3>2. Unread = <<>> /\ UNCHANGED Unread
      BY <3>1 DEF ring, Unread, UnreadIsRing
    <3> QED
      BY <3>1, <3>2 DEF Ahead!Next, Ahead!Read
  <2>2. CASE keyboard_char_available
    <3>1. /\ UNCHANGED buffer /\ buffer_size > 0 /\ buffer_size' = buffer_size - 1
          /\ last_index' = advanced(last_index)
          /\ result' = [result EXCEPT ![r] = buffer[last_index]]
      BY <1>3, <2>2 DEF GetKey, keyboard_char_available
    <3>2. \A k \in 0 .. buffer_size - 1 : Slot(k)' = Slot(k + 1)
      BY <3>1 DEF Slot, advanced, TypeOK, RingInv
    <3>3. \A i \in 1 .. buffer_size' : Unread'[i] = Unread[i + 1]
      <4> TAKE i \in 1 .. buffer_size'
      <4>1. i - 1 \in 0 .. buffer_size - 1 /\ i + 1 \in 1 .. buffer_size
            /\ (i - 1) + 1 = (i + 1) - 1
        BY <3>1 DEF TypeOK
      <4>2. /\ Unread[i + 1] = buffer[Slot((i + 1) - 1)]
            /\ Unread'[i] = buffer'[Slot(i - 1)']
        BY <4>1 DEF UnreadIsRing
      <4>3. Slot(i - 1)' = Slot((i + 1) - 1)
        BY <3>2, <4>1
      <4> QED
        BY <3>1, <4>2, <4>3
    <3>4. Len(Unread) = Len(Unread') + 1
      BY <3>1 DEF TypeOK, UnreadIsRing
    <3>5. Unread # <<>> /\ Head(Unread) = Unread[1] /\ Unread' = Tail(Unread)
      BY <3>3, <3>4, IsTail DEF UnreadIsRing
    <3>6. Unread[1] = buffer[last_index]
      BY <3>1 DEF Slot, TypeOK, UnreadIsRing
    <3> QED
      BY <3>1, <3>5, <3>6 DEF Ahead!Next, Ahead!Read
  <2> QED
    BY <2>1, <2>2
<1>4. CASE \E r \in Readers : StartRead(r) \/ KeyAvailable(r) \/ Msleep0(r)
  BY <1>1, <1>4 DEF StartRead, KeyAvailable, Msleep0
<1>5. CASE \E down \in {0, 1} : Shift(down)
  BY <1>1, <1>5 DEF Shift
<1>6. CASE UNCHANGED vars
  BY <1>1, <1>6 DEF vars, ring
<1> QED
  BY <1>2, <1>3, <1>4, <1>5, <1>6 DEF Next, ReadKey

\* The ring buffer implements a FIFO queue, as long as fewer characters are unread
\* than it has slots: no character is lost, doubled or handed out early, although
\* both indices wrap on their own.
THEOREM InOrder ==
    ASSUME MaxAhead < BUFFER_SIZE PROVE Spec => KeysInOrder
<1>1. Init => Ahead!Init
  BY DEF Init, Ahead!Init, Unread
<1>2. TypeOK /\ RingInv /\ UnreadIsRing /\ UnreadIsRing' /\ [Next]_vars
      => [Ahead!Next]_<<Unread, result>>
  BY StepFacts
<1>3. TypeOK /\ RingInv => UnreadIsRing
  BY UnreadFacts
<1> QED
  BY <1>1, <1>2, <1>3, TypeCorrect, RingHolds, PTL DEF Spec, KeysInOrder, Ahead!Spec

-----------------------------------------------------------------------------
(* A single reader *)

\* The only reader that has seen a character still finds it.
SeenIsThere == \A r \in Readers : pc[r] = "get_key" => buffer_size > 0

\* With one reader read_key never returns '\0': nobody else can take the character
\* between its two system calls, and the interrupt handler only adds more.
THEOREM Blocks ==
    ASSUME MaxAhead < BUFFER_SIZE,
           \A r, s \in Readers : r = s
    PROVE  Spec => ReadKeyBlocks
<1> USE KeyboardAssumption
<1>1. Init => SeenIsThere
  BY DEF Init, SeenIsThere
<1>2. TypeOK /\ SeenIsThere /\ [Next]_vars => SeenIsThere'
  <2> SUFFICES ASSUME TypeOK, SeenIsThere, [Next]_vars PROVE SeenIsThere'
    OBVIOUS
  <2>1. CASE \E down \in {0, 1} : Shift(down)
    BY <2>1 DEF Shift, ring, SeenIsThere
  <2>2. CASE \E key \in Keys : KeyDown(key)
    BY <2>2 DEF KeyDown, ring, SeenIsThere, TypeOK
  <2>3. ASSUME NEW r \in Readers, StartRead(r) \/ Msleep0(r) PROVE SeenIsThere'
    BY <2>3 DEF StartRead, Msleep0, Goto, ring, SeenIsThere, TypeOK
  <2>4. ASSUME NEW r \in Readers, KeyAvailable(r) PROVE SeenIsThere'
    BY <2>4 DEF KeyAvailable, keyboard_char_available, Goto, ring, SeenIsThere, TypeOK
  <2>5. ASSUME NEW r \in Readers, GetKey(r) PROVE SeenIsThere'
    <3>1. \A s \in Readers : pc'[s] = "away"
      BY <2>5 DEF GetKey, Goto, TypeOK
    <3> QED
      BY <3>1 DEF SeenIsThere
  <2>6. CASE UNCHANGED vars
    BY <2>6 DEF vars, SeenIsThere
  <2> QED
    BY <2>1, <2>2, <2>3, <2>4, <2>5, <2>6 DEF Next, ReadKey
<1>3. TypeOK /\ RingInv /\ SeenIsThere /\ [Next]_vars =>
        [\A r \in Readers :
            (pc[r] = "get_key" /\ pc'[r] = "away") => result'[r] # NUL]_vars
  <2> SUFFICES ASSUME TypeOK, RingInv, SeenIsThere, [Next]_vars, NEW r \in Readers,
                      pc[r] = "get_key", pc'[r] = "away"
               PROVE  result'[r] # NUL
    OBVIOUS
  <2>1. GetKey(r)
    <3>1. ASSUME NEW s \in Readers, StartRead(s) \/ KeyAvailable(s) \/ Msleep0(s)
          PROVE  FALSE
      BY <3>1 DEF StartRead, KeyAvailable, Msleep0
    <3> QED
      BY <3>1 DEF Next, ReadKey, Shift, KeyDown, vars
  <2>2. keyboard_char_available /\ buffer_size > 0
    BY DEF SeenIsThere, keyboard_char_available
  <2>3. result'[r] = buffer[last_index]
    BY <2>1, <2>2 DEF GetKey, TypeOK
  <2>4. Slot(0) = last_index /\ 0 \in 0 .. buffer_size - 1
    BY <2>2 DEF Slot, TypeOK
  <2>5. buffer[last_index] \in Chars
    BY <2>4 DEF RingInv
  <2> QED
    BY <2>3, <2>5 DEF Chars
<1> QED
  BY <1>1, <1>2, <1>3, TypeCorrect, RingHolds, PTL DEF Spec, ReadKeyBlocks
=============================================================================
