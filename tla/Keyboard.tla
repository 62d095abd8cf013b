------------------------------ MODULE Keyboard ------------------------------
(***************************************************************************)
(* The keyboard driver (keyboard.c) and the processes that read from it    *)
(* with read_key (ulib.c, through the system calls key_avail and get_key). *)
(* The interrupt handler and each system call run with interrupts          *)
(* disabled; the two calls of a read_key are separate, and another reader  *)
(* may run between them.                                                   *)
(***************************************************************************)
EXTENDS Naturals, Sequences

CONSTANTS
    BUFFER_SIZE,        \* 256 in the code
    Keys,               \* the keys other than shift and control
    scan_code_table,    \* [{0, 1} -> [Keys -> characters, or NUL for no character]]
    NUL,                \* '\0'
    Readers,            \* the processes that call read_key
    MaxAhead            \* workload bound: keys are pressed only below this many
                        \* unread characters

ASSUME KeyboardAssumption ==
    /\ BUFFER_SIZE \in Nat \ {0}
    /\ MaxAhead \in Nat
    /\ DOMAIN scan_code_table = {0, 1}
    /\ \A s \in {0, 1} : DOMAIN scan_code_table[s] = Keys

Chars == {scan_code_table[s][k] : s \in {0, 1}, k \in Keys} \ {NUL}

VARIABLES
    buffer, next_index, last_index, buffer_size,    \* as in keyboard.c
    shiftdown,
    pc,         \* where each reader is: "away", or in read_key before one of
                \* its calls, "key_available", "msleep" or "get_key"
    result      \* what read_key returned last

vars == <<buffer, next_index, last_index, buffer_size, shiftdown, pc, result>>
ring == <<buffer, next_index, last_index, buffer_size>>

Init ==
    /\ buffer = [i \in 0 .. BUFFER_SIZE - 1 |-> NUL]
    /\ next_index = 0
    /\ last_index = 0
    /\ buffer_size = 0
    /\ shiftdown = 0
    /\ pc = [r \in Readers |-> "away"]
    /\ result = [r \in Readers |-> NUL]

-----------------------------------------------------------------------------
(* keyboard_handler and check_scan_code *)

Shift(down) ==
    /\ shiftdown' = down
    /\ UNCHANGED <<ring, pc, result>>

\* The index after i
advanced(i) == IF i + 1 >= BUFFER_SIZE THEN 0 ELSE i + 1

\* A key is pressed.  The test for a full buffer is made only when next_index
\* wraps, and buffer_size has no limit.  A key without a character does nothing;
\* neither do releases and control, whose ctrl_mask is never read.
KeyDown(key) ==
    /\ buffer_size < MaxAhead
    /\ IF scan_code_table[shiftdown][key] = NUL
       THEN UNCHANGED ring
       ELSE /\ buffer' = [buffer EXCEPT ![next_index] = scan_code_table[shiftdown][key]]
            /\ buffer_size' = buffer_size + 1
            /\ next_index' = advanced(next_index)
            /\ last_index' = IF next_index + 1 >= BUFFER_SIZE /\ last_index = 0
                             THEN (last_index + 1) % BUFFER_SIZE ELSE last_index
    /\ UNCHANGED <<shiftdown, pc, result>>

-----------------------------------------------------------------------------
(* read_key and its system calls *)

Goto(r, place) == pc' = [pc EXCEPT ![r] = place]

StartRead(r) ==
    /\ pc[r] = "away"
    /\ Goto(r, "key_available")
    /\ UNCHANGED <<ring, shiftdown, result>>

\* Mutant: a single character is not noticed.
char_available_late == buffer_size > 1

keyboard_char_available == buffer_size > 0

\* Mutant: the answer of key_available is ignored.
KeyAvailableIgnored(r) ==
    /\ pc[r] = "key_available"
    /\ Goto(r, "get_key")
    /\ UNCHANGED <<ring, shiftdown, result>>

KeyAvailable(r) ==
    /\ pc[r] = "key_available"
    /\ Goto(r, IF keyboard_char_available THEN "get_key" ELSE "msleep")
    /\ UNCHANGED <<ring, shiftdown, result>>

\* msleep(0) gives the other processes the CPU.
Msleep0(r) ==
    /\ pc[r] = "msleep"
    /\ Goto(r, "key_available")
    /\ UNCHANGED <<ring, shiftdown, result>>

\* Mutant: the oldest character is read but stays in the buffer's count.
GetKeyNotCounted(r) ==
    /\ pc[r] = "get_key"
    /\ Goto(r, "away")
    /\ result' = [result EXCEPT ![r] = buffer[last_index]]
    /\ last_index' = advanced(last_index)
    /\ UNCHANGED <<buffer, next_index, buffer_size, shiftdown>>

\* keyboard_get_char
GetKey(r) ==
    /\ pc[r] = "get_key"
    /\ Goto(r, "away")
    /\ IF ~keyboard_char_available
       THEN /\ result' = [result EXCEPT ![r] = NUL]
            /\ UNCHANGED <<buffer_size, last_index>>
       ELSE /\ result' = [result EXCEPT ![r] = buffer[last_index]]
            /\ buffer_size' = buffer_size - 1
            /\ last_index' = advanced(last_index)
    /\ UNCHANGED <<buffer, next_index, shiftdown>>

ReadKey(r) == KeyAvailable(r) \/ Msleep0(r) \/ GetKey(r)

Next ==
    \/ \E down \in {0, 1} : Shift(down)
    \/ \E key \in Keys : KeyDown(key)
    \/ \E r \in Readers : StartRead(r) \/ ReadKey(r)

Spec == Init /\ [][Next]_vars

\* A reader inside read_key is scheduled again and again.
FairSpec == Spec /\ \A r \in Readers : WF_vars(ReadKey(r))

-----------------------------------------------------------------------------
\* Every variable has its type; both indices lie inside the buffer.
TypeOK ==
    /\ buffer \in [0 .. BUFFER_SIZE - 1 -> Chars \cup {NUL}]
    /\ next_index \in 0 .. BUFFER_SIZE - 1
    /\ last_index \in 0 .. BUFFER_SIZE - 1
    /\ buffer_size \in Nat
    /\ shiftdown \in {0, 1}
    /\ pc \in [Readers -> {"away", "key_available", "msleep", "get_key"}]
    /\ result \in [Readers -> Chars \cup {NUL}]

\* The unread characters, oldest first
Unread == [i \in 1 .. buffer_size |-> buffer[(last_index + i - 1) % BUFFER_SIZE]]

Ahead == INSTANCE TypeAhead WITH pending <- Unread

\* The ring buffer is a FIFO queue of the characters typed, as long as fewer
\* than BUFFER_SIZE are unread.  (next_index and last_index wrap on their own,
\* and last_index is also moved by the handler.)
KeysInOrder == Ahead!Spec

\* read_key blocks: it returns a character that was typed, never '\0'.
ReadKeyBlocks ==
    [][\A r \in Readers :
          (pc[r] = "get_key" /\ pc'[r] = "away") => result'[r] # NUL]_vars

\* A reader that waits while a character is there, or waits until one comes,
\* gets one, if nobody else takes it.
ReaderServed ==
    \A r \in Readers :
        (pc[r] # "away" /\ buffer_size > 0) ~> (pc[r] = "away" \/ buffer_size = 0)
=============================================================================
