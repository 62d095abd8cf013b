------------------------------ MODULE TypeAhead ------------------------------
(***************************************************************************)
(* What the keyboard buffer promises: characters are handed to the readers *)
(* in the order in which they were typed, each of them once.               *)
(***************************************************************************)
EXTENDS Sequences

CONSTANTS Chars, Readers, NUL

VARIABLES
    pending,    \* typed and not yet read
    result      \* what each reader was given last

Init ==
    /\ pending = <<>>
    /\ result = [r \in Readers |-> NUL]

Type(c) ==
    /\ pending' = Append(pending, c)
    /\ UNCHANGED result

Read(r) ==
    /\ IF pending = <<>>
       THEN result' = [result EXCEPT ![r] = NUL] /\ UNCHANGED pending
       ELSE /\ result' = [result EXCEPT ![r] = Head(pending)]
            /\ pending' = Tail(pending)

Next == (\E c \in Chars : Type(c)) \/ (\E r \in Readers : Read(r))

Spec == Init /\ [][Next]_<<pending, result>>
=============================================================================
