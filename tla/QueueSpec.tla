------------------------------ MODULE QueueSpec ------------------------------
(***************************************************************************)
(* What the scheduler needs of its queues and their node allocator: FIFO   *)
(* queues and queues of numbers in order, together holding at most         *)
(* Capacity elements; queueing fails only when all nodes are in queues.    *)
(***************************************************************************)
EXTENDS Naturals, Sequences, FiniteSets

CONSTANTS
    QueueIds,
    Ordered,        \* those of them that are kept in order
    Items, Capacity

VARIABLES contents, failed

Init ==
    /\ contents = [q \in QueueIds |-> <<>>]
    /\ failed = FALSE

\* The places in the queues
InUse == Cardinality(UNION {{q} \X DOMAIN contents[q] : q \in QueueIds})

Put(q, x) ==
    /\ ~failed /\ InUse < Capacity
    /\ contents' = [contents EXCEPT ![q] = Append(@, x)]
    /\ UNCHANGED failed

\* x goes somewhere between the smaller and the larger elements.
PutInOrder(q, x) ==
    /\ ~failed /\ InUse < Capacity
    /\ \E n \in 0 .. Len(contents[q]) :
          /\ \A i \in 1 .. Len(contents[q]) :
                IF i <= n THEN contents[q][i] <= x
                ELSE x <= contents[q][i]
          /\ contents' = [contents EXCEPT ![q] =
                SubSeq(@, 1, n) \o <<x>> \o SubSeq(@, n + 1, Len(@))]
    /\ UNCHANGED failed

Take(q) ==
    /\ ~failed
    /\ contents[q] # <<>>
    /\ contents' = [contents EXCEPT ![q] = Tail(@)]
    /\ UNCHANGED failed

Fail ==
    /\ InUse = Capacity
    /\ failed' = TRUE
    /\ UNCHANGED contents

Next ==
    \/ \E q \in QueueIds \ Ordered, x \in Items : Put(q, x)
    \/ \E q \in Ordered, x \in Items : PutInOrder(q, x)
    \/ \E q \in QueueIds : Take(q)
    \/ Fail

Spec == Init /\ [][Next]_<<contents, failed>>
=============================================================================
