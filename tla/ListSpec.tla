------------------------------ MODULE ListSpec ------------------------------
(* What linkedlist.h promises: a sequence of elements with their data, which *)
(* is changed right behind the element given, or at the head when there is   *)
(* none.                                                                     *)
EXTENDS Sequences, SequencesExt, Naturals

CONSTANTS Nodes, Data, NULL

VARIABLE list       \* a sequence of [element, data]

Init == list = <<>>

\* The element in place k; before the head there is none.
At(k, element) == IF k = 0 THEN element = NULL ELSE list[k].element = element

New == Nodes \ {list[k].element : k \in 1 .. Len(list)}

InsertNext(element, data) ==
    \E k \in 0 .. Len(list), new \in New :
        At(k, element) /\ list' = InsertAt(list, k + 1, [element |-> new, data |-> data])

RemoveNext(element) ==
    \E k \in 0 .. Len(list) - 1 : At(k, element) /\ list' = RemoveAt(list, k + 1)

Destroy == list' = <<>>

Next ==
    \/ \E element \in Nodes \cup {NULL} :
        RemoveNext(element) \/ \E data \in Data : InsertNext(element, data)
    \/ Destroy

Spec == Init /\ [][Next]_list
=============================================================================
