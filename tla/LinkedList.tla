----------------------------- MODULE LinkedList -----------------------------
(***************************************************************************)
(* The doubly linked list (linkedlist.c) of the PCI and sound drivers: its *)
(* nodes, what its allocator has left, and the faults of a call that       *)
(* follows a null pointer.                                                 *)
(***************************************************************************)
EXTENDS Naturals, Sequences, SequencesExt

CONSTANTS
    Nodes, Data,
    NULL

ASSUME LinkedListAssumption == NULL \notin Nodes \cup Data

VARIABLES
    node,               \* the nodes' fields
    head, tail, size,   \* the linked_list_t
    null_destroy,       \* list_init was given no destroy function
    allocated,          \* what ram_alloc gave out and destroy did not take back
    at                  \* "live", "destroyed", or the null pointer that was used:
                        \* "null element" or "null destroy"

vars == <<node, head, tail, size, null_destroy, allocated, at>>

Node == [data : Data \cup {NULL}, next : Nodes \cup {NULL}, prev : Nodes \cup {NULL}]
Cleared == [data |-> NULL, next |-> NULL, prev |-> NULL]

\* list_init
Init ==
    /\ node = [n \in Nodes |-> Cleared]
    /\ head = NULL /\ tail = NULL /\ size = 0
    /\ null_destroy \in BOOLEAN
    /\ allocated = {}
    /\ at = "live"

\* The nodes from the head on.  The call of a null destroy function stops
\* list_remove_next between unlinking the node and counting it.
Length == IF at = "null destroy" THEN size - 1 ELSE size
InOrder ==
    LET nth[k \in 1 .. Length] == IF k = 1 THEN head ELSE node[nth[k - 1]].next IN nth
Elements == {InOrder[k] : k \in 1 .. Length}

Faulted == at \in {"null element", "null destroy"}

-----------------------------------------------------------------------------
\* Mutant: the first element is not made the tail.
InsertHead_no_tail(new, data) ==
    /\ head' = new
    /\ node' = [n \in Nodes |->
                    IF n = new THEN [data |-> data, next |-> head, prev |-> NULL]
                    ELSE IF n = head THEN [node[n] EXCEPT !.prev = new] ELSE node[n]]
    /\ UNCHANGED tail

\* The branch of list_insert_next for the head of the list
InsertHead(new, data) ==
    /\ head' = new
    /\ tail' = IF size = 0 THEN new ELSE tail
    /\ node' = [n \in Nodes |->
                    IF n = new THEN [data |-> data, next |-> head, prev |-> NULL]
                    ELSE IF n = head THEN [node[n] EXCEPT !.prev = new] ELSE node[n]]

\* The branch for an element that has a successor
InsertAfter(element, new, data) ==
    /\ node' = [node EXCEPT ![new] = [data |-> data, next |-> node[element].next, prev |-> element],
                            ![element].next = new,
                            ![node[element].next].prev = new]
    /\ UNCHANGED <<head, tail>>

\* list_insert_next; when memory is out it returns -1.  Behind the tail it makes
\* the new node the tail and then writes through the tail's next, which is NULL.
list_insert_next(element, data) ==
    /\ at = "live" /\ allocated # Nodes
    /\ \E new \in Nodes \ allocated :
        /\ allocated' = allocated \cup {new}
        /\ \/ element = NULL /\ InsertHead(new, data) /\ size' = size + 1 /\ UNCHANGED at
           \/ /\ element # NULL /\ node[element].next # NULL
              /\ InsertAfter(element, new, data) /\ size' = size + 1 /\ UNCHANGED at
           \/ /\ element # NULL /\ node[element].next = NULL
              /\ node' = [node EXCEPT ![new] = [data |-> data, next |-> NULL, prev |-> element]]
              /\ tail' = new
              /\ at' = "null element" /\ UNCHANGED <<head, size>>
    /\ UNCHANGED null_destroy

Freed(n) == allocated \ {n}

\* Mutant: the element itself is removed.
Removed_element(element) == IF element = NULL THEN head ELSE element
Removed(element) == IF element = NULL THEN head ELSE node[element].next

\* list_remove_next, which returns -1 on an empty list and on the tail.  The node
\* itself is passed to destroy, whether or not there is one.
list_remove_next(element) ==
    /\ at = "live" /\ size # 0
    /\ element # NULL => node[element].next # NULL
    /\ LET old == Removed(element)
           rest == node[old].next
       IN  /\ head' = IF element = NULL THEN rest ELSE head
           /\ tail' = IF element = NULL THEN (IF size = 1 THEN NULL ELSE tail)
                      ELSE IF rest = NULL THEN element ELSE tail
           /\ LET kept == IF element = NULL THEN node ELSE [node EXCEPT ![element].next = rest]
              IN  IF null_destroy
                  THEN node' = kept /\ at' = "null destroy" /\ UNCHANGED <<size, allocated>>
                  ELSE /\ node' = [kept EXCEPT ![old] = Cleared]
                       /\ allocated' = Freed(old)
                       /\ size' = size - 1 /\ UNCHANGED at
    /\ UNCHANGED null_destroy

\* list_destroy: list_remove_next on the head until the list is empty.  (The data,
\* which it gives to destroy as well, belongs to the caller.)
list_destroy ==
    /\ at = "live"
    /\ IF size > 0 /\ null_destroy
       THEN /\ head' = node[head].next /\ tail' = IF size = 1 THEN NULL ELSE tail
            /\ at' = "null destroy" /\ UNCHANGED <<node, size, allocated>>
       ELSE /\ node' = [n \in Nodes |-> IF n \in Elements THEN Cleared ELSE node[n]]
            /\ allocated' = allocated \ Elements
            /\ head' = NULL /\ tail' = NULL /\ size' = 0
            /\ at' = "destroyed"
    /\ UNCHANGED null_destroy

\* "list_init() should be called before using the list again."
list_init ==
    /\ at = "destroyed" /\ at' = "live"
    /\ null_destroy' \in BOOLEAN
    /\ UNCHANGED <<node, head, tail, size, allocated>>

Next ==
    \/ \E element \in Elements \cup {NULL}, data \in Data : list_insert_next(element, data)
    \/ \E element \in Elements \cup {NULL} : list_remove_next(element)
    \/ list_destroy
    \/ list_init

Spec == Init /\ [][Next]_vars
-----------------------------------------------------------------------------
\* Every variable has its type, and the nodes that are in use are those of the
\* list: none is leaked or freed while it is linked.
TypeOK ==
    /\ node \in [Nodes -> Node]
    /\ {head, tail} \subseteq Nodes \cup {NULL}
    /\ size \in Nat /\ null_destroy \in BOOLEAN
    /\ at \in {"live", "destroyed"} \/ Faulted
    /\ ~Faulted => allocated = Elements

\* From the head on there are size different nodes, the last of which is the
\* tail and ends the list.  After the call of a null destroy function this still
\* holds of the nodes that are left, one fewer than size.
Linked ==
    /\ TypeOK
    /\ at # "null element" =>
        IF Length = 0 THEN head = NULL /\ tail = NULL
        ELSE /\ IsInjective(InOrder)
             /\ InOrder[Length] = tail /\ node[tail].next = NULL

\* The list implements the sequence, and every call is the operation of that name on
\* it, at the place of the element the caller gave: list_insert_next puts a new
\* element with the data right behind it, list_remove_next takes out the one right
\* behind it.  The calls that fault included: the insertion leaves the sequence as
\* it was, the removal has unlinked the element.
contents == [k \in 1 .. Length |-> [element |-> InOrder[k], data |-> node[InOrder[k]].data]]
Abstract == INSTANCE ListSpec WITH list <- contents
CallsAgree ==
    /\ \A element \in Elements \cup {NULL}, data \in Data :
        list_insert_next(element, data) =>
            IF at' = "live" THEN Abstract!InsertNext(element, data) ELSE UNCHANGED contents
    /\ \A element \in Elements \cup {NULL} :
        list_remove_next(element) => Abstract!RemoveNext(element)
    /\ list_destroy =>
        IF at' = "destroyed" THEN Abstract!Destroy ELSE Abstract!RemoveNext(NULL)
IsSequence == Abstract!Spec /\ [][CallsAgree]_vars
=============================================================================
