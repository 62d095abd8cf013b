---------------------------- MODULE AddressSpaces ----------------------------
(***************************************************************************)
(* What paging.c promises: every process has pages of its own that only    *)
(* its own steps change, and all see the same kernel pages.                *)
(***************************************************************************)
CONSTANTS
    Procs,          \* slots for processes
    UserAddrs,      \* virtual pages of 4KiB in the lower half
    KernelAddrs,    \* and in the upper half
    Regions,        \* the sets of addresses that are mapped at once
    NoPage,         \* nothing is mapped
    Contents,       \* what a page can hold
    Parent, Child   \* two of these: what fork leaves

Pages == [holds : Contents, user : BOOLEAN] \cup {NoPage}
Empty == [a \in UserAddrs |-> NoPage]

VARIABLES
    live,           \* the slots in use
    view,           \* what each process finds at each address
    kernel          \* what all of them find in the upper half

vars == <<live, view, kernel>>

Init ==
    /\ live = {}
    /\ view = [p \in Procs |-> Empty]
    /\ kernel \in [KernelAddrs -> Pages]

\* g is f with new pages, of any contents, at the addresses A.
Adds(f, g, A, user) ==
    /\ \A a \in A : f[a] = NoPage /\ g[a] # NoPage /\ g[a].user = user
    /\ \A a \in DOMAIN f \ A : g[a] = f[a]

Map(p, A, user) ==
    /\ p \in live /\ UNCHANGED live
    /\ A \subseteq UserAddrs
    /\ Adds(view[p], view'[p], A, user)
    /\ view' = [view EXCEPT ![p] = view'[p]]
    /\ UNCHANGED kernel

MapKernel(A, user) ==
    /\ live = {} /\ UNCHANGED live
    /\ A \subseteq KernelAddrs
    /\ Adds(kernel, kernel', A, user)
    /\ UNCHANGED view

Unmap(p, A) ==
    /\ p \in live /\ UNCHANGED live
    /\ A \subseteq UserAddrs
    /\ \A a \in A : view[p][a] # NoPage
    /\ view' = [view EXCEPT ![p] = [a \in UserAddrs |->
                    IF a \in A THEN NoPage ELSE @[a]]]
    /\ UNCHANGED kernel

\* A process changes a page it may use; nobody else sees it.
Write(p, a) ==
    /\ p \in live /\ UNCHANGED live
    /\ view[p][a] # NoPage /\ view[p][a].user
    /\ view'[p][a].holds \in Contents
    /\ view' = [view EXCEPT ![p][a].holds = view'[p][a].holds]
    /\ UNCHANGED kernel

\* A process with an empty lower half
Create(p) ==
    /\ p \notin live
    /\ live' = live \cup {p}
    /\ UNCHANGED <<view, kernel>>

\* The child gets a copy of every page; at address a parent and child are told
\* which of the two they are.
Fork(p, child, a) ==
    /\ p \in live /\ child \notin live
    /\ live' = live \cup {child}
    /\ view[p][a] # NoPage
    /\ view' = [view EXCEPT ![p][a].holds = Parent,
                            ![child] = [view[p] EXCEPT ![a].holds = Child]]
    /\ UNCHANGED kernel

Reset(p) ==
    /\ p \in live /\ UNCHANGED live
    /\ view' = [view EXCEPT ![p] = Empty]
    /\ UNCHANGED kernel

Exit(p) ==
    /\ p \in live
    /\ live' = live \ {p}
    /\ view' = [view EXCEPT ![p] = Empty]
    /\ UNCHANGED kernel

Next ==
    \/ \E p \in Procs :
          \/ \E a \in UserAddrs : Write(p, a) \/ \E child \in Procs : Fork(p, child, a)
          \/ \E A \in Regions : Unmap(p, A) \/ \E u \in BOOLEAN : Map(p, A, u)
          \/ Create(p) \/ Reset(p) \/ Exit(p)
    \/ \E A \in Regions, u \in BOOLEAN : MapKernel(A, u)

Spec == Init /\ [][Next]_vars
=============================================================================
