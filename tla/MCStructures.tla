---------------------------- MODULE MCStructures ----------------------------
(***************************************************************************)
(* The kernel's containers.  They share nothing, so a behaviour is one of  *)
(* the scheduler's queues and their nodes, or of a linked list.            *)
(***************************************************************************)
EXTENDS LinkedList, NodeQueues

VARIABLE part       \* "queues" or "list"

StructuresInit ==
    /\ part \in {"queues", "list"}
    /\ null_destroy \in IF part = "list" THEN BOOLEAN ELSE {FALSE}
    /\ Init /\ QueuesInit

StructuresNext ==
    \/ part = "queues" /\ QueuesNext /\ UNCHANGED <<part, vars>>
    \/ part = "list" /\ Next /\ UNCHANGED <<part, queues_vars>>

StructuresSpec == StructuresInit /\ [][StructuresNext]_<<part, queues_vars, vars>>
=============================================================================
