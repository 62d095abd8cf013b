----------------------------- MODULE NodeQueues -----------------------------
(***************************************************************************)
(* The memory under the scheduler's queues: queue.c, block.c and stack.c.  *)
(* Queue nodes come from a BlockAllocator; the first word of a node is the *)
(* next pointer of the queue it is in, and of the allocator's free stack   *)
(* once it has been freed.  Each operator is the C function of that name   *)
(* and returns what the function writes; each action is what the scheduler *)
(* does in one go with interrupts disabled.                                *)
(***************************************************************************)
EXTENDS Naturals, Sequences, FiniteSetsExt

CONSTANTS
    NumNodes,       \* the number of blocks of ba_qnodes
    ReadyQueues,    \* the FIFO queues
    SleepQueue,     \* the queue queue_enqueue_prio is used for
    Items,          \* what nodes point to; compared as numbers
    MaxSorted       \* workload bound: queue_enqueue_prio only below this size

ASSUME NodeAssumption ==
    /\ NumNodes \in Nat
    /\ SleepQueue \notin ReadyQueues
    /\ Items \subseteq Nat
    /\ MaxSorted \in Nat

Blocks == 1 .. NumNodes
Null == 0       \* the NULL of the code
QueueIds == ReadyQueues \cup {SleepQueue}

VARIABLES
    next,       \* the first word of each block
    data,       \* the second word, of a QueueNode
    ba,         \* the BlockAllocator: free_stack's top and size, implicit_next
    queues,     \* head, tail and size of each Queue
    failed      \* an allocation returned NULL and the assertion failed

queues_vars == <<next, data, ba, queues, failed>>

\* block_init, stack_init and queue_init.  Blocks hold garbage at first; that
\* it is Null here does not matter, no function reads it.
QueuesInit ==
    /\ next = [n \in Blocks |-> Null]
    /\ data = [n \in Blocks |-> 0]
    /\ ba = [top |-> Null, size |-> 0, implicit_next |-> 1]
    /\ queues = [q \in QueueIds |-> [head |-> Null, tail |-> Null, size |-> 0]]
    /\ failed = FALSE

-----------------------------------------------------------------------------
(* block.c and stack.c *)

\* block_alloc: the block returned
allocated_block ==
    IF ba.size # 0 THEN ba.top
    ELSE IF ba.implicit_next <= NumNodes THEN ba.implicit_next ELSE Null

\* Mutant: stack_pop leaves the top where it is.
block_alloc_no_pop ==
    IF ba.size # 0
    THEN [ba EXCEPT !.size = @ - 1]
    ELSE [ba EXCEPT !.implicit_next = @ + 1]

\* block_alloc and stack_pop: the allocator after a block has been returned
block_alloc ==
    IF ba.size # 0
    THEN [ba EXCEPT !.top = next[ba.top], !.size = @ - 1]
    ELSE [ba EXCEPT !.implicit_next = @ + 1]

\* block_free and stack_push: the allocator, and the link stored in the block
block_free(node) == [ba EXCEPT !.top = node, !.size = @ + 1]

free_link == IF ba.size = 0 THEN Null ELSE ba.top

-----------------------------------------------------------------------------
(* queue.c.  mem is the next pointers, q a Queue. *)

\* Linking node behind the tail, which is not read when the queue is empty
linked_last(mem, q, node) ==
    IF q.size = 0 THEN [mem EXCEPT ![node] = Null]
    ELSE [mem EXCEPT ![node] = Null, ![q.tail] = node]

\* queue_enqueue
queue_enqueue(q, node) ==
    [head |-> IF q.size = 0 THEN node ELSE q.head,
     tail |-> node, size |-> q.size + 1]

\* The nodes found by following next from head, in order
list(mem, q) ==
    LET nth[i \in 1 .. NumNodes + 1] ==
            IF i = 1 THEN q.head
            ELSE IF nth[i - 1] = Null THEN Null ELSE mem[nth[i - 1]]
        length == IF q.head = Null THEN 0
                  ELSE Max({i \in 1 .. NumNodes + 1 : nth[i] # Null})
    IN  [i \in 1 .. length |-> nth[i]]

\* queue_enqueue_prio with a comparison that has no side effects: other is the
\* first node whose key is not smaller, Null when the walk fell off the list.
other(mem, q, x) ==
    LET nodes == list(mem, q)
        found == {i \in DOMAIN nodes : ~(x > data[nodes[i]])}
    IN  IF found = {} THEN Null ELSE nodes[Min(found)]

\* Mutant: the new head forgets the rest of the list.
prio_next_truncated(q, node, o) ==
    IF o = Null THEN [next EXCEPT ![node] = Null, ![q.tail] = node]
    ELSE IF o = q.head THEN [next EXCEPT ![node] = Null]
    ELSE [next EXCEPT ![node] = next[o], ![o] = node]

\* The next pointers queue_enqueue_prio writes, and the Queue
prio_next(q, node, o) ==
    IF o = Null THEN [next EXCEPT ![node] = Null, ![q.tail] = node]
    ELSE IF o = q.head THEN [next EXCEPT ![node] = q.head]
    ELSE [next EXCEPT ![node] = next[o], ![o] = node]

prio_queue(q, node, o) ==
    [head |-> IF o = q.head THEN node ELSE q.head,
     tail |-> IF o = Null THEN node ELSE q.tail,
     size |-> q.size + 1]

\* queue_dequeue
queue_dequeue(q) == [q EXCEPT !.head = next[q.head], !.size = @ - 1]

-----------------------------------------------------------------------------
(* What scheduler.c does with them *)

\* schedule: no block is left, and ASSERT(node != NULL) stops the kernel.
AllocationFails ==
    /\ ~failed
    /\ allocated_block = Null
    /\ failed' = TRUE
    /\ UNCHANGED <<next, data, ba, queues>>

\* schedule of a READY process
ScheduleReady(id, x) ==
    /\ ~failed
    /\ allocated_block # Null
    /\ LET node == allocated_block
           q == queues[id]
       IN  /\ ba' = block_alloc
           /\ data' = [data EXCEPT ![node] = x]
           /\ next' = linked_last(next, q, node)
           /\ queues' = [queues EXCEPT ![id] = queue_enqueue(q, node)]
    /\ UNCHANGED failed

\* schedule of a SLEEPING process
ScheduleSleeping(x) ==
    /\ ~failed
    /\ allocated_block # Null
    /\ queues[SleepQueue].size < MaxSorted
    /\ LET node == allocated_block
           q == queues[SleepQueue]
           o == other(next, q, x)
       IN  /\ ba' = block_alloc
           /\ data' = [data EXCEPT ![node] = x]
           /\ IF q.size = 0
              THEN /\ next' = linked_last(next, q, node)
                   /\ queues' = [queues EXCEPT ![SleepQueue] = queue_enqueue(q, node)]
              ELSE /\ next' = prio_next(q, node, o)
                   /\ queues' = [queues EXCEPT ![SleepQueue] = prio_queue(q, node, o)]
    /\ UNCHANGED failed

\* dispatch and get_next_sleep: the first node is dequeued and freed.
DequeueAndFree(id) ==
    /\ ~failed
    /\ queues[id].size # 0
    /\ queues' = [queues EXCEPT ![id] = queue_dequeue(@)]
    /\ ba' = block_free(queues[id].head)
    /\ next' = [next EXCEPT ![queues[id].head] = free_link]
    /\ UNCHANGED <<data, failed>>

QueuesNext ==
    \/ AllocationFails
    \/ \E id \in ReadyQueues, x \in Items : ScheduleReady(id, x)
    \/ \E x \in Items : ScheduleSleeping(x)
    \/ \E id \in QueueIds : DequeueAndFree(id)

QueuesSpec == QueuesInit /\ [][QueuesNext]_queues_vars

-----------------------------------------------------------------------------
\* Every variable has the type of its C declaration.
QueuesTypeOK ==
    /\ next \in [Blocks -> Blocks \cup {Null}]
    /\ data \in [Blocks -> Items \cup {0}]
    /\ ba \in [top : Blocks \cup {Null}, size : 0 .. NumNodes,
               implicit_next : 1 .. NumNodes + 1]
    /\ queues \in [QueueIds -> [head : Blocks \cup {Null}, tail : Blocks \cup {Null},
                                size : 0 .. NumNodes]]
    /\ failed \in BOOLEAN

\* The free stack, as a list that is followed for size steps
free_nodes ==
    LET whole == list(next, [head |-> ba.top])
    IN  IF ba.size <= Len(whole) THEN SubSeq(whole, 1, ba.size) ELSE <<Null>>

Members(seq) == {seq[i] : i \in DOMAIN seq}

\* Each node is in one place: in one queue, once; on the free stack, once; or
\* beyond implicit_next.  Sizes agree with lists, and the tail of a queue that
\* is not empty is its last node.  (The word that links a queue also links the
\* free stack, and an emptied queue keeps a tail that has been freed.)
NodesInOnePlace ==
    QueuesTypeOK /\
    LET lists == [q \in QueueIds |-> list(next, queues[q])]
        fresh == {n \in Blocks : n >= ba.implicit_next}
    IN  /\ \A q \in QueueIds :
              /\ Len(lists[q]) = queues[q].size
              /\ queues[q].size # 0 => queues[q].tail = lists[q][queues[q].size]
              /\ Cardinality(Members(lists[q])) = queues[q].size
        /\ \A q, r \in QueueIds :
              q # r => Members(lists[q]) \cap Members(lists[r]) = {}
        /\ Cardinality(Members(free_nodes)) = ba.size
        /\ UNION {Members(lists[q]) : q \in QueueIds}
              = Blocks \ (Members(free_nodes) \cup fresh)
        /\ Members(free_nodes) \cap fresh = {}

\* What the queues hold
Contents ==
    [q \in QueueIds |->
        LET nodes == list(next, queues[q])
        IN  [i \in DOMAIN nodes |-> data[nodes[i]]]]

Queues == INSTANCE QueueSpec WITH
    Ordered <- {SleepQueue}, Capacity <- NumNodes, contents <- Contents

\* The linked lists implement FIFO queues and, with at most MaxSorted elements,
\* a queue ordered by key, and schedule runs out of nodes only when all are in
\* queues.
ListsAreQueues == Queues!Spec
=============================================================================
