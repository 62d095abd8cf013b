------------------------------ MODULE Scheduler ------------------------------
(***************************************************************************)
(* The process scheduler of Bikeshed64 with the system calls that drive it *)
(* and the one-shot local APIC timer that preempts the running process:    *)
(* scheduler.c, syscalls.c and the timer part of apic.c.                   *)
(*                                                                         *)
(* There is one CPU and the kernel runs with interrupts disabled, so a     *)
(* handler is never interleaved with another handler; only the timer       *)
(* hardware runs beside it.  kpc says where the kernel is: in a process    *)
(* ("user"), or at one of the stages of the straight-line path             *)
(*     dispatch -> (enqueue_prio) -> get_next_sleep -> resume -> user      *)
(* that every dispatching handler takes.  A stage enables exactly one      *)
(* kernel action, so the stages of a handler always run to its end.        *)
(***************************************************************************)
EXTENDS Integers, Sequences, FiniteSets

CONSTANTS
    PCBs,           \* the blocks of ba_pcbs (MAX_PCBS of them)
    InitPcb,        \* the block create_init_process gets
    NULL,           \* the null pointer
    KERNEL_TABLE,   \* kernel_table, the page table of no process
    NumQNodes,      \* the number of blocks of ba_qnodes
    QUANTUM,        \* a full quantum, in ms (10 in the code)
    SleepTimes,     \* workload: arguments of msleep
    PriorityArgs,   \* workload: arguments of set_priority
    Program,        \* workload: the system calls each process makes
    ForkLimit,      \* workload bound: fork only below this many PCBs
    MaxSleepers,    \* workload bound: msleep only below this many sleepers
    TickStages      \* where a millisecond can pass: only in user mode when
                    \* handlers are fast, else at any stage

NUM_QUEUES == 4
HIGH == 0
NORMAL == 1
IDLE == 3
Priorities == 0 .. NUM_QUEUES - 1

SyscallNames == {"fork", "exec", "exit", "msleep", "set_priority", "key"}

Stages == {"user", "dispatch", "enqueue_prio", "get_next_sleep", "resume",
           "halted"}

ASSUME ConstantsAssumption ==
    /\ InitPcb \in PCBs
    /\ NULL \notin PCBs
    /\ KERNEL_TABLE \notin PCBs
    /\ NumQNodes \in Nat
    /\ QUANTUM \in Nat \ {0}
    /\ SleepTimes \subseteq Nat
    /\ PriorityArgs \subseteq Nat
    /\ Program \in [PCBs -> SUBSET SyscallNames]
    /\ ForkLimit \in Nat
    /\ MaxSleepers \in Nat
    /\ TickStages \subseteq Stages \ {"halted"}

VARIABLES
    \* The fields of the PCBs.  A process that runs is READY: the code never
    \* uses RUNNING.
    state, priority, sleep_time,
    cleanups,       \* how often virt_cleanup_table has freed each page table
    allocated,      \* the PCBs block_alloc(ba_pcbs) has handed out
    \* The queues.  A node is named by the PCB it points to.
    queues,         \* the ready queues, one for each priority
    sleep_queue,    \* what following next from sleep_queue.head yields
    sleep_tail,     \* the PCB of the node sleep_queue.tail points to; NULL
                    \* also once that node has been freed
    sleep_size,     \* sleep_queue.size
    free_qnodes,    \* blocks of ba_qnodes that can still be allocated
    \* The globals of scheduler.c and the locals of dispatch
    current_pcb, prev_ticks, quantum_left, tick_span,
    other,          \* queue_enqueue_prio: index of the node compared next
    \* The hardware
    cr3,            \* the PCB whose page table is loaded, or KERNEL_TABLE
    timer_delay,    \* apic.c's copy of the last delay
    timer_count,    \* APIC_TIMER_CUR_CNT in ms, rounded up
    irq,            \* 1 when a timer interrupt is pending in the local APIC
    kpc,            \* the stage the kernel is at
    panic           \* why the kernel stopped, "none" while it has not

pcb_vars   == <<state, priority, sleep_time, cleanups, allocated>>
sleep_vars == <<sleep_queue, sleep_tail, sleep_size>>
timer_vars == <<timer_delay, timer_count, irq>>
vars == <<pcb_vars, queues, sleep_vars, free_qnodes, current_pcb, prev_ticks,
          quantum_left, tick_span, other, cr3, timer_vars, kpc, panic>>

\* The panics and failed assertions of the modelled code, and the two faults
\* a damaged sleep queue leads to.
PanicReasons ==
    {"alloc_pcb", "no_qnode", "bad_priority", "bad_state", "timer_assert",
     "quantum_assert", "prev_ticks_assert", "nothing_to_run", "null_node",
     "freed_node"}

-----------------------------------------------------------------------------
\* create_init_process, with scheduler_init before it: init runs in its own
\* address space with the timer started for a full quantum.
Init ==
    /\ state = [p \in PCBs |-> "READY"]
    /\ priority = [p \in PCBs |-> NORMAL]
    /\ sleep_time = [p \in PCBs |-> 0]
    /\ cleanups = [p \in PCBs |-> 0]
    /\ allocated = {InitPcb}
    /\ queues = [i \in Priorities |-> <<>>]
    /\ sleep_queue = <<>>
    /\ sleep_tail = NULL
    /\ sleep_size = 0
    /\ free_qnodes = NumQNodes
    /\ current_pcb = InitPcb
    /\ prev_ticks = QUANTUM
    /\ quantum_left = QUANTUM
    /\ tick_span = 0
    /\ other = 1
    /\ cr3 = InitPcb
    /\ timer_delay = QUANTUM
    /\ timer_count = QUANTUM
    /\ irq = 0
    /\ kpc = "user"
    /\ panic = "none"

\* panic(): the kernel stops; nothing it has not written yet changes.
Panic(reason) ==
    /\ kpc' = "halted"
    /\ panic' = reason

Goto(stage) ==
    /\ kpc' = stage
    /\ UNCHANGED panic

-----------------------------------------------------------------------------
(* The timer hardware and the two entries into the kernel. *)

\* One millisecond passes on a running timer.  The timer is one-shot: when
\* the count reaches 0 it raises its interrupt and stays at 0.
Tick ==
    /\ kpc \in TickStages
    /\ timer_count > 0
    /\ timer_count' = timer_count - 1
    /\ irq' = IF timer_count = 1 THEN 1 ELSE irq
    /\ UNCHANGED <<pcb_vars, queues, sleep_vars, free_qnodes, current_pcb,
                   prev_ticks, quantum_left, tick_span, other, cr3,
                   timer_delay, kpc, panic>>

\* timer_handler: the pending interrupt is taken as soon as a process runs.
TimerInterrupt ==
    /\ kpc = "user"
    /\ irq = 1
    /\ irq' = 0
    /\ Goto("dispatch")
    /\ UNCHANGED <<pcb_vars, queues, sleep_vars, free_qnodes, current_pcb,
                   prev_ticks, quantum_left, tick_span, other, cr3,
                   timer_delay, timer_count>>

\* The running process traps with call, and syscall_interrupt first stops the
\* timer.  A pending interrupt is taken before the trap; one that expires
\* between the trap and timer_stop stays pending.
Trap(call) ==
    /\ kpc = "user"
    /\ irq = 0
    /\ call \in Program[current_pcb]
    /\ timer_count' = 0
    /\ irq' \in IF timer_count = 1 THEN {0, 1} ELSE {0}
    /\ UNCHANGED timer_delay

\* Mutant: the new delay is recorded but the count is not restarted.
StartTimerNotCounting(delay) ==
    /\ timer_delay' = delay
    /\ UNCHANGED <<timer_count, irq>>

\* timer_set_delay followed by timer_start
StartTimer(delay) ==
    /\ timer_delay' = delay
    /\ timer_count' = delay
    /\ UNCHANGED irq

\* Mutant: the node of a dequeued process is never given back.
FreeQNodeForgotten == UNCHANGED free_qnodes

\* block_free of a node that has been dequeued
FreeQNode == free_qnodes' = free_qnodes + 1

\* Mutants: the node is filled in and not linked; a HIGH process goes to the
\* head of its queue; the priority of the process is ignored.
EnqueueReadyNotLinked(p, prio) == UNCHANGED queues

EnqueueReadyHighInFront(p, prio) ==
    queues' = [queues EXCEPT ![prio] =
                   IF prio = HIGH THEN <<p>> \o @ ELSE Append(@, p)]

EnqueueReadyNormal(p, prio) ==
    queues' = [queues EXCEPT ![NORMAL] = Append(@, p)]

\* schedule() of a READY process: queue_enqueue at the end of its queue.  (Its
\* assertion that there is such a queue is the type of priority.)
EnqueueReady(p, prio) ==
    queues' = [queues EXCEPT ![prio] = Append(@, p)]

-----------------------------------------------------------------------------
(* The system calls *)

\* fork: the child is a copy of the parent's PCB with an address space of its
\* own.  alloc_pcb does not return when it has no block left.
Fork ==
    /\ Trap("fork")
    /\ Cardinality(allocated) < ForkLimit
    /\ IF allocated = PCBs
       THEN /\ Panic("alloc_pcb")
            /\ UNCHANGED <<pcb_vars, queues, free_qnodes>>
       ELSE \E child \in PCBs \ allocated :
            /\ allocated' = allocated \cup {child}
            /\ state' = [state EXCEPT ![child] = state[current_pcb]]
            /\ priority' = [priority EXCEPT ![child] = priority[current_pcb]]
            /\ sleep_time' = [sleep_time EXCEPT ![child] = sleep_time[current_pcb]]
            /\ cleanups' = [cleanups EXCEPT ![child] = 0]
            /\ IF free_qnodes = 0
               THEN /\ Panic("no_qnode")
                    /\ UNCHANGED <<queues, free_qnodes>>
               ELSE /\ EnqueueReady(child, priority[current_pcb])
                    /\ free_qnodes' = free_qnodes - 1
                    /\ Goto("dispatch")
    /\ UNCHANGED <<sleep_vars, current_pcb, prev_ticks, quantum_left,
                   tick_span, other, cr3>>

\* Mutant: the address space is freed but the process is not marked.
CleanupPcbStillReady(p) ==
    /\ cr3' = KERNEL_TABLE
    /\ cleanups' = [cleanups EXCEPT ![p] = @ + 1]
    /\ UNCHANGED state

\* cleanup_pcb: leave the address space, free it, mark the process KILLED.
CleanupPcb(p) ==
    /\ cr3' = KERNEL_TABLE
    /\ cleanups' = [cleanups EXCEPT ![p] = @ + 1]
    /\ state' = [state EXCEPT ![p] = "KILLED"]

\* exit, also what a system call number out of range is turned into
Exit ==
    /\ Trap("exit")
    /\ CleanupPcb(current_pcb)
    /\ Goto("dispatch")
    /\ UNCHANGED <<priority, sleep_time, allocated, queues, sleep_vars,
                   free_qnodes, current_pcb, prev_ticks, quantum_left,
                   tick_span, other>>

\* msleep and sleep_pcb: msleep(0) only dispatches.
Msleep(time) ==
    /\ Trap("msleep")
    /\ time # 0 => sleep_size < MaxSleepers
    /\ IF time # 0
       THEN /\ state' = [state EXCEPT ![current_pcb] = "SLEEPING"]
            /\ sleep_time' = [sleep_time EXCEPT ![current_pcb] = time]
       ELSE UNCHANGED <<state, sleep_time>>
    /\ Goto("dispatch")
    /\ UNCHANGED <<priority, cleanups, allocated, queues, sleep_vars,
                   free_qnodes, current_pcb, prev_ticks, quantum_left,
                   tick_span, other, cr3>>

\* Mutant: the assertion is off by one and lets NUM_QUEUES pass.
SetPriorityOffByOne(prio) ==
    /\ Trap("set_priority")
    /\ prio <= NUM_QUEUES
    /\ priority' = [priority EXCEPT ![current_pcb] = prio]
    /\ Goto("user")
    /\ UNCHANGED <<state, sleep_time, cleanups, allocated, queues, sleep_vars,
                   free_qnodes, current_pcb, prev_ticks, quantum_left,
                   tick_span, other, cr3>>

\* set_priority: takes effect when the process is next queued.  It does not
\* dispatch, so the process returns with its timer stopped.
SetPriority(prio) ==
    /\ Trap("set_priority")
    /\ IF prio <= IDLE
       THEN /\ priority' = [priority EXCEPT ![current_pcb] = prio]
            /\ Goto("user")
       ELSE /\ Panic("bad_priority")
            /\ UNCHANGED priority
    /\ UNCHANGED <<state, sleep_time, cleanups, allocated, queues, sleep_vars,
                   free_qnodes, current_pcb, prev_ticks, quantum_left,
                   tick_span, other, cr3>>

\* exec (empty), key_avail and get_key: nothing the scheduler keeps changes,
\* but the timer is stopped.
NonDispatchingCall ==
    /\ \E call \in {"exec", "key"} : Trap(call)
    /\ Goto("user")
    /\ UNCHANGED <<pcb_vars, queues, sleep_vars, free_qnodes, current_pcb,
                   prev_ticks, quantum_left, tick_span, other, cr3>>

-----------------------------------------------------------------------------
(* dispatch: charge the quantum and put the current process away *)

\* timer_get_elapsed.  A stopped timer counts as one that has run out.
Elapsed == timer_delay - timer_count

\* quantum_left after the elapsed time is taken off
QuantumAfter == IF Elapsed > quantum_left THEN 0 ELSE quantum_left - Elapsed

\* Mutants: current_pcb still points to the process that was put away; the
\* next process is not given a new quantum.
GiveUpCpuKeepsCurrent ==
    /\ UNCHANGED current_pcb
    /\ quantum_left' = QUANTUM
    /\ prev_ticks' = QUANTUM

GiveUpCpuKeepsQuantum ==
    /\ current_pcb' = NULL
    /\ quantum_left' = IF kpc = "dispatch" THEN QuantumAfter ELSE quantum_left
    /\ prev_ticks' = quantum_left'

\* The current process leaves the CPU and the next one gets a full quantum.
GiveUpCpu ==
    /\ current_pcb' = NULL
    /\ quantum_left' = QUANTUM
    /\ prev_ticks' = QUANTUM

\* A KILLED process is cleaned up (exit has cleaned it up already).
DispatchKilled ==
    /\ state[current_pcb] = "KILLED"
    /\ CleanupPcb(current_pcb)
    /\ GiveUpCpu
    /\ Goto("get_next_sleep")
    /\ UNCHANGED <<priority, sleep_time, allocated, queues, sleep_vars,
                   free_qnodes, other, timer_vars>>

\* A SLEEPING process goes to the sleep queue: schedule() takes a node and
\* calls queue_enqueue_prio, which starts at the head.
DispatchSleeping ==
    /\ state[current_pcb] = "SLEEPING"
    /\ IF free_qnodes = 0
       THEN Panic("no_qnode") /\ UNCHANGED free_qnodes
       ELSE Goto("enqueue_prio") /\ free_qnodes' = free_qnodes - 1
    /\ quantum_left' = QuantumAfter
    /\ other' = 1
    /\ UNCHANGED <<pcb_vars, queues, sleep_vars, current_pcb, prev_ticks, cr3,
                   timer_vars>>

\* A READY process whose quantum is used up goes to the end of its queue.
DispatchPreempted ==
    /\ state[current_pcb] = "READY"
    /\ QuantumAfter = 0
    /\ IF free_qnodes = 0
       THEN /\ Panic("no_qnode")
            /\ quantum_left' = 0
            /\ UNCHANGED <<queues, free_qnodes, current_pcb, prev_ticks>>
       ELSE /\ EnqueueReady(current_pcb, priority[current_pcb])
            /\ free_qnodes' = free_qnodes - 1
            /\ GiveUpCpu
            /\ Goto("get_next_sleep")
    /\ UNCHANGED <<pcb_vars, sleep_vars, other, cr3, timer_vars>>

\* A READY process with quantum left keeps the CPU.
DispatchContinues ==
    /\ state[current_pcb] = "READY"
    /\ QuantumAfter # 0
    /\ quantum_left' = QuantumAfter
    /\ prev_ticks' = QuantumAfter
    /\ Goto("get_next_sleep")
    /\ UNCHANGED <<pcb_vars, queues, sleep_vars, free_qnodes, current_pcb,
                   other, cr3, timer_vars>>

\* dispatch up to the charge of the sleepers.  timer_get_elapsed asserts that
\* the timer has not been set beyond its delay.
Dispatch ==
    /\ kpc = "dispatch"
    /\ IF timer_delay < timer_count
       THEN /\ Panic("timer_assert")
            /\ UNCHANGED <<pcb_vars, queues, sleep_vars, free_qnodes,
                           current_pcb, prev_ticks, quantum_left, tick_span,
                           other, cr3, timer_vars>>
       ELSE /\ tick_span' = Elapsed
            /\ \/ DispatchKilled
               \/ DispatchSleeping
               \/ DispatchPreempted
               \/ DispatchContinues

-----------------------------------------------------------------------------
(* queue_enqueue_prio with sleep_insert, inserting the current process *)

InList(p) == \E i \in DOMAIN sleep_queue : sleep_queue[i] = p

\* Mutant: the time of the sleeper that is passed by is not made relative.
SleepInsertAbsolute(p1, p2) ==
    IF sleep_time[p1] <= sleep_time[p2]
    THEN sleep_time
    ELSE [sleep_time EXCEPT ![p1] = @ - sleep_time[p2]]

\* sleep_insert: the sleep times after p1 and p2 have been compared.  The time
\* of the one that sleeps longer is made relative to the other's.
SleepInsert(p1, p2) ==
    IF sleep_time[p1] <= sleep_time[p2]
    THEN [sleep_time EXCEPT ![p2] = @ - sleep_time[p1]]
    ELSE [sleep_time EXCEPT ![p1] = @ - sleep_time[p2]]

InsertAfter(seq, n, e) ==
    [i \in 1 .. Len(seq) + 1 |->
        IF i <= n THEN seq[i] ELSE IF i = n + 1 THEN e ELSE seq[i - 1]]

\* The queue holds nothing (size = 0): queue_enqueue.
EnqueueFirst ==
    /\ kpc = "enqueue_prio"
    /\ sleep_size = 0
    /\ sleep_queue' = <<current_pcb>>
    /\ sleep_tail' = current_pcb
    /\ sleep_size' = 1
    /\ GiveUpCpu
    /\ Goto("get_next_sleep")
    /\ UNCHANGED <<pcb_vars, queues, free_qnodes, tick_span, other, cr3,
                   timer_vars>>

\* cmp > 0: the new sleeper sleeps longer, what the other one still has to
\* sleep is taken off its time, and the walk goes on.
WalkOn ==
    /\ kpc = "enqueue_prio"
    /\ sleep_size > 0
    /\ other \in DOMAIN sleep_queue
    /\ sleep_time[current_pcb] > sleep_time[sleep_queue[other]]
    /\ sleep_time' = SleepInsert(current_pcb, sleep_queue[other])
    /\ other' = other + 1
    /\ UNCHANGED <<state, priority, cleanups, allocated, queues, sleep_vars,
                   free_qnodes, current_pcb, prev_ticks, quantum_left,
                   tick_span, cr3, timer_vars, kpc, panic>>

\* cmp <= 0: the other one's time is made relative to the new sleeper's.  The
\* new node goes before the head, and otherwise AFTER the node it compared
\* smaller than; the tail pointer stays.
InsertBefore ==
    /\ kpc = "enqueue_prio"
    /\ sleep_size > 0
    /\ other \in DOMAIN sleep_queue
    /\ sleep_time[current_pcb] <= sleep_time[sleep_queue[other]]
    /\ sleep_time' = SleepInsert(current_pcb, sleep_queue[other])
    /\ sleep_queue' = InsertAfter(sleep_queue, IF other = 1 THEN 0 ELSE other,
                                  current_pcb)
    /\ sleep_size' = sleep_size + 1
    /\ GiveUpCpu
    /\ Goto("get_next_sleep")
    /\ UNCHANGED <<state, priority, cleanups, allocated, queues, sleep_tail,
                   free_qnodes, tick_span, other, cr3, timer_vars>>

\* The walk fell off the list: the node is linked behind the tail.  Nodes
\* that follow the tail are cut off; a tail that has been dequeued is a freed
\* node, and what a write through it does is outside this model.
InsertLast ==
    /\ kpc = "enqueue_prio"
    /\ sleep_size > 0
    /\ other \notin DOMAIN sleep_queue
    /\ IF InList(sleep_tail)
       THEN \E t \in DOMAIN sleep_queue :
            /\ sleep_queue[t] = sleep_tail
            /\ sleep_queue' = [i \in 1 .. t + 1 |->
                    IF i <= t THEN sleep_queue[i] ELSE current_pcb]
            /\ sleep_tail' = current_pcb
            /\ sleep_size' = sleep_size + 1
            /\ GiveUpCpu
            /\ Goto("get_next_sleep")
       ELSE /\ Panic("freed_node")
            /\ UNCHANGED <<sleep_vars, current_pcb, quantum_left, prev_ticks>>
    /\ UNCHANGED <<pcb_vars, queues, free_qnodes, tick_span, other, cr3,
                   timer_vars>>

-----------------------------------------------------------------------------
(* get_next_sleep and the choice of the next delay *)

\* Mutant: the timer is always set to the quantum.
NextDelayIgnoresSleepers(next_wakeup) == prev_ticks' = quantum_left

\* The delay is the quantum, or the next wakeup when that comes first.
NextDelay(next_wakeup) ==
    prev_ticks' = IF next_wakeup > 0 /\ next_wakeup < quantum_left
                  THEN next_wakeup ELSE quantum_left

\* Nobody sleeps.
NoSleeper ==
    /\ kpc = "get_next_sleep"
    /\ sleep_size = 0
    /\ NextDelay(0)
    /\ Goto("resume")
    /\ UNCHANGED <<pcb_vars, queues, sleep_vars, free_qnodes, current_pcb,
                   quantum_left, tick_span, other, cr3, timer_vars>>

\* The first sleeper's time is up: it is queued for the CPU with a new node,
\* then its old node is dequeued and freed.  One sleeper is woken at a time,
\* and what is left of the elapsed time is not charged to the next one.
WakeSleeper ==
    /\ kpc = "get_next_sleep"
    /\ sleep_size > 0
    /\ sleep_queue # <<>>
    /\ LET p == Head(sleep_queue)
           rest == Tail(sleep_queue)
       IN  /\ sleep_time[p] <= tick_span
           /\ state' = [state EXCEPT ![p] = "READY"]
           /\ sleep_time' = [sleep_time EXCEPT ![p] = 0]
           /\ IF free_qnodes = 0
              THEN /\ Panic("no_qnode")
                   /\ UNCHANGED <<queues, sleep_vars, prev_ticks>>
              ELSE /\ EnqueueReady(p, priority[p])
                   /\ sleep_queue' = rest
                   /\ sleep_size' = sleep_size - 1
                   /\ sleep_tail' = IF sleep_tail = p THEN NULL ELSE sleep_tail
                   /\ IF sleep_size > 1 /\ rest = <<>>
                      THEN Panic("null_node") /\ UNCHANGED prev_ticks
                      ELSE /\ NextDelay(IF sleep_size = 1 THEN 0
                                        ELSE sleep_time[Head(rest)])
                           /\ Goto("resume")
    /\ UNCHANGED <<priority, cleanups, allocated, free_qnodes, current_pcb,
                   quantum_left, tick_span, other, cr3, timer_vars>>

\* The first sleeper sleeps on.  A queue that counts a sleeper but has no
\* node is a read through the null pointer.
ChargeSleeper ==
    /\ kpc = "get_next_sleep"
    /\ sleep_size > 0
    /\ IF sleep_queue = <<>>
       THEN Panic("null_node") /\ UNCHANGED <<sleep_time, prev_ticks>>
       ELSE LET p == Head(sleep_queue)
            IN  /\ sleep_time[p] > tick_span
                /\ sleep_time' = [sleep_time EXCEPT ![p] = @ - tick_span]
                /\ NextDelay(sleep_time[p] - tick_span)
                /\ Goto("resume")
    /\ UNCHANGED <<state, priority, cleanups, allocated, queues, sleep_vars,
                   free_qnodes, current_pcb, quantum_left, tick_span, other,
                   cr3, timer_vars>>

-----------------------------------------------------------------------------
(* The end of dispatch: return to a process *)

\* The current process goes on with what is left of its quantum.
ResumeCurrent ==
    /\ kpc = "resume"
    /\ current_pcb # NULL
    /\ IF quantum_left # 0
       THEN StartTimer(prev_ticks) /\ Goto("user")
       ELSE Panic("quantum_assert") /\ UNCHANGED timer_vars
    /\ UNCHANGED <<pcb_vars, queues, sleep_vars, free_qnodes, current_pcb,
                   prev_ticks, quantum_left, tick_span, other, cr3>>

\* The first process of the first queue that is not empty runs next.  A
\* KILLED one is freed and the search goes on.
PickNext(i) ==
    /\ kpc = "resume"
    /\ current_pcb = NULL
    /\ prev_ticks > 0
    /\ queues[i] # <<>>
    /\ \A j \in 0 .. i - 1 : queues[j] = <<>>
    /\ queues' = [queues EXCEPT ![i] = Tail(@)]
    /\ FreeQNode
    /\ LET next == Head(queues[i])
       IN  IF state[next] = "READY"
           THEN /\ current_pcb' = next
                /\ cr3' = next
                /\ StartTimer(prev_ticks)
                /\ Goto("user")
                /\ UNCHANGED allocated
           ELSE /\ IF state[next] = "KILLED"
                   THEN allocated' = allocated \ {next} /\ UNCHANGED <<kpc, panic>>
                   ELSE Panic("bad_state") /\ UNCHANGED allocated
                /\ UNCHANGED <<current_pcb, cr3, timer_vars>>
    /\ UNCHANGED <<state, priority, sleep_time, cleanups, sleep_vars,
                   prev_ticks, quantum_left, tick_span, other>>

\* No queue has a process, or the delay is 0: dispatch stops the kernel.
NothingToRun ==
    /\ kpc = "resume"
    /\ current_pcb = NULL
    /\ prev_ticks = 0 \/ \A i \in Priorities : queues[i] = <<>>
    /\ Panic(IF prev_ticks = 0 THEN "prev_ticks_assert" ELSE "nothing_to_run")
    /\ UNCHANGED <<pcb_vars, queues, sleep_vars, free_qnodes, current_pcb,
                   prev_ticks, quantum_left, tick_span, other, cr3, timer_vars>>

-----------------------------------------------------------------------------
Syscall ==
    \/ Fork
    \/ Exit
    \/ \E time \in SleepTimes : Msleep(time)
    \/ \E prio \in PriorityArgs : SetPriority(prio)
    \/ NonDispatchingCall

EnqueuePrio == EnqueueFirst \/ WalkOn \/ InsertBefore \/ InsertLast

GetNextSleep == NoSleeper \/ WakeSleeper \/ ChargeSleeper

Resume == ResumeCurrent \/ (\E i \in Priorities : PickNext(i)) \/ NothingToRun

Kernel == Dispatch \/ EnqueuePrio \/ GetNextSleep \/ Resume

Next == Tick \/ TimerInterrupt \/ Syscall \/ Kernel

Spec == Init /\ [][Next]_vars

\* The timer counts while it runs, a pending interrupt is taken when interrupts
\* are enabled, and a handler runs to its end.  No process is obliged to make a
\* system call.
FairSpec == Spec /\ WF_vars(Tick) /\ WF_vars(TimerInterrupt) /\ WF_vars(Kernel)

\* A process that a non-dispatching call has left without a timer gives the CPU
\* up sooner or later, as the programs of this repository do: read_key in ulib.c
\* polls key_available and msleep(0).
YieldsUntimed == timer_count = 0 /\ Msleep(0)

PollingSpec == FairSpec /\ WF_vars(YieldsUntimed)

-----------------------------------------------------------------------------
PcbTypes ==
    /\ state \in [PCBs -> {"READY", "SLEEPING", "KILLED"}]
    /\ priority \in [PCBs -> Priorities]
    /\ sleep_time \in [PCBs -> Nat]
    /\ cleanups \in [PCBs -> Nat]
    /\ allocated \in SUBSET PCBs

QueueTypes ==
    /\ queues \in [Priorities -> Seq(PCBs)]
    /\ sleep_queue \in Seq(PCBs)
    /\ sleep_tail \in PCBs \cup {NULL}
    /\ sleep_size \in Nat
    /\ free_qnodes \in Nat
    /\ other \in Nat \ {0}

CpuTypes ==
    /\ current_pcb \in PCBs \cup {NULL}
    /\ prev_ticks \in 0 .. QUANTUM
    /\ quantum_left \in 0 .. QUANTUM
    /\ tick_span \in Nat
    /\ cr3 \in PCBs \cup {KERNEL_TABLE}
    /\ timer_delay \in 0 .. QUANTUM
    /\ timer_count \in Nat
    /\ irq \in {0, 1}
    /\ kpc \in Stages
    /\ panic \in PanicReasons \cup {"none"}

\* Every variable has the type the C declarations and the comments above give it.
TypeOK == PcbTypes /\ QueueTypes /\ CpuTypes

\* The ready queues hold each process at most once, and only processes that are
\* READY, have the priority of their queue and are not the current one.
ReadyPlaced ==
    /\ \A i \in Priorities : \A m \in 1 .. Len(queues[i]) :
          /\ queues[i][m] \in allocated
          /\ queues[i][m] # current_pcb
          /\ priority[queues[i][m]] = i
          /\ kpc # "halted" => state[queues[i][m]] = "READY"
    /\ \A i \in Priorities : \A m, n \in 1 .. Len(queues[i]) :
          queues[i][m] = queues[i][n] => m = n

\* The same for the sleep queue and processes that are SLEEPING.
SleepPlaced ==
    /\ \A m \in 1 .. Len(sleep_queue) :
          /\ sleep_queue[m] \in allocated
          /\ sleep_queue[m] # current_pcb
          /\ kpc # "halted" => state[sleep_queue[m]] = "SLEEPING"
    /\ \A m, n \in 1 .. Len(sleep_queue) :
          sleep_queue[m] = sleep_queue[n] => m = n

\* The same PCB never occupies two nodes, and where it is agrees with its state
\* and priority.  (schedule() and get_next_sleep move PCBs between queues, and
\* set_priority changes the field that says which queue, without any check.)
Placement == ReadyPlaced /\ SleepPlaced

Queued(p) ==
    \/ \E i \in Priorities : \E m \in 1 .. Len(queues[i]) : queues[i][m] = p
    \/ \E m \in 1 .. Len(sleep_queue) : sleep_queue[m] = p

\* A process that has not exited is never forgotten: it is running or some
\* queue can still reach it.  (queue_enqueue_prio relinks nodes through a tail
\* pointer it does not always maintain.)
NoLostProcess ==
    kpc # "halted" =>
        \A p \in allocated :
            state[p] = "KILLED" \/ p = current_pcb \/ Queued(p)

\* The page table in use when a process runs is its own and has not been freed.
\* (dispatch reloads cr3 only when it picks another process; exit frees the
\* table of the process that is running.)
AddressSpaceMatches ==
    kpc = "user" =>
        /\ current_pcb \in allocated
        /\ state[current_pcb] = "READY"
        /\ cr3 = current_pcb
        /\ cleanups[current_pcb] = 0

\* While the timer is running it goes off no later than the quantum of the
\* current process ends and no later than the first sleeper is due, unless that
\* one is already due (it had the same wake-up time as one just woken).
TimerCoversWork ==
    (kpc = "user" /\ timer_count > 0) =>
        /\ timer_count <= quantum_left
        /\ (sleep_queue # <<>> /\ sleep_time[Head(sleep_queue)] > 0) =>
              timer_count <= sleep_time[Head(sleep_queue)]

\* No internal assertion of scheduler.c and apic.c fails, no queue holds a
\* process in a state dispatch does not handle, and no queue operation follows a
\* null or dangling pointer.
AssertionsHold ==
    panic \notin {"bad_state", "timer_assert", "quantum_assert",
                  "prev_ticks_assert", "null_node", "freed_node"}

\* schedule() always finds a queue node, given one node more than there are
\* PCBs, and none leaks: every node of ba_qnodes is free or accounted for by one
\* queue's size.  (A node is allocated in schedule() and freed in two places, and
\* get_next_sleep queues the process it wakes before it frees its node.)
NodesAccounted ==
    /\ panic # "no_qnode"
    /\ kpc \notin {"enqueue_prio", "halted"} =>
          free_qnodes + Len(queues[0]) + Len(queues[1]) + Len(queues[2])
              + Len(queues[3]) + sleep_size = NumQNodes

\* Times in the sleep queue are relative to the sleeper before: TimeUntil(n) is
\* what the n-th sleeper of the queue has left to sleep.
TimeUntil(n) ==
    LET sum[i \in 0 .. n] ==
            IF i = 0 THEN 0 ELSE sum[i - 1] + sleep_time[sleep_queue[i]]
    IN  sum[n]

\* The time left to a sleeper, also while queue_enqueue_prio walks past the
\* sleepers before it; -1 for a process that is not in the sleep queue.
TimeLeft(p) ==
    CASE kpc = "enqueue_prio" /\ p = current_pcb ->
            sleep_time[p] + (IF sleep_size = 0 THEN 0 ELSE TimeUntil(other - 1))
      [] \E n \in DOMAIN sleep_queue : sleep_queue[n] = p ->
            TimeUntil(CHOOSE n \in DOMAIN sleep_queue : sleep_queue[n] = p)
      [] OTHER -> 0 - 1

\* What get_next_sleep charges every sleeper when it is left.
Charged ==
    IF kpc = "get_next_sleep" /\ kpc' # kpc /\ sleep_queue # <<>>
    THEN IF tick_span < sleep_time[Head(sleep_queue)]
         THEN tick_span ELSE sleep_time[Head(sleep_queue)]
    ELSE 0

\* Inserting a sleeper leaves the wake-up time of every other sleeper alone and
\* gives the new one the time it asked for; afterwards all sleepers are charged
\* the same amount.  (sleep_insert rewrites sleep times as a side effect of the
\* comparisons queue_enqueue_prio makes.)
DeadlinesKept ==
    [][\A p \in PCBs :
          (TimeLeft(p) >= 0 /\ TimeLeft(p)' >= 0) =>
              TimeLeft(p)' = TimeLeft(p) - Charged]_vars

\* Where a process is in its life, read off the scheduler's state.  A process
\* that has exited or gone to sleep stays current_pcb until dispatch sees it.
Life(p) ==
    IF p \notin allocated THEN "unborn"
    ELSE IF state[p] = "KILLED" THEN "dead"
    ELSE IF state[p] = "SLEEPING" THEN "sleeping"
    ELSE IF p = current_pcb THEN "running" ELSE "ready"

Table == INSTANCE ProcessTable WITH
    Processes <- PCBs, FirstProcess <- InitPcb, Levels <- Priorities,
    DefaultLevel <- NORMAL, life <- [p \in PCBs |-> Life(p)], level <- priority

\* The scheduler implements the abstract process table: one process runs at a
\* time, it is a ready one of the highest priority when it is chosen, and exited
\* processes stay dead.  (dispatch finds the next process by the queue it is in,
\* not by the priority field, and frees the PCB of a dead one it meets there.)
Lifecycle == Table!Spec

\* The kernel never stops.  (Needs a process that never sleeps or exits.)
NoPanic == kpc # "halted"

\* A sleeping process is woken.
SleepersWake ==
    \A p \in PCBs : state[p] = "SLEEPING" ~> state[p] = "READY"

\* A process in the HIGH queue gets the CPU.
HighReadyRuns ==
    \A p \in PCBs :
        (\E m \in 1 .. Len(queues[HIGH]) : queues[HIGH][m] = p) ~> current_pcb = p

\* The timer interrupts init after a little while, and goes on doing so.
InitInterrupted == []<>(kpc = "dispatch")

-----------------------------------------------------------------------------
(* The inductive invariant behind the theorems of SchedulerProofs. *)

\* There is a current process until dispatch has put it away.
HasCurrent ==
    kpc \in {"user", "dispatch", "enqueue_prio"} => current_pcb # NULL

\* Where the current process is in its life at each stage.
CurrentInv ==
    /\ current_pcb # NULL => current_pcb \in allocated
    /\ kpc = "user" => state[current_pcb] = "READY"
    /\ kpc = "enqueue_prio" => state[current_pcb] = "SLEEPING"
    /\ (kpc \in {"get_next_sleep", "resume"} /\ current_pcb # NULL) =>
          state[current_pcb] = "READY"

\* A READY current process is in its address space, and only exit frees one.
SpaceInv ==
    /\ (kpc # "halted" /\ current_pcb # NULL /\ state[current_pcb] = "READY") =>
          cr3 = current_pcb
    /\ \A p \in allocated : state[p] # "KILLED" => cleanups[p] = 0

\* ticks is at most the time of a first sleeper that is not due.
Covers(ticks) ==
    (sleep_queue # <<>> /\ sleep_time[Head(sleep_queue)] > 0) =>
        ticks <= sleep_time[Head(sleep_queue)]

\* How the timer, the quantum and the first sleeper are related at each stage.
TimerInv ==
    /\ timer_count <= timer_delay
    /\ Len(sleep_queue) <= sleep_size
    /\ kpc \in {"user", "dispatch"} => timer_delay <= quantum_left
    /\ kpc = "user" => quantum_left > 0 /\ Covers(timer_delay)
    /\ kpc \in {"get_next_sleep", "resume"} => quantum_left > 0
    /\ kpc = "resume" =>
          prev_ticks > 0 /\ prev_ticks <= quantum_left /\ Covers(prev_ticks)

\* With at most two sleepers the tail pointer is right.
SleepInv ==
    /\ kpc # "halted" => sleep_size = Len(sleep_queue)
    /\ (kpc # "halted" /\ sleep_queue # <<>>) =>
          sleep_tail = sleep_queue[Len(sleep_queue)]
    /\ sleep_size <= 2
    /\ kpc = "enqueue_prio" => sleep_size <= 1
    /\ (kpc = "dispatch" /\ state[current_pcb] = "SLEEPING") => sleep_size <= 1
=============================================================================
