--------------------------- MODULE SchedulerProofs ---------------------------
(* Theorems about Scheduler for every set of processes and every workload. *)
EXTENDS Scheduler, FiniteSetTheorems, TLAPS

-----------------------------------------------------------------------------
(* Facts about the operators the model is built from *)

\* The stages and panic reasons the actions name.
LEMMA Names ==
    /\ {"user", "dispatch", "enqueue_prio", "get_next_sleep", "resume",
        "halted"} \subseteq Stages
    /\ {"alloc_pcb", "no_qnode", "bad_priority", "bad_state", "timer_assert",
        "quantum_assert", "prev_ticks_assert", "nothing_to_run", "null_node",
        "freed_node"} \subseteq PanicReasons
  BY DEF Stages, PanicReasons

\* What EnqueueReady makes of the ready queues: one process more at one end.
LEMMA EnqueueFacts ==
    ASSUME queues \in [Priorities -> Seq(PCBs)],
           NEW prio \in Priorities, NEW p \in PCBs, EnqueueReady(p, prio)
    PROVE  /\ queues' \in [Priorities -> Seq(PCBs)]
           /\ \A i \in Priorities :
                Len(queues'[i]) =
                    IF i = prio THEN Len(queues[i]) + 1 ELSE Len(queues[i])
           /\ \A i \in Priorities : \A m \in 1 .. Len(queues[i]) :
                queues'[i][m] = queues[i][m]
           /\ queues'[prio][Len(queues[prio]) + 1] = p
<1>1. Append(queues[prio], p) \in Seq(PCBs)
  OBVIOUS
<1>2. queues' \in [Priorities -> Seq(PCBs)]
  BY <1>1 DEF EnqueueReady
<1>3. /\ queues'[prio] = Append(queues[prio], p)
      /\ \A i \in Priorities \ {prio} : queues'[i] = queues[i]
  BY DEF EnqueueReady
<1>4. /\ Len(queues'[prio]) = Len(queues[prio]) + 1
      /\ queues'[prio][Len(queues[prio]) + 1] = p
      /\ \A m \in 1 .. Len(queues[prio]) : queues'[prio][m] = queues[prio][m]
  BY <1>3
<1> QED
  BY <1>2, <1>3, <1>4

\* What PickNext makes of them: one process less at the other end.
LEMMA DequeueFacts ==
    ASSUME NEW q \in [Priorities -> Seq(PCBs)], NEW prio \in Priorities,
           q[prio] # <<>>, NEW r, r = [q EXCEPT ![prio] = Tail(@)]
    PROVE  /\ r \in [Priorities -> Seq(PCBs)]
           /\ Head(q[prio]) = q[prio][1]
           /\ Head(q[prio]) \in PCBs
           /\ Len(q[prio]) >= 1
           /\ Len(r[prio]) = Len(q[prio]) - 1
           /\ \A m \in 1 .. Len(r[prio]) : r[prio][m] = q[prio][m + 1]
           /\ \A i \in Priorities \ {prio} : r[i] = q[i]
<1>1. Tail(q[prio]) \in Seq(PCBs) /\ Head(q[prio]) \in PCBs
  OBVIOUS
<1>2. r \in [Priorities -> Seq(PCBs)]
  BY <1>1
<1>3. r[prio] = Tail(q[prio]) /\ \A i \in Priorities \ {prio} : r[i] = q[i]
  OBVIOUS
<1> QED
  BY <1>1, <1>2, <1>3

\* A comparison by sleep_insert never makes a sleep time negative.
LEMMA SleepInsertFacts ==
    ASSUME sleep_time \in [PCBs -> Nat], NEW p \in PCBs, NEW q \in PCBs
    PROVE  SleepInsert(p, q) \in [PCBs -> Nat]
<1>1. CASE sleep_time[p] <= sleep_time[q]
  <2>1. sleep_time[q] - sleep_time[p] \in Nat
    BY <1>1
  <2> QED
    BY <1>1, <2>1 DEF SleepInsert
<1>2. CASE ~(sleep_time[p] <= sleep_time[q])
  <2>1. sleep_time[p] - sleep_time[q] \in Nat
    BY <1>2
  <2> QED
    BY <1>2, <2>1 DEF SleepInsert
<1> QED
  BY <1>1, <1>2

\* What InsertBefore makes of the sleep queue.
LEMMA InsertAfterFacts ==
    ASSUME NEW S, NEW seq \in Seq(S), NEW n \in 0 .. Len(seq), NEW e \in S
    PROVE  /\ InsertAfter(seq, n, e) \in Seq(S)
           /\ Len(InsertAfter(seq, n, e)) = Len(seq) + 1
           /\ \A i \in 1 .. Len(seq) + 1 :
                InsertAfter(seq, n, e)[i] =
                    IF i <= n THEN seq[i] ELSE IF i = n + 1 THEN e ELSE seq[i - 1]
  BY DEF InsertAfter

\* What InsertLast makes of it.
LEMMA CutAndAppendFacts ==
    ASSUME NEW S, NEW seq \in Seq(S), NEW t \in 1 .. Len(seq), NEW e \in S,
           NEW r, r = [i \in 1 .. t + 1 |-> IF i <= t THEN seq[i] ELSE e]
    PROVE  /\ r \in Seq(S)
           /\ Len(r) = t + 1
           /\ \A i \in 1 .. t : r[i] = seq[i]
           /\ r[t + 1] = e
  OBVIOUS

\* Head and Tail of the sleep queue.
LEMMA HeadTailFacts ==
    ASSUME NEW S, NEW seq \in Seq(S), seq # <<>>
    PROVE  /\ Len(seq) >= 1
           /\ Head(seq) = seq[1]
           /\ Head(seq) \in S
           /\ Tail(seq) \in Seq(S)
           /\ Len(Tail(seq)) = Len(seq) - 1
           /\ \A m \in 1 .. Len(seq) - 1 : Tail(seq)[m] = seq[m + 1]
  OBVIOUS

-----------------------------------------------------------------------------
(* Type correctness *)

\* Every variable keeps its type, and there is a current process whenever the
\* kernel uses one: syscall_interrupt, and dispatch up to the point where it
\* sets current_pcb to NULL, dereference it without a test.
THEOREM TypeCorrect == Spec => [](TypeOK /\ HasCurrent)
<1> USE ConstantsAssumption, Names
<1> USE DEF TypeOK, Goto, Panic, pcb_vars, sleep_vars, timer_vars
<1> DEFINE TypeInv == TypeOK /\ HasCurrent
<1>1. Init => TypeInv
  BY
     DEF Init, PcbTypes, QueueTypes, CpuTypes, HasCurrent, NORMAL, Priorities,
         NUM_QUEUES
<1>2. TypeInv /\ [Next]_vars => TypeInv'
  <2> SUFFICES ASSUME TypeOK, HasCurrent, [Next]_vars PROVE TypeInv'
    OBVIOUS
  <2>0. kpc \in {"user", "dispatch", "enqueue_prio"} => current_pcb \in PCBs
    BY DEF HasCurrent, CpuTypes
  <2>1. CASE Tick
    <3>1. PcbTypes'
      BY <2>0, <2>1 DEF PcbTypes, Tick
    <3>2. QueueTypes'
      BY <2>0, <2>1 DEF QueueTypes, Tick
    <3>3. CpuTypes' /\ HasCurrent'
      BY <2>0, <2>1 DEF CpuTypes, HasCurrent, Tick
    <3> QED
      BY <3>1, <3>2, <3>3
  <2>2. CASE TimerInterrupt
    <3>1. PcbTypes'
      BY <2>0, <2>2 DEF PcbTypes, TimerInterrupt
    <3>2. QueueTypes'
      BY <2>0, <2>2 DEF QueueTypes, TimerInterrupt
    <3>3. CpuTypes' /\ HasCurrent'
      BY <2>0, <2>2 DEF CpuTypes, HasCurrent, TimerInterrupt
    <3> QED
      BY <3>1, <3>2, <3>3
  <2>3. CASE Fork
    <3>1. PcbTypes'
      BY <2>0, <2>3 DEF PcbTypes, Fork, Trap
    <3>2. QueueTypes'
      <4>1. priority[current_pcb] \in Priorities
        BY <2>0, <2>3 DEF PcbTypes, Fork, Trap
      <4>2. (queues \in [Priorities -> Seq(PCBs)])'
        <5>1. UNCHANGED queues \/ \E child \in PCBs :
                  EnqueueReady(child, priority[current_pcb])
          BY <2>3 DEF Fork
        <5>2. queues \in [Priorities -> Seq(PCBs)]
          BY DEF QueueTypes
        <5> QED
          BY <4>1, <5>1, <5>2, EnqueueFacts
      <4> QED
        BY <2>3, <4>2 DEF QueueTypes, Fork
    <3>3. CpuTypes' /\ HasCurrent'
      BY <2>0, <2>3 DEF CpuTypes, HasCurrent, Fork, Trap
    <3> QED
      BY <3>1, <3>2, <3>3
  <2>4. CASE Exit
    <3>1. PcbTypes'
      BY <2>0, <2>4 DEF PcbTypes, Exit, Trap, CleanupPcb
    <3>2. QueueTypes'
      BY <2>0, <2>4 DEF QueueTypes, Exit, Trap, CleanupPcb
    <3>3. CpuTypes' /\ HasCurrent'
      BY <2>0, <2>4 DEF CpuTypes, HasCurrent, Exit, Trap, CleanupPcb
    <3> QED
      BY <3>1, <3>2, <3>3
  <2>5. ASSUME NEW time \in SleepTimes, Msleep(time) PROVE TypeInv'
    <3>1. PcbTypes'
      BY <2>0, <2>5 DEF PcbTypes, Msleep, Trap
    <3>2. QueueTypes'
      BY <2>0, <2>5 DEF QueueTypes, Msleep, Trap
    <3>3. CpuTypes' /\ HasCurrent'
      BY <2>0, <2>5 DEF CpuTypes, HasCurrent, Msleep, Trap
    <3> QED
      BY <3>1, <3>2, <3>3
  <2>6. ASSUME NEW prio \in PriorityArgs, SetPriority(prio) PROVE TypeInv'
    <3>1. PcbTypes'
      BY <2>0, <2>6
         DEF PcbTypes, SetPriority, Trap, IDLE, Priorities, NUM_QUEUES
    <3>2. QueueTypes'
      BY <2>0, <2>6 DEF QueueTypes, SetPriority, Trap
    <3>3. CpuTypes' /\ HasCurrent'
      BY <2>0, <2>6 DEF CpuTypes, HasCurrent, SetPriority, Trap
    <3> QED
      BY <3>1, <3>2, <3>3
  <2>7. CASE NonDispatchingCall
    <3>1. PcbTypes'
      BY <2>0, <2>7 DEF PcbTypes, NonDispatchingCall, Trap
    <3>2. QueueTypes'
      BY <2>0, <2>7 DEF QueueTypes, NonDispatchingCall, Trap
    <3>3. CpuTypes' /\ HasCurrent'
      BY <2>0, <2>7 DEF CpuTypes, HasCurrent, NonDispatchingCall, Trap
    <3> QED
      BY <3>1, <3>2, <3>3
  <2>8. CASE Dispatch
    <3>1. PcbTypes'
      BY <2>0, <2>8
         DEF PcbTypes, Dispatch, DispatchKilled, DispatchSleeping,
             DispatchPreempted, DispatchContinues, CleanupPcb, GiveUpCpu,
             QuantumAfter, Elapsed
    <3>2. QueueTypes'
      <4>1. priority[current_pcb] \in Priorities
        BY <2>0, <2>8 DEF PcbTypes, Dispatch
      <4>2. (queues \in [Priorities -> Seq(PCBs)])'
        <5>1. UNCHANGED queues \/ EnqueueReady(current_pcb, priority[current_pcb])
          BY <2>8 DEF Dispatch, DispatchKilled, DispatchSleeping,
                      DispatchPreempted, DispatchContinues
        <5>2. queues \in [Priorities -> Seq(PCBs)] /\ current_pcb \in PCBs
          BY <2>0, <2>8 DEF QueueTypes, Dispatch
        <5> QED
          BY <4>1, <5>1, <5>2, EnqueueFacts
      <4> QED
        BY <2>8, <4>2 DEF QueueTypes, Dispatch, DispatchKilled,
              DispatchSleeping, DispatchPreempted, DispatchContinues
    <3>3. CpuTypes' /\ HasCurrent'
      BY <2>0, <2>8
         DEF CpuTypes, HasCurrent, Dispatch, DispatchKilled, DispatchSleeping,
             DispatchPreempted, DispatchContinues, CleanupPcb, GiveUpCpu,
             QuantumAfter, Elapsed
    <3> QED
      BY <3>1, <3>2, <3>3
  <2>9. CASE EnqueueFirst
    <3>1. PcbTypes'
      BY <2>0, <2>9 DEF PcbTypes, EnqueueFirst, GiveUpCpu
    <3>2. QueueTypes'
      BY <2>0, <2>9 DEF QueueTypes, EnqueueFirst, GiveUpCpu
    <3>3. CpuTypes' /\ HasCurrent'
      BY <2>0, <2>9 DEF CpuTypes, HasCurrent, EnqueueFirst, GiveUpCpu
    <3> QED
      BY <3>1, <3>2, <3>3
  <2>10. CASE WalkOn
    <3>1. PcbTypes'
      <4>1. current_pcb \in PCBs /\ sleep_queue[other] \in PCBs
        BY <2>0, <2>10 DEF QueueTypes, WalkOn
      <4>2. (sleep_time \in [PCBs -> Nat])'
        BY <2>10, <4>1, SleepInsertFacts DEF PcbTypes, WalkOn
      <4> QED
        BY <2>10, <4>2 DEF PcbTypes, WalkOn
    <3>2. QueueTypes'
      BY <2>0, <2>10 DEF QueueTypes, WalkOn
    <3>3. CpuTypes' /\ HasCurrent'
      BY <2>0, <2>10 DEF CpuTypes, HasCurrent, WalkOn
    <3> QED
      BY <3>1, <3>2, <3>3
  <2>11. CASE InsertBefore
    <3>1. PcbTypes'
      <4>1. current_pcb \in PCBs /\ sleep_queue[other] \in PCBs
        BY <2>0, <2>11 DEF QueueTypes, InsertBefore
      <4>2. (sleep_time \in [PCBs -> Nat])'
        BY <2>11, <4>1, SleepInsertFacts DEF PcbTypes, InsertBefore
      <4> QED
        BY <2>11, <4>2 DEF PcbTypes, InsertBefore
    <3>2. QueueTypes'
      <4> DEFINE n == IF other = 1 THEN 0 ELSE other
      <4>1. n \in 0 .. Len(sleep_queue)
        BY <2>11 DEF QueueTypes, InsertBefore
      <4>2. sleep_queue' = InsertAfter(sleep_queue, n, current_pcb)
        BY <2>11 DEF InsertBefore
      <4> HIDE DEF n
      <4>3. (sleep_queue \in Seq(PCBs))'
        BY <2>0, <2>11, <4>1, <4>2, InsertAfterFacts
           DEF QueueTypes, InsertBefore
      <4> QED
        BY <2>11, <4>3 DEF QueueTypes, InsertBefore
    <3>3. CpuTypes' /\ HasCurrent'
      BY <2>0, <2>11 DEF CpuTypes, HasCurrent, InsertBefore, GiveUpCpu
    <3> QED
      BY <3>1, <3>2, <3>3
  <2>12. CASE InsertLast
    <3>1. PcbTypes'
      BY <2>0, <2>12 DEF PcbTypes, InsertLast, GiveUpCpu
    <3>2. QueueTypes'
      <4>1. CASE ~InList(sleep_tail)
        BY <2>12, <4>1 DEF QueueTypes, InsertLast
      <4>2. CASE InList(sleep_tail)
        <5>1. PICK t \in DOMAIN sleep_queue :
                  sleep_queue' = [i \in 1 .. t + 1 |->
                      IF i <= t THEN sleep_queue[i] ELSE current_pcb]
          BY <2>12, <4>2 DEF InsertLast
        <5>a. sleep_queue \in Seq(PCBs) /\ current_pcb \in PCBs
          BY <2>0, <2>12 DEF QueueTypes, InsertLast
        <5>b. t \in 1 .. Len(sleep_queue)
          BY <5>1, <5>a
        <5>2. (sleep_queue \in Seq(PCBs))'
          BY <5>1, <5>a, <5>b, CutAndAppendFacts
        <5> QED
          BY <2>0, <2>12, <4>2, <5>2 DEF QueueTypes, InsertLast
      <4> QED
        BY <4>1, <4>2
    <3>3. CpuTypes' /\ HasCurrent'
      BY <2>0, <2>12 DEF CpuTypes, HasCurrent, InsertLast, GiveUpCpu
    <3> QED
      BY <3>1, <3>2, <3>3
  <2>13. CASE NoSleeper
    <3>1. PcbTypes'
      BY <2>0, <2>13 DEF PcbTypes, NoSleeper, NextDelay
    <3>2. QueueTypes'
      BY <2>0, <2>13 DEF QueueTypes, NoSleeper, NextDelay
    <3>3. CpuTypes' /\ HasCurrent'
      BY <2>0, <2>13 DEF CpuTypes, HasCurrent, NoSleeper, NextDelay
    <3> QED
      BY <3>1, <3>2, <3>3
  <2>14. CASE WakeSleeper
    <3>1. PcbTypes'
      BY <2>0, <2>14 DEF PcbTypes, WakeSleeper, NextDelay
    <3>2. QueueTypes'
      <4>1. Head(sleep_queue) \in PCBs /\ Tail(sleep_queue) \in Seq(PCBs)
        BY <2>14, HeadTailFacts DEF QueueTypes, WakeSleeper
      <4>2. priority[Head(sleep_queue)] \in Priorities
        BY <4>1 DEF PcbTypes
      <4>3. \/ UNCHANGED queues
            \/ EnqueueReady(Head(sleep_queue), priority[Head(sleep_queue)])
        BY <2>14 DEF WakeSleeper
      <4>4. (queues \in [Priorities -> Seq(PCBs)])'
        <5>1. queues \in [Priorities -> Seq(PCBs)]
          BY DEF QueueTypes
        <5> QED
          BY <4>1, <4>2, <4>3, <5>1, EnqueueFacts
      <4>5. (sleep_queue \in Seq(PCBs) /\ sleep_size \in Nat)'
        <5>1. sleep_queue \in Seq(PCBs) /\ sleep_size \in Nat
          BY DEF QueueTypes
        <5>2. \/ UNCHANGED <<sleep_queue, sleep_size>>
              \/ /\ sleep_size > 0
                 /\ sleep_queue' = Tail(sleep_queue)
                 /\ sleep_size' = sleep_size - 1
          BY <2>14 DEF WakeSleeper
        <5> QED
          BY <4>1, <5>1, <5>2
      <4>6. /\ sleep_tail' \in {sleep_tail, NULL}
            /\ UNCHANGED <<free_qnodes, other>>
        BY <2>14 DEF WakeSleeper
      <4> QED
        BY <4>4, <4>5, <4>6 DEF QueueTypes
    <3>3. CpuTypes' /\ HasCurrent'
      <4>1. Head(sleep_queue) \in PCBs /\ Tail(sleep_queue) \in Seq(PCBs)
        BY <2>14, HeadTailFacts DEF QueueTypes, WakeSleeper
      <4>2. Tail(sleep_queue) # <<>> => Head(Tail(sleep_queue)) \in PCBs
        BY <4>1, HeadTailFacts
      <4>3. Tail(sleep_queue) # <<>> => sleep_time[Head(Tail(sleep_queue))] \in Nat
        BY <4>2 DEF PcbTypes
      <4> DEFINE next == IF sleep_size = 1 THEN 0 ELSE sleep_time[Head(Tail(sleep_queue))]
      <4>4. UNCHANGED prev_ticks \/ (next \in Nat /\ NextDelay(next))
        BY <2>14, <4>3 DEF WakeSleeper, QueueTypes
      <4> HIDE DEF next
      <4>5. prev_ticks' \in 0 .. QUANTUM
        BY <4>4 DEF CpuTypes, NextDelay
      <4> QED
        BY <2>14, <4>5 DEF CpuTypes, HasCurrent, WakeSleeper
    <3> QED
      BY <3>1, <3>2, <3>3
  <2>15. CASE ChargeSleeper
    <3>1. PcbTypes'
      <4>1. sleep_queue # <<>> => sleep_time[Head(sleep_queue)] \in Nat
        BY HeadTailFacts DEF QueueTypes, PcbTypes
      <4>a. tick_span \in Nat /\ sleep_time \in [PCBs -> Nat]
        BY DEF CpuTypes, PcbTypes
      <4>b. sleep_queue # <<>> /\ sleep_time[Head(sleep_queue)] > tick_span =>
                sleep_time[Head(sleep_queue)] - tick_span \in Nat
        BY <4>1, <4>a
      <4>2. (sleep_time \in [PCBs -> Nat])'
        BY <2>15, <4>a, <4>b DEF ChargeSleeper
      <4> QED
        BY <2>15, <4>2 DEF PcbTypes, ChargeSleeper
    <3>2. QueueTypes'
      BY <2>0, <2>15 DEF QueueTypes, ChargeSleeper, NextDelay
    <3>3. CpuTypes' /\ HasCurrent'
      <4>1. sleep_queue # <<>> => sleep_time[Head(sleep_queue)] \in Nat
        BY HeadTailFacts DEF QueueTypes, PcbTypes
      <4>2. prev_ticks' \in 0 .. QUANTUM
        BY <2>15, <4>1 DEF ChargeSleeper, NextDelay, CpuTypes
      <4> QED
        BY <2>15, <4>2 DEF CpuTypes, HasCurrent, ChargeSleeper
    <3> QED
      BY <3>1, <3>2, <3>3
  <2>16. CASE ResumeCurrent
    <3>1. PcbTypes'
      BY <2>0, <2>16 DEF PcbTypes, ResumeCurrent, StartTimer
    <3>2. QueueTypes'
      BY <2>0, <2>16 DEF QueueTypes, ResumeCurrent, StartTimer
    <3>3. CpuTypes' /\ HasCurrent'
      BY <2>0, <2>16 DEF CpuTypes, HasCurrent, ResumeCurrent, StartTimer
    <3> QED
      BY <3>1, <3>2, <3>3
  <2>17. ASSUME NEW i \in Priorities, PickNext(i) PROVE TypeInv'
    <3>1. PcbTypes'
      BY <2>0, <2>17 DEF PcbTypes, PickNext, FreeQNode, StartTimer
    <3>2. QueueTypes'
      BY <2>0, <2>17 DEF QueueTypes, PickNext, FreeQNode, StartTimer
    <3>3. CpuTypes' /\ HasCurrent'
      <4>1. Head(queues[i]) \in PCBs
        BY <2>17, DequeueFacts DEF PickNext, FreeQNode, QueueTypes
      <4>2. CASE state[Head(queues[i])] = "READY"
        BY <2>17, <4>1, <4>2
           DEF CpuTypes, HasCurrent, PickNext, FreeQNode, StartTimer
      <4>3. CASE state[Head(queues[i])] # "READY"
        BY <2>17, <4>3 DEF CpuTypes, HasCurrent, PickNext, FreeQNode
      <4> QED
        BY <4>2, <4>3
    <3> QED
      BY <3>1, <3>2, <3>3
  <2>18. CASE NothingToRun
    <3>1. PcbTypes'
      BY <2>0, <2>18 DEF PcbTypes, NothingToRun
    <3>2. QueueTypes'
      BY <2>0, <2>18 DEF QueueTypes, NothingToRun
    <3>3. CpuTypes' /\ HasCurrent'
      BY <2>0, <2>18 DEF CpuTypes, HasCurrent, NothingToRun
    <3> QED
      BY <3>1, <3>2, <3>3
  <2>19. CASE UNCHANGED vars
    BY <2>19 DEF vars, PcbTypes, QueueTypes, CpuTypes, HasCurrent
  <2> QED
    BY <2>1, <2>2, <2>3, <2>4, <2>5, <2>6, <2>7, <2>8, <2>9, <2>10, <2>11,
       <2>12, <2>13, <2>14, <2>15, <2>16, <2>17, <2>18, <2>19
       DEF Next, Syscall, Kernel, EnqueuePrio, GetNextSleep, Resume
<1> QED
  BY <1>1, <1>2, PTL DEF Spec

-----------------------------------------------------------------------------
(* Placement: no PCB in two places *)

\* Placement survives a step that leaves the queues alone and changes only the
\* current process or processes that were not allocated.
LEMMA ReadyKept ==
    ASSUME ReadyPlaced, kpc # "halted", UNCHANGED queues,
           \A p \in allocated : p # current_pcb =>
               /\ p \in allocated' /\ p # current_pcb'
               /\ state'[p] = state[p] /\ priority'[p] = priority[p]
    PROVE  ReadyPlaced'
  BY DEF ReadyPlaced

\* The same for the sleep queue.
LEMMA SleepKept ==
    ASSUME SleepPlaced, kpc # "halted", UNCHANGED sleep_queue,
           \A p \in allocated : p # current_pcb =>
               p \in allocated' /\ p # current_pcb' /\ state'[p] = state[p]
    PROVE  SleepPlaced'
  BY DEF SleepPlaced

\* Placement of the ready queues survives schedule() of a READY process that is
\* in none of them.
LEMMA ReadyEnqueued ==
    ASSUME ReadyPlaced, kpc # "halted", queues \in [Priorities -> Seq(PCBs)],
           NEW child \in PCBs, NEW prio \in Priorities, EnqueueReady(child, prio),
           \A i \in Priorities : \A m \in 1 .. Len(queues[i]) : queues[i][m] # child,
           child \in allocated', child # current_pcb', priority'[child] = prio,
           state'[child] = "READY",
           \A p \in allocated : (p # current_pcb /\ p # child) =>
               /\ p \in allocated' /\ p # current_pcb'
               /\ state'[p] = state[p] /\ priority'[p] = priority[p]
    PROVE  ReadyPlaced'
<1>1. /\ \A i \in Priorities :
            Len(queues'[i]) = IF i = prio THEN Len(queues[i]) + 1 ELSE Len(queues[i])
      /\ \A i \in Priorities : \A m \in 1 .. Len(queues[i]) :
            queues'[i][m] = queues[i][m]
      /\ queues'[prio][Len(queues[prio]) + 1] = child
  BY EnqueueFacts
<1>2. \A i \in Priorities : \A m \in 1 .. Len(queues'[i]) :
          \/ m \in 1 .. Len(queues[i]) /\ queues'[i][m] = queues[i][m]
          \/ i = prio /\ m = Len(queues[i]) + 1 /\ queues'[i][m] = child
  BY <1>1
<1>3. ASSUME NEW i \in Priorities, NEW m \in 1 .. Len(queues'[i])
      PROVE  /\ queues'[i][m] \in allocated'
             /\ queues'[i][m] # current_pcb'
             /\ priority'[queues'[i][m]] = i
             /\ kpc' # "halted" => state'[queues'[i][m]] = "READY"
  <2>1. CASE m \in 1 .. Len(queues[i]) /\ queues'[i][m] = queues[i][m]
    <3>1. /\ queues[i][m] \in allocated /\ queues[i][m] # current_pcb
          /\ priority[queues[i][m]] = i /\ state[queues[i][m]] = "READY"
          /\ queues[i][m] # child
      BY <2>1 DEF ReadyPlaced
    <3> QED
      BY <2>1, <3>1
  <2>2. CASE i = prio /\ queues'[i][m] = child
    BY <2>2
  <2> QED
    BY <1>2, <2>1, <2>2
<1>4. ASSUME NEW i \in Priorities, NEW m \in 1 .. Len(queues'[i]),
             NEW n \in 1 .. Len(queues'[i]), queues'[i][m] = queues'[i][n]
      PROVE  m = n
  <2>1. /\ \/ m \in 1 .. Len(queues[i]) /\ queues'[i][m] = queues[i][m]
           \/ i = prio /\ m = Len(queues[i]) + 1 /\ queues'[i][m] = child
        /\ \/ n \in 1 .. Len(queues[i]) /\ queues'[i][n] = queues[i][n]
           \/ i = prio /\ n = Len(queues[i]) + 1 /\ queues'[i][n] = child
    BY <1>2
  <2>2. m \in 1 .. Len(queues[i]) /\ n \in 1 .. Len(queues[i]) =>
            (queues[i][m] = queues[i][n] => m = n)
    BY DEF ReadyPlaced
  <2> QED
    BY <1>4, <2>1, <2>2
<1> QED
  BY <1>3, <1>4 DEF ReadyPlaced

\* Each PCB is in at most one place, and the place agrees with its state and its
\* priority, for any number of processes and sleepers: also when the sleep queue
\* loses nodes no process is ever queued twice.
THEOREM PlacementHolds == Spec => [](Placement /\ CurrentInv)
<1> USE ConstantsAssumption
<1> USE DEF Goto, Panic, pcb_vars, sleep_vars, timer_vars
<1> DEFINE Types == PcbTypes /\ QueueTypes /\ current_pcb \in PCBs \cup {NULL}
<1> DEFINE PlaceInv == ReadyPlaced /\ SleepPlaced /\ CurrentInv
<1>1. Init => PlaceInv
  BY DEF Init, ReadyPlaced, SleepPlaced, CurrentInv, Priorities, NUM_QUEUES
<1>2. Types /\ Types' /\ HasCurrent /\ PlaceInv /\ [Next]_vars => PlaceInv'
  <2> SUFFICES ASSUME Types, Types', HasCurrent, ReadyPlaced, SleepPlaced,
                      CurrentInv, [Next]_vars
               PROVE  PlaceInv'
    OBVIOUS
  <2>0. kpc \in {"user", "dispatch", "enqueue_prio"} => current_pcb \in allocated
    BY DEF HasCurrent, CurrentInv
  <2>1. CASE Tick
    BY <2>1 DEF Tick, ReadyPlaced, SleepPlaced, CurrentInv
  <2>2. CASE TimerInterrupt
    BY <2>2 DEF TimerInterrupt, ReadyPlaced, SleepPlaced, CurrentInv
  <2>4. CASE Exit
    <3>1. ReadyPlaced'
      <4>1. \A p \in PCBs : p # current_pcb => state'[p] = state[p]
        BY <2>0, <2>4 DEF Exit, Trap, CleanupPcb, PcbTypes
      <4>2. kpc = "user" /\ UNCHANGED <<queues, priority, allocated, current_pcb>>
        BY <2>4 DEF Exit, Trap, CleanupPcb
      <4> QED
        BY <4>1, <4>2, ReadyKept DEF PcbTypes
    <3>2. SleepPlaced'
      BY <2>0, <2>4
         DEF Exit, Trap, CleanupPcb, SleepPlaced, PcbTypes, QueueTypes
    <3>3. CurrentInv'
      BY <2>0, <2>4 DEF Exit, Trap, CleanupPcb, CurrentInv, PcbTypes
    <3> QED
      BY <3>1, <3>2, <3>3
  <2>5. ASSUME NEW time \in SleepTimes, Msleep(time) PROVE PlaceInv'
    <3>1. ReadyPlaced'
      <4>1. \A p \in PCBs : p # current_pcb => state'[p] = state[p]
        BY <2>0, <2>5 DEF Msleep, Trap, PcbTypes
      <4>2. kpc = "user" /\ UNCHANGED <<queues, priority, allocated, current_pcb>>
        BY <2>5 DEF Msleep, Trap
      <4> QED
        BY <4>1, <4>2, ReadyKept DEF PcbTypes
    <3>2. SleepPlaced'
      BY <2>0, <2>5 DEF Msleep, Trap, SleepPlaced, PcbTypes, QueueTypes
    <3>3. CurrentInv'
      BY <2>0, <2>5 DEF Msleep, Trap, CurrentInv, PcbTypes
    <3> QED
      BY <3>1, <3>2, <3>3
  <2>6. ASSUME NEW prio \in PriorityArgs, SetPriority(prio) PROVE PlaceInv'
    <3>1. ReadyPlaced'
      <4>1. /\ kpc # "halted" /\ UNCHANGED <<queues, allocated, state, current_pcb>>
            /\ \/ UNCHANGED priority
               \/ priority' = [priority EXCEPT ![current_pcb] = prio]
        BY <2>6 DEF SetPriority, Trap
      <4>2. \A p \in allocated : p # current_pcb => priority'[p] = priority[p]
        BY <4>1 DEF PcbTypes
      <4> QED
        BY <4>1, <4>2, ReadyKept
    <3>2. SleepPlaced'
      BY <2>0, <2>6 DEF SetPriority, Trap, SleepPlaced
    <3>3. CurrentInv'
      BY <2>0, <2>6 DEF SetPriority, Trap, CurrentInv
    <3> QED
      BY <3>1, <3>2, <3>3
  <2>7. CASE NonDispatchingCall
    BY <2>7 DEF NonDispatchingCall, Trap, ReadyPlaced, SleepPlaced, CurrentInv
  <2>10. CASE WalkOn
    BY <2>10 DEF WalkOn, ReadyPlaced, SleepPlaced, CurrentInv
  <2>13. CASE NoSleeper
    BY <2>13 DEF NoSleeper, ReadyPlaced, SleepPlaced, CurrentInv
  <2>15. CASE ChargeSleeper
    BY <2>15 DEF ChargeSleeper, ReadyPlaced, SleepPlaced, CurrentInv
  <2>16. CASE ResumeCurrent
    BY <2>16 DEF ResumeCurrent, ReadyPlaced, SleepPlaced, CurrentInv
  <2>18. CASE NothingToRun
    BY <2>18 DEF NothingToRun, ReadyPlaced, SleepPlaced, CurrentInv
  <2>19. CASE UNCHANGED vars
    BY <2>19 DEF vars, ReadyPlaced, SleepPlaced, CurrentInv
  <2>3. CASE Fork
    <3>0. kpc = "user" /\ current_pcb \in PCBs /\ current_pcb \in allocated
          /\ priority[current_pcb] \in Priorities
      BY <2>0, <2>3 DEF Fork, Trap, PcbTypes
    <3>1. CASE UNCHANGED <<pcb_vars, queues>>
      BY <2>3, <3>0, <3>1 DEF Fork, ReadyPlaced, SleepPlaced, CurrentInv
    <3>2. ASSUME NEW child \in PCBs \ allocated,
                 allocated' = allocated \cup {child},
                 state' = [state EXCEPT ![child] = state[current_pcb]],
                 priority' = [priority EXCEPT ![child] = priority[current_pcb]],
                 \/ UNCHANGED queues
                 \/ EnqueueReady(child, priority[current_pcb])
          PROVE  PlaceInv'
      <4>1. /\ state'[child] = "READY" /\ priority'[child] = priority[current_pcb]
            /\ \A p \in allocated : state'[p] = state[p] /\ priority'[p] = priority[p]
        BY <3>0, <3>2 DEF PcbTypes, CurrentInv
      <4>2. UNCHANGED <<sleep_queue, current_pcb>>
        BY <2>3 DEF Fork
      <4>3. ReadyPlaced'
        <5>1. CASE UNCHANGED queues
          BY <3>0, <3>2, <4>1, <4>2, <5>1, ReadyKept
        <5>2. CASE EnqueueReady(child, priority[current_pcb])
          <6>1. queues \in [Priorities -> Seq(PCBs)]
            BY DEF QueueTypes
          <6>2. \A i \in Priorities : \A m \in 1 .. Len(queues[i]) : queues[i][m] # child
            BY <3>2 DEF ReadyPlaced
          <6> QED
            BY <3>0, <3>2, <4>1, <4>2, <5>2, <6>1, <6>2, ReadyEnqueued
        <5> QED
          BY <3>2, <5>1, <5>2
      <4>4. SleepPlaced'
        BY <3>0, <3>2, <4>1, <4>2 DEF SleepPlaced, QueueTypes
      <4>5. CurrentInv'
        BY <2>3, <3>0, <3>2, <4>1, <4>2 DEF CurrentInv, Fork
      <4> QED
        BY <4>3, <4>4, <4>5
    <3> QED
      BY <2>3, <3>1, <3>2 DEF Fork
  <2>8. CASE Dispatch
    <3>0. /\ kpc = "dispatch" /\ current_pcb \in PCBs /\ current_pcb \in allocated
          /\ priority[current_pcb] \in Priorities /\ current_pcb # NULL
      BY <2>0, <2>8 DEF Dispatch, PcbTypes
    <3>1. CASE DispatchKilled
      <4>1. \A p \in PCBs : p # current_pcb => state'[p] = state[p]
        BY <3>0, <3>1 DEF DispatchKilled, CleanupPcb, PcbTypes
      <4>2. current_pcb' = NULL
            /\ UNCHANGED <<queues, sleep_queue, priority, allocated>>
        BY <3>1 DEF DispatchKilled, GiveUpCpu
      <4>3. kpc' = "get_next_sleep"
        BY <3>1 DEF DispatchKilled
      <4> QED
        BY <3>0, <4>1, <4>2, <4>3, ReadyKept, SleepKept DEF PcbTypes, CurrentInv
    <3>2. CASE DispatchSleeping
      BY <3>0, <3>2 DEF DispatchSleeping, ReadyPlaced, SleepPlaced, CurrentInv
    <3>3. CASE DispatchPreempted /\ UNCHANGED queues
      BY <3>0, <3>3 DEF DispatchPreempted, EnqueueReady, GiveUpCpu, ReadyPlaced,
                        SleepPlaced, CurrentInv, QueueTypes
    <3>4. CASE DispatchPreempted /\ ~UNCHANGED queues
      <4>1. /\ EnqueueReady(current_pcb, priority[current_pcb])
            /\ current_pcb' = NULL /\ kpc' = "get_next_sleep"
        BY <3>4 DEF DispatchPreempted, GiveUpCpu
      <4>2. /\ UNCHANGED <<state, priority, allocated, sleep_queue>>
            /\ state[current_pcb] = "READY"
        BY <3>4 DEF DispatchPreempted
      <4>3. queues \in [Priorities -> Seq(PCBs)]
        BY DEF QueueTypes
      <4>4. \A i \in Priorities : \A m \in 1 .. Len(queues[i]) :
                queues[i][m] # current_pcb
        BY DEF ReadyPlaced
      <4>5. \A p \in allocated : p # NULL
        BY DEF PcbTypes
      <4>6. ReadyPlaced'
        BY <3>0, <4>1, <4>2, <4>3, <4>4, <4>5, ReadyEnqueued
      <4>7. SleepPlaced' /\ CurrentInv'
        BY <3>0, <4>1, <4>2, <4>5, SleepKept DEF CurrentInv
      <4> QED
        BY <4>6, <4>7
    <3>5. CASE DispatchContinues
      BY <3>0, <3>5 DEF DispatchContinues, ReadyPlaced, SleepPlaced, CurrentInv
    <3>6. CASE timer_delay < timer_count
      BY <2>8, <3>0, <3>6 DEF Dispatch, ReadyPlaced, SleepPlaced, CurrentInv
    <3> QED
      BY <2>8, <3>1, <3>2, <3>3, <3>4, <3>5, <3>6 DEF Dispatch
  <2>9. CASE EnqueueFirst
    <3>1. /\ kpc = "enqueue_prio" /\ current_pcb \in allocated
          /\ sleep_queue' = <<current_pcb>>
          /\ current_pcb' = NULL /\ kpc' = "get_next_sleep"
          /\ UNCHANGED <<state, priority, allocated, queues>>
          /\ state[current_pcb] = "SLEEPING"
      BY <2>0, <2>9 DEF EnqueueFirst, GiveUpCpu, CurrentInv
    <3>2. \A p \in allocated : p # NULL
      BY DEF PcbTypes
    <3>3. SleepPlaced'
      BY <3>1, <3>2 DEF SleepPlaced
    <3>4. ReadyPlaced' /\ CurrentInv'
      BY <3>1, <3>2, ReadyKept DEF CurrentInv
    <3> QED
      BY <3>3, <3>4
  <2>11. CASE InsertBefore
    <3> DEFINE n == IF other = 1 THEN 0 ELSE other
    <3>1. /\ kpc = "enqueue_prio" /\ current_pcb \in allocated /\ current_pcb \in PCBs
          /\ sleep_queue' = InsertAfter(sleep_queue, n, current_pcb)
          /\ current_pcb' = NULL /\ kpc' = "get_next_sleep"
          /\ UNCHANGED <<state, priority, allocated, queues>>
          /\ state[current_pcb] = "SLEEPING"
      BY <2>0, <2>11 DEF InsertBefore, GiveUpCpu, CurrentInv, PcbTypes
    <3>2. \A p \in allocated : p # NULL
      BY DEF PcbTypes
    <3>3. n \in 0 .. Len(sleep_queue) /\ sleep_queue \in Seq(PCBs)
      BY <2>11 DEF QueueTypes, InsertBefore
    <3> HIDE DEF n
    <3>4. /\ Len(sleep_queue') = Len(sleep_queue) + 1
          /\ \A i \in 1 .. Len(sleep_queue) + 1 : sleep_queue'[i] =
                IF i <= n THEN sleep_queue[i]
                ELSE IF i = n + 1 THEN current_pcb ELSE sleep_queue[i - 1]
      <4> DEFINE ins == InsertAfter(sleep_queue, n, current_pcb)
      <4>1. /\ Len(ins) = Len(sleep_queue) + 1
            /\ \A i \in 1 .. Len(sleep_queue) + 1 : ins[i] =
                  IF i <= n THEN sleep_queue[i]
                  ELSE IF i = n + 1 THEN current_pcb ELSE sleep_queue[i - 1]
        BY <3>1, <3>3 DEF InsertAfter
      <4> QED
        BY <3>1, <4>1
    <3>5. SleepPlaced'
      <4>1. \A i \in 1 .. Len(sleep_queue') :
                \/ i <= n /\ i \in 1 .. Len(sleep_queue)
                   /\ sleep_queue'[i] = sleep_queue[i]
                \/ i = n + 1 /\ sleep_queue'[i] = current_pcb
                \/ i > n + 1 /\ i - 1 \in 1 .. Len(sleep_queue)
                   /\ sleep_queue'[i] = sleep_queue[i - 1]
        BY <3>3, <3>4
      <4>2. ASSUME NEW i \in 1 .. Len(sleep_queue')
            PROVE  /\ sleep_queue'[i] \in allocated'
                   /\ sleep_queue'[i] # current_pcb'
                   /\ state'[sleep_queue'[i]] = "SLEEPING"
        BY <3>1, <3>2, <4>1 DEF SleepPlaced
      <4>3. ASSUME NEW i \in 1 .. Len(sleep_queue'),
      NEW j \in 1 .. Len(sleep_queue'),
                   sleep_queue'[i] = sleep_queue'[j]
            PROVE  i = j
        <5>1. \A k, l \in 1 .. Len(sleep_queue) :
                  /\ sleep_queue[k] = sleep_queue[l] => k = l
                  /\ sleep_queue[k] # current_pcb
          BY DEF SleepPlaced
        <5>2. CASE i = n + 1
          BY <3>3, <4>1, <4>3, <5>1, <5>2
        <5>3. CASE i # n + 1 /\ j # n + 1
          BY <3>3, <4>1, <4>3, <5>1, <5>3
        <5>4. CASE j = n + 1
          <6>1. sleep_queue'[i] = current_pcb
            BY <3>3, <4>1, <4>3, <5>4
          <6> QED
            BY <3>3, <4>1, <5>1, <5>4, <6>1
        <5> QED
          BY <5>2, <5>3, <5>4
      <4> QED
        BY <4>2, <4>3 DEF SleepPlaced
    <3>6. ReadyPlaced' /\ CurrentInv'
      BY <3>1, <3>2, ReadyKept DEF CurrentInv
    <3> QED
      BY <3>5, <3>6
  <2>12. CASE InsertLast
    <3>1. CASE ~InList(sleep_tail)
      BY <2>12, <3>1 DEF InsertLast, ReadyPlaced, SleepPlaced, CurrentInv
    <3>2. CASE InList(sleep_tail)
      <4>1. PICK t \in DOMAIN sleep_queue :
                sleep_queue' = [i \in 1 .. t + 1 |->
                    IF i <= t THEN sleep_queue[i] ELSE current_pcb]
        BY <2>12, <3>2 DEF InsertLast
      <4>2. /\ kpc = "enqueue_prio" /\ current_pcb \in allocated
            /\ current_pcb \in PCBs
            /\ current_pcb' = NULL /\ kpc' = "get_next_sleep"
            /\ UNCHANGED <<state, priority, allocated, queues>>
            /\ state[current_pcb] = "SLEEPING"
        BY <2>0, <2>12, <3>2 DEF InsertLast, GiveUpCpu, CurrentInv, PcbTypes
      <4>3. t \in 1 .. Len(sleep_queue) /\ sleep_queue \in Seq(PCBs)
        BY <4>1 DEF QueueTypes
      <4>4. /\ Len(sleep_queue') = t + 1
            /\ \A i \in 1 .. t : sleep_queue'[i] = sleep_queue[i]
            /\ sleep_queue'[t + 1] = current_pcb
        BY <4>1, <4>2, <4>3, CutAndAppendFacts
      <4>5. \A p \in allocated : p # NULL
        BY DEF PcbTypes
      <4>6. SleepPlaced'
        BY <4>2, <4>3, <4>4, <4>5, SMTT(30) DEF SleepPlaced
      <4>7. ReadyPlaced' /\ CurrentInv'
        BY <4>2, <4>5, ReadyKept DEF CurrentInv
      <4> QED
        BY <4>6, <4>7
    <3> QED
      BY <3>1, <3>2
  <2>14. CASE WakeSleeper
    <3> DEFINE p == Head(sleep_queue)
    <3>0. /\ kpc = "get_next_sleep"
          /\ sleep_queue # <<>>
          /\ state' = [state EXCEPT ![p] = "READY"]
          /\ UNCHANGED <<priority, allocated, current_pcb>>
      BY <2>14 DEF WakeSleeper
    <3>1. sleep_queue \in Seq(PCBs) /\ queues \in [Priorities -> Seq(PCBs)]
      BY DEF QueueTypes
    <3>2. /\ p = sleep_queue[1] /\ p \in PCBs /\ 1 \in 1 .. Len(sleep_queue)
          /\ Len(Tail(sleep_queue)) = Len(sleep_queue) - 1
          /\ \A m \in 1 .. Len(sleep_queue) - 1 :
                Tail(sleep_queue)[m] = sleep_queue[m + 1]
      BY <3>0, <3>1, HeadTailFacts
    <3> HIDE DEF p
    <3>3. p \in allocated /\ p # current_pcb /\ state[p] = "SLEEPING"
      BY <3>0, <3>2 DEF SleepPlaced
    <3>4. state'[p] = "READY" /\ \A q \in allocated : q # p => state'[q] = state[q]
      BY <3>0, <3>2 DEF PcbTypes
    <3>5. \A i \in Priorities : \A m \in 1 .. Len(queues[i]) : queues[i][m] # p
      BY <3>0, <3>3 DEF ReadyPlaced
    <3>6. CurrentInv'
      BY <3>0, <3>3, <3>4, <2>14 DEF CurrentInv, WakeSleeper
    <3>7. CASE free_qnodes = 0
      <4>1. UNCHANGED <<queues, sleep_queue>> /\ kpc' = "halted"
        BY <2>14, <3>7 DEF WakeSleeper
      <4>2. ReadyPlaced'
        BY <3>0, <3>4, <3>5, <4>1 DEF ReadyPlaced
      <4>3. SleepPlaced'
        BY <3>0, <4>1 DEF SleepPlaced
      <4> QED
        BY <3>6, <4>2, <4>3
    <3>8. CASE free_qnodes # 0
      <4>1. EnqueueReady(p, priority[p]) /\ sleep_queue' = Tail(sleep_queue)
        BY <2>14, <3>8 DEF WakeSleeper, p
      <4>2. priority[p] \in Priorities
        BY <3>2 DEF PcbTypes
      <4>3. ReadyPlaced'
        BY <3>0, <3>1, <3>2, <3>3, <3>4, <3>5, <4>1, <4>2, ReadyEnqueued
      <4>4. \A m \in 1 .. Len(sleep_queue') :
                m + 1 \in 1 .. Len(sleep_queue) /\ sleep_queue'[m] = sleep_queue[m + 1]
        BY <3>1, <3>2, <4>1
      <4>5. \A m \in 1 .. Len(sleep_queue') : sleep_queue'[m] # p
        BY <3>1, <3>2, <4>4 DEF SleepPlaced
      <4>6. ASSUME NEW m \in 1 .. Len(sleep_queue')
            PROVE  /\ sleep_queue'[m] \in allocated'
                   /\ sleep_queue'[m] # current_pcb'
                   /\ state'[sleep_queue'[m]] = "SLEEPING"
        BY <3>0, <3>4, <4>4, <4>5 DEF SleepPlaced
      <4>7. ASSUME NEW m \in 1 .. Len(sleep_queue'),
      NEW n \in 1 .. Len(sleep_queue'),
                   sleep_queue'[m] = sleep_queue'[n]
            PROVE  m = n
        <5>1. m + 1 = n + 1
          BY <4>4, <4>7 DEF SleepPlaced
        <5> QED
          BY <5>1, <3>1, <4>1
      <4>8. SleepPlaced'
        BY <4>6, <4>7 DEF SleepPlaced
      <4> QED
        BY <3>6, <4>3, <4>8
    <3> QED
      BY <3>7, <3>8
  <2>17. ASSUME NEW i \in Priorities, PickNext(i) PROVE PlaceInv'
    <3> DEFINE next == Head(queues[i])
    <3>0. /\ kpc = "resume" /\ current_pcb = NULL /\ queues[i] # <<>>
          /\ queues' = [queues EXCEPT ![i] = Tail(@)]
          /\ UNCHANGED <<state, priority, sleep_queue>>
      BY <2>17 DEF PickNext, FreeQNode
    <3>1. queues \in [Priorities -> Seq(PCBs)]
      BY DEF QueueTypes
    <3>2. /\ next = queues[i][1] /\ 1 \in 1 .. Len(queues[i]) /\ next \in PCBs
          /\ Len(queues'[i]) = Len(queues[i]) - 1
          /\ \A m \in 1 .. Len(queues'[i]) : queues'[i][m] = queues[i][m + 1]
          /\ \A j \in Priorities \ {i} : queues'[j] = queues[j]
      BY <3>0, <3>1, DequeueFacts
    <3>3. next \in allocated /\ state[next] = "READY" /\ priority[next] = i
      BY <3>0, <3>2 DEF ReadyPlaced
    <3>4. current_pcb' = next /\ kpc' = "user" /\ UNCHANGED allocated
      BY <2>17, <3>3 DEF PickNext, FreeQNode
    <3> HIDE DEF next
    <3>5. \A j \in Priorities : \A m \in 1 .. Len(queues'[j]) :
              \E k \in 1 .. Len(queues[j]) :
                  queues'[j][m] = queues[j][k] /\ k = IF j = i THEN m + 1 ELSE m
      BY <3>1, <3>2
    <3>6. ASSUME NEW j \in Priorities, NEW m \in 1 .. Len(queues'[j])
          PROVE  /\ queues'[j][m] \in allocated'
                 /\ queues'[j][m] # current_pcb'
                 /\ priority'[queues'[j][m]] = j
                 /\ state'[queues'[j][m]] = "READY"
      <4>1. PICK k \in 1 .. Len(queues[j]) :
                queues'[j][m] = queues[j][k] /\ k = IF j = i THEN m + 1 ELSE m
        BY <3>5
      <4>2. /\ queues[j][k] \in allocated /\ priority[queues[j][k]] = j
            /\ state[queues[j][k]] = "READY"
        BY <3>0 DEF ReadyPlaced
      <4>3. queues[j][k] # next
        <5>1. CASE j = i
          <6>1. k # 1
            BY <3>1, <3>2, <4>1, <5>1
          <6> QED
            BY <3>2, <5>1, <6>1 DEF ReadyPlaced
        <5>2. CASE j # i
          BY <3>3, <4>2, <5>2
        <5> QED
          BY <5>1, <5>2
      <4> QED
        BY <3>0, <3>4, <4>1, <4>2, <4>3
    <3>7. ASSUME NEW j \in Priorities, NEW m \in 1 .. Len(queues'[j]),
                 NEW n \in 1 .. Len(queues'[j]), queues'[j][m] = queues'[j][n]
          PROVE  m = n
      <4>1. PICK k \in 1 .. Len(queues[j]) :
                queues'[j][m] = queues[j][k] /\ k = IF j = i THEN m + 1 ELSE m
        BY <3>5
      <4>2. PICK l \in 1 .. Len(queues[j]) :
                queues'[j][n] = queues[j][l] /\ l = IF j = i THEN n + 1 ELSE n
        BY <3>5
      <4>3. k = l
        <5>1. queues[j][k] = queues[j][l]
          BY <3>7, <4>1, <4>2
        <5> QED
          BY <5>1 DEF ReadyPlaced
      <4> QED
        BY <3>1, <3>2, <4>1, <4>2, <4>3
    <3>8. ReadyPlaced'
      BY <3>6, <3>7 DEF ReadyPlaced
    <3>9. SleepPlaced'
      BY <3>0, <3>3, <3>4 DEF SleepPlaced
    <3>10. CurrentInv'
      BY <3>0, <3>3, <3>4 DEF CurrentInv
    <3> QED
      BY <3>8, <3>9, <3>10
  <2> QED
    BY <2>1, <2>2, <2>3, <2>4, <2>5, <2>6, <2>7, <2>8, <2>9, <2>10, <2>11,
       <2>12, <2>13, <2>14, <2>15, <2>16, <2>17, <2>18, <2>19
       DEF Next, Syscall, Kernel, EnqueuePrio, GetNextSleep, Resume
<1>3. TypeOK => Types
  BY DEF TypeOK, CpuTypes
<1> QED
  BY <1>1, <1>2, <1>3, TypeCorrect, PTL DEF Spec, Placement

-----------------------------------------------------------------------------
(* Address spaces *)

\* A process that runs does so in its own address space, which has not been
\* freed, although exit frees the table of the current process and dispatch
\* reloads cr3 on one of its paths only.
THEOREM AddressSpaceHolds == Spec => []AddressSpaceMatches
<1> USE ConstantsAssumption
<1> USE DEF Goto, Panic, pcb_vars, sleep_vars, timer_vars
<1>1. Init => SpaceInv
  BY DEF Init, SpaceInv
<1>2. PcbTypes /\ HasCurrent /\ Placement /\ CurrentInv /\ QueueTypes
      /\ SpaceInv /\ [Next]_vars => SpaceInv'
  <2> SUFFICES ASSUME PcbTypes, QueueTypes, HasCurrent, ReadyPlaced, SleepPlaced,
                      CurrentInv, SpaceInv, [Next]_vars
               PROVE  SpaceInv'
    BY DEF Placement
  <2>0. kpc \in {"user", "dispatch", "enqueue_prio"} =>
            current_pcb \in allocated /\ current_pcb \in PCBs
    BY DEF HasCurrent, CurrentInv, PcbTypes
  <2>1. CASE UNCHANGED <<state, cleanups, allocated, cr3>>
             /\ (current_pcb' = current_pcb \/ current_pcb' = NULL)
             /\ (kpc' = "halted" \/ kpc # "halted")
    BY <2>1 DEF SpaceInv
  <2>2. CASE Tick \/ TimerInterrupt \/ NonDispatchingCall \/ WalkOn \/ NoSleeper
             \/ ChargeSleeper \/ ResumeCurrent \/ NothingToRun
    <3>1. UNCHANGED <<state, cleanups, allocated, cr3,
    current_pcb>> /\ kpc # "halted"
      BY <2>2
         DEF Tick, TimerInterrupt, NonDispatchingCall, Trap, WalkOn, NoSleeper,
                  ChargeSleeper, ResumeCurrent, NothingToRun
    <3> QED
      BY <2>1, <3>1
  <2>3. CASE Fork
    BY <2>0, <2>3 DEF Fork, Trap, SpaceInv, PcbTypes
  <2>4. CASE Exit
    BY <2>0, <2>4 DEF Exit, Trap, CleanupPcb, SpaceInv, PcbTypes
  <2>5. ASSUME NEW time \in SleepTimes, Msleep(time) PROVE SpaceInv'
    BY <2>0, <2>5 DEF Msleep, Trap, SpaceInv, PcbTypes, CurrentInv
  <2>6. ASSUME NEW prio \in PriorityArgs, SetPriority(prio) PROVE SpaceInv'
    BY <2>1, <2>6 DEF SetPriority, Trap
  <2>8. CASE Dispatch
    <3>1. CASE DispatchKilled
      BY <2>0, <2>8, <3>1 DEF Dispatch, DispatchKilled, CleanupPcb, GiveUpCpu,
                              SpaceInv, PcbTypes
    <3>2. CASE DispatchSleeping \/ DispatchPreempted \/ DispatchContinues
      BY <2>1, <2>8, <3>2 DEF Dispatch, DispatchSleeping, DispatchPreempted,
                              DispatchContinues, GiveUpCpu
    <3>3. CASE timer_delay < timer_count
      BY <2>1, <2>8, <3>3 DEF Dispatch
    <3> QED
      BY <2>8, <3>1, <3>2, <3>3 DEF Dispatch
  <2>9. CASE EnqueueFirst \/ InsertBefore \/ InsertLast
    <3>1. /\ UNCHANGED <<state, cleanups, allocated, cr3>> /\ kpc # "halted"
          /\ current_pcb' = current_pcb \/ current_pcb' = NULL
      BY <2>9 DEF EnqueueFirst, InsertBefore, InsertLast, GiveUpCpu
    <3> QED
      BY <2>1, <3>1
  <2>14. CASE WakeSleeper
    <3> DEFINE p == Head(sleep_queue)
    <3>1. /\ kpc = "get_next_sleep" /\ sleep_queue # <<>>
          /\ state' = [state EXCEPT ![p] = "READY"]
          /\ UNCHANGED <<cleanups, allocated, cr3, current_pcb>>
      BY <2>14 DEF WakeSleeper
    <3>2. p = sleep_queue[1] /\ 1 \in 1 .. Len(sleep_queue)
      BY <3>1, HeadTailFacts DEF QueueTypes
    <3> HIDE DEF p
    <3>3. p \in allocated /\ p # current_pcb /\ state[p] = "SLEEPING"
      BY <3>1, <3>2 DEF SleepPlaced
    <3> QED
      BY <3>1, <3>3 DEF SpaceInv, PcbTypes
  <2>17. ASSUME NEW i \in Priorities, PickNext(i) PROVE SpaceInv'
    BY <2>17 DEF PickNext, FreeQNode, SpaceInv
  <2>19. CASE UNCHANGED vars
    BY <2>19 DEF vars, SpaceInv
  <2> QED
    BY <2>2, <2>3, <2>4, <2>5, <2>6, <2>8, <2>9, <2>14, <2>17, <2>19
       DEF Next, Syscall, Kernel, EnqueuePrio, GetNextSleep, Resume
<1>3. PcbTypes /\ HasCurrent /\ CurrentInv /\ SpaceInv => AddressSpaceMatches
  BY DEF HasCurrent, CurrentInv, SpaceInv, AddressSpaceMatches
<1> QED
  BY <1>1, <1>2, <1>3, TypeCorrect, PlacementHolds, PTL DEF Spec, TypeOK

-----------------------------------------------------------------------------
(* The timer *)

\* The timer invariant is inductive: dispatch never programs a delay beyond the
\* quantum or beyond the next wake-up, whatever mixture of interrupts and system
\* calls leads to it, also when an interrupt is stale.
LEMMA TimerInvariant == Spec => []TimerInv
<1> USE ConstantsAssumption
<1> USE DEF Goto, Panic, pcb_vars, sleep_vars, timer_vars
<1>1. Init => TimerInv
  BY DEF Init, TimerInv, Covers
<1>2. TypeOK /\ HasCurrent /\ SleepPlaced /\ CurrentInv /\ TimerInv /\ [Next]_vars
      => TimerInv'
  <2> SUFFICES ASSUME PcbTypes, QueueTypes, CpuTypes, HasCurrent, SleepPlaced,
                      CurrentInv, TimerInv, [Next]_vars
               PROVE  TimerInv'
    BY DEF TypeOK
  <2>1. CASE Tick
    BY <2>1 DEF Tick, TimerInv, Covers, CpuTypes
  <2>2. CASE TimerInterrupt
    BY <2>2 DEF TimerInterrupt, TimerInv
  <2>3. CASE Fork
    BY <2>3 DEF Fork, Trap, TimerInv, CpuTypes
  <2>4. CASE Exit
    BY <2>4 DEF Exit, Trap, TimerInv, CpuTypes
  <2>5. ASSUME NEW time \in SleepTimes, Msleep(time) PROVE TimerInv'
    BY <2>5 DEF Msleep, Trap, TimerInv, CpuTypes
  <2>6. ASSUME NEW prio \in PriorityArgs, SetPriority(prio) PROVE TimerInv'
    BY <2>6 DEF SetPriority, Trap, TimerInv, Covers, CpuTypes
  <2>7. CASE NonDispatchingCall
    BY <2>7 DEF NonDispatchingCall, Trap, TimerInv, Covers, CpuTypes
  <2>8. CASE Dispatch
    BY <2>8 DEF Dispatch, DispatchKilled, DispatchSleeping, DispatchPreempted,
                DispatchContinues, GiveUpCpu, QuantumAfter, Elapsed, TimerInv,
                CpuTypes
  <2>9. CASE EnqueueFirst
    BY <2>9 DEF EnqueueFirst, GiveUpCpu, TimerInv, CpuTypes
  <2>10. CASE WalkOn
    BY <2>10 DEF WalkOn, TimerInv
  <2>11. CASE InsertBefore
    <3> DEFINE n == IF other = 1 THEN 0 ELSE other
    <3>1. /\ n \in 0 .. Len(sleep_queue) /\ sleep_queue \in Seq(PCBs)
          /\ current_pcb \in PCBs
      BY <2>11 DEF QueueTypes, InsertBefore, CurrentInv, HasCurrent, CpuTypes
    <3>2. sleep_queue' = InsertAfter(sleep_queue, n, current_pcb)
      BY <2>11 DEF InsertBefore
    <3> HIDE DEF n
    <3>3. Len(sleep_queue') = Len(sleep_queue) + 1
      BY <3>1, <3>2, InsertAfterFacts
    <3> QED
      BY <2>11, <3>3 DEF InsertBefore, GiveUpCpu, TimerInv, CpuTypes, QueueTypes
  <2>12. CASE InsertLast
    <3>1. CASE ~InList(sleep_tail)
      BY <2>12, <3>1 DEF InsertLast, TimerInv
    <3>2. CASE InList(sleep_tail)
      <4>1. PICK t \in DOMAIN sleep_queue :
                sleep_queue' = [i \in 1 .. t + 1 |->
                    IF i <= t THEN sleep_queue[i] ELSE current_pcb]
        BY <2>12, <3>2 DEF InsertLast
      <4>2. t \in 1 .. Len(sleep_queue) /\ sleep_queue \in Seq(PCBs)
            /\ current_pcb \in PCBs
        <5>1. sleep_queue \in Seq(PCBs)
          BY DEF QueueTypes
        <5>2. current_pcb \in PCBs
          BY <2>12 DEF InsertLast, HasCurrent, CpuTypes
        <5> QED
          BY <4>1, <5>1, <5>2
      <4>3. Len(sleep_queue') <= Len(sleep_queue) + 1
        BY <4>1, <4>2, CutAndAppendFacts
      <4>4. Len(sleep_queue') <= sleep_size'
        BY <2>12, <3>2, <4>2, <4>3 DEF InsertLast, TimerInv, QueueTypes
      <4> QED
        BY <2>12, <3>2, <4>4 DEF InsertLast, GiveUpCpu, TimerInv, CpuTypes
    <3> QED
      BY <3>1, <3>2
  <2>13. CASE NoSleeper
    <3>1. sleep_queue = <<>>
      BY <2>13 DEF NoSleeper, TimerInv, QueueTypes
    <3> QED
      BY <2>13, <3>1 DEF NoSleeper, NextDelay, TimerInv, Covers, CpuTypes
  <2>14. CASE WakeSleeper
    <3> DEFINE rest == Tail(sleep_queue)
               next == IF sleep_size = 1 THEN 0 ELSE sleep_time[Head(rest)]
    <3>1. /\ kpc = "get_next_sleep" /\ sleep_queue # <<>> /\ sleep_queue \in Seq(PCBs)
          /\ sleep_time' = [sleep_time EXCEPT ![Head(sleep_queue)] = 0]
          /\ UNCHANGED <<quantum_left, timer_vars>>
          /\ sleep_size \in Nat /\ Len(sleep_queue) <= sleep_size
      BY <2>14 DEF WakeSleeper, QueueTypes, TimerInv
    <3>2. CASE kpc' = "halted"
      <4>1. /\ Len(rest) = Len(sleep_queue) - 1
            /\ \/ UNCHANGED <<sleep_queue, sleep_size>>
               \/ sleep_queue' = rest /\ sleep_size' = sleep_size - 1
        BY <2>14, <3>1, HeadTailFacts DEF WakeSleeper
      <4>2. Len(sleep_queue') <= sleep_size'
        BY <3>1, <4>1
      <4> QED
        BY <3>1, <3>2, <4>2 DEF TimerInv
    <3>3. CASE kpc' # "halted"
      <4>1. /\ kpc' = "resume" /\ sleep_queue' = rest /\ sleep_size' = sleep_size - 1
            /\ NextDelay(next)
            /\ rest = <<>> => ~(sleep_size > 1)
        BY <2>14, <3>1, <3>3 DEF WakeSleeper
      <4>2. /\ rest \in Seq(PCBs) /\ Len(rest) = Len(sleep_queue) - 1
            /\ Head(sleep_queue) = sleep_queue[1] /\ Len(sleep_queue) >= 1
            /\ \A m \in 1 .. Len(sleep_queue) - 1 : rest[m] = sleep_queue[m + 1]
        BY <3>1, HeadTailFacts
      <4>3. Len(sleep_queue') <= sleep_size'
        BY <3>1, <4>1, <4>2
      <4>4. ASSUME rest # <<>>
            PROVE  /\ Head(rest) = sleep_queue[2] /\ Head(rest) \in PCBs
                   /\ Head(rest) # Head(sleep_queue) /\ Len(sleep_queue) >= 2
        <5>1. Head(rest) = rest[1] /\ Len(rest) >= 1 /\ Head(rest) \in PCBs
          BY <4>2, <4>4, HeadTailFacts
        <5>2. Len(sleep_queue) >= 2 /\ Head(rest) = sleep_queue[2]
          BY <3>1, <4>2, <5>1
        <5> QED
          BY <3>1, <4>2, <5>1, <5>2 DEF SleepPlaced
      <4>5. rest # <<>> =>
                /\ sleep_time'[Head(rest)] = sleep_time[Head(rest)]
                /\ next = sleep_time[Head(rest)] /\ next \in Nat
        <5> SUFFICES ASSUME rest # <<>>
                     PROVE  /\ sleep_time'[Head(rest)] = sleep_time[Head(rest)]
                            /\ next = sleep_time[Head(rest)] /\ next \in Nat
          OBVIOUS
        <5>1. sleep_size # 1
          BY <3>1, <4>4
        <5>2. next = sleep_time[Head(rest)]
          BY <5>1
        <5>3. Head(rest) \in PCBs /\ Head(rest) # Head(sleep_queue)
          BY <4>4
        <5>4. sleep_time \in [PCBs -> Nat]
          BY DEF PcbTypes
        <5> HIDE DEF rest, next
        <5>5. sleep_time[Head(rest)] \in Nat
          BY <5>3, <5>4
        <5>6. sleep_time'[Head(rest)] = sleep_time[Head(rest)]
          BY <3>1, <5>3, <5>4
        <5> QED
          BY <5>2, <5>5, <5>6
      <4>6. rest = <<>> => next = 0
        BY <3>1, <4>1, <4>2
      <4>7. next \in Nat
        <5> HIDE DEF next
        <5>1. CASE rest = <<>>
          BY <4>6, <5>1
        <5>2. CASE rest # <<>>
          BY <4>5, <5>2
        <5> QED
          BY <5>1, <5>2
      <4>8. quantum_left > 0 /\ quantum_left \in Nat
        BY <3>1 DEF TimerInv, CpuTypes
      <4>9. Covers(prev_ticks)'
        <5>1. CASE rest = <<>>
          BY <4>1, <5>1 DEF Covers
        <5>2. CASE rest # <<>>
          <6>1. next > 0 => prev_ticks' <= next
            <7> HIDE DEF next
            <7> QED
              BY <4>1, <4>7, <4>8 DEF NextDelay
          <6> QED
            BY <4>1, <4>5, <5>2, <6>1 DEF Covers
        <5> QED
          BY <5>1, <5>2
      <4> HIDE DEF next
      <4>10. prev_ticks' > 0 /\ prev_ticks' <= quantum_left
        BY <4>1, <4>7, <4>8 DEF NextDelay
      <4> QED
        BY <3>1, <4>1, <4>3, <4>8, <4>9, <4>10 DEF TimerInv
    <3> QED
      BY <3>2, <3>3
  <2>15. CASE ChargeSleeper
    <3>1. CASE sleep_queue = <<>>
      BY <2>15, <3>1 DEF ChargeSleeper, TimerInv
    <3>2. CASE sleep_queue # <<>>
      <4> DEFINE p == Head(sleep_queue)
      <4>1. p \in PCBs /\ sleep_time[p] \in Nat /\ tick_span \in Nat
        BY <3>2, HeadTailFacts DEF QueueTypes, PcbTypes, CpuTypes
      <4>2. /\ sleep_time[p] > tick_span
            /\ sleep_time' = [sleep_time EXCEPT ![p] = sleep_time[p] - tick_span]
            /\ NextDelay(sleep_time[p] - tick_span)
            /\ kpc = "get_next_sleep" /\ kpc' = "resume"
            /\ UNCHANGED <<sleep_queue, sleep_size, quantum_left, timer_vars>>
        BY <2>15, <3>2 DEF ChargeSleeper
      <4>3. sleep_time'[p] = sleep_time[p] - tick_span
        BY <4>1, <4>2 DEF PcbTypes
      <4>4. quantum_left > 0 /\ quantum_left \in Nat
        BY <4>2 DEF TimerInv, CpuTypes
      <4> HIDE DEF p
      <4>5. /\ prev_ticks' > 0 /\ prev_ticks' <= quantum_left
            /\ prev_ticks' <= sleep_time'[p]
        BY <4>1, <4>2, <4>3, <4>4 DEF NextDelay
      <4>6. Covers(prev_ticks)'
        BY <4>2, <4>5 DEF Covers, p
      <4> QED
        BY <4>2, <4>4, <4>5, <4>6 DEF TimerInv
    <3> QED
      BY <3>1, <3>2
  <2>16. CASE ResumeCurrent
    BY <2>16 DEF ResumeCurrent, StartTimer, TimerInv, Covers, CpuTypes
  <2>17. ASSUME NEW i \in Priorities, PickNext(i) PROVE TimerInv'
    <3>1. CASE state[Head(queues[i])] = "READY"
      BY <2>17, <3>1
         DEF PickNext, FreeQNode, StartTimer, TimerInv, Covers, CpuTypes
    <3>2. CASE state[Head(queues[i])] # "READY"
      BY <2>17, <3>2 DEF PickNext, FreeQNode, TimerInv, Covers
    <3> QED
      BY <3>1, <3>2
  <2>18. CASE NothingToRun
    BY <2>18 DEF NothingToRun, TimerInv
  <2>19. CASE UNCHANGED vars
    BY <2>19 DEF vars, TimerInv, Covers
  <2> QED
    BY <2>1, <2>2, <2>3, <2>4, <2>5, <2>6, <2>7, <2>8, <2>9, <2>10, <2>11,
       <2>12, <2>13, <2>14, <2>15, <2>16, <2>17, <2>18, <2>19
       DEF Next, Syscall, Kernel, EnqueuePrio, GetNextSleep, Resume
<1> QED
  BY <1>1, <1>2, TypeCorrect, PlacementHolds, PTL DEF Spec, Placement

\* While the timer runs it covers the quantum and the first sleeper.
THEOREM TimerCovers == Spec => []TimerCoversWork
<1>1. TypeOK /\ TimerInv => TimerCoversWork
  <2> SUFFICES ASSUME CpuTypes, QueueTypes, PcbTypes, TimerInv,
                      kpc = "user", timer_count > 0
               PROVE  TimerCoversWork
    BY DEF TypeOK, TimerCoversWork
  <2>1. /\ timer_count \in Nat /\ timer_delay \in Nat /\ quantum_left \in Nat
        /\ timer_count <= timer_delay /\ timer_delay <= quantum_left
    BY ConstantsAssumption DEF CpuTypes, TimerInv
  <2>2. ASSUME sleep_queue # <<>>, sleep_time[Head(sleep_queue)] > 0
        PROVE  timer_count <= sleep_time[Head(sleep_queue)]
    <3>1. Head(sleep_queue) \in PCBs
      BY <2>2, HeadTailFacts DEF QueueTypes
    <3>2. sleep_time[Head(sleep_queue)] \in Nat
      BY <3>1 DEF PcbTypes
    <3>3. timer_delay <= sleep_time[Head(sleep_queue)]
      BY <2>2 DEF TimerInv, Covers
    <3> QED
      BY <2>1, <3>2, <3>3
  <2> QED
    BY <2>1, <2>2 DEF TimerCoversWork
<1> QED
  BY <1>1, TypeCorrect, TimerInvariant, PTL DEF TypeOK

-----------------------------------------------------------------------------
(* The sleep queue and the assertions, with at most two sleepers *)

\* With at most two sleepers the size, the list and the tail pointer of the sleep
\* queue agree whenever queue_enqueue_prio and get_next_sleep rely on it.
LEMMA SleepInvariant == ASSUME MaxSleepers <= 2 PROVE Spec => []SleepInv
<1> USE ConstantsAssumption
<1> USE DEF Goto, Panic, pcb_vars, sleep_vars, timer_vars
<1>1. Init => SleepInv
  BY DEF Init, SleepInv
<1>2. TypeOK /\ HasCurrent /\ SleepPlaced /\ CurrentInv /\ SleepInv /\ [Next]_vars
      => SleepInv'
  <2> SUFFICES ASSUME PcbTypes, QueueTypes, CpuTypes, HasCurrent, SleepPlaced,
                      CurrentInv, SleepInv, [Next]_vars
               PROVE  SleepInv'
    BY DEF TypeOK
  <2>0. sleep_queue \in Seq(PCBs) /\ sleep_size \in Nat
    BY DEF QueueTypes
  <2>1. CASE Tick \/ TimerInterrupt
    BY <2>1 DEF Tick, TimerInterrupt, SleepInv, CurrentInv
  <2>2. CASE Fork
    <3>1. /\ kpc = "user" /\ UNCHANGED <<sleep_vars, current_pcb>>
          /\ kpc' \in {"halted", "dispatch"}
      BY <2>2 DEF Fork, Trap
    <3>2. state'[current_pcb] = "READY"
      BY <2>2, <3>1 DEF Fork, CurrentInv, PcbTypes, CpuTypes, HasCurrent
    <3> QED
      BY <3>1, <3>2 DEF SleepInv
  <2>3. CASE Exit
    <3>1. state'[current_pcb] = "KILLED"
      BY <2>3 DEF Exit, Trap, CleanupPcb, PcbTypes, CpuTypes, HasCurrent
    <3> QED
      BY <2>3, <3>1 DEF Exit, Trap, SleepInv
  <2>4. ASSUME NEW time \in SleepTimes, Msleep(time) PROVE SleepInv'
    <3>1. /\ kpc = "user" /\ kpc' = "dispatch" /\ UNCHANGED <<sleep_vars, current_pcb>>
          /\ (time # 0 => sleep_size < MaxSleepers) /\ (time = 0 => UNCHANGED state)
      BY <2>4 DEF Msleep, Trap
    <3>2. CASE time = 0
      BY <3>1, <3>2 DEF SleepInv, CurrentInv
    <3>3. CASE time # 0
      <4>1. sleep_size <= 1
        BY <2>0, <3>1, <3>3
      <4> QED
        BY <3>1, <4>1 DEF SleepInv
    <3> QED
      BY <3>2, <3>3
  <2>5. ASSUME NEW prio \in PriorityArgs, SetPriority(prio) PROVE SleepInv'
    BY <2>5 DEF SetPriority, Trap, SleepInv
  <2>6. CASE NonDispatchingCall
    BY <2>6 DEF NonDispatchingCall, Trap, SleepInv
  <2>7. CASE Dispatch
    <3>1. /\ kpc = "dispatch" /\ UNCHANGED sleep_vars
          /\ kpc' \in {"halted", "get_next_sleep", "enqueue_prio"}
          /\ kpc' = "enqueue_prio" => state[current_pcb] = "SLEEPING"
      BY <2>7 DEF Dispatch, DispatchKilled, DispatchSleeping, DispatchPreempted,
                  DispatchContinues
    <3> QED
      BY <3>1 DEF SleepInv
  <2>8. CASE EnqueueFirst
    <3>1. /\ sleep_queue' = <<current_pcb>> /\ sleep_size' = 1
          /\ sleep_tail' = current_pcb /\ kpc' = "get_next_sleep"
      BY <2>8 DEF EnqueueFirst
    <3>2. Len(sleep_queue') = 1 /\ sleep_queue'[1] = current_pcb
      BY <3>1
    <3> QED
      BY <3>1, <3>2 DEF SleepInv
  <2>9. CASE WalkOn
    BY <2>9 DEF WalkOn, SleepInv
  <2>10. ASSUME kpc = "enqueue_prio", sleep_size > 0
         PROVE  Len(sleep_queue) = 1 /\ sleep_size = 1 /\ sleep_tail = sleep_queue[1]
    <3>1. sleep_size = Len(sleep_queue) /\ sleep_size <= 1
      BY <2>10 DEF SleepInv
    <3>2. Len(sleep_queue) = 1 /\ sleep_queue # <<>>
      BY <2>0, <2>10, <3>1
    <3> QED
      BY <2>10, <3>1, <3>2 DEF SleepInv
  <2>11. CASE InsertBefore
    <3>1. /\ kpc = "enqueue_prio" /\ sleep_size > 0 /\ other \in DOMAIN sleep_queue
          /\ sleep_size' = sleep_size + 1 /\ kpc' = "get_next_sleep"
          /\ UNCHANGED sleep_tail
      BY <2>11 DEF InsertBefore
    <3>2. other = 1 /\ current_pcb \in PCBs
      BY <2>0, <2>10, <3>1 DEF HasCurrent, CpuTypes
    <3> DEFINE n == IF other = 1 THEN 0 ELSE other
    <3>3. sleep_queue' = InsertAfter(sleep_queue, n, current_pcb)
      BY <2>11 DEF InsertBefore
    <3>4. n = 0 /\ n \in 0 .. Len(sleep_queue) /\ Len(sleep_queue) = 1
      BY <2>10, <3>1, <3>2
    <3> HIDE DEF n
    <3>5. /\ Len(sleep_queue') = Len(sleep_queue) + 1
          /\ \A i \in 1 .. Len(sleep_queue) + 1 : sleep_queue'[i] =
                IF i <= n THEN sleep_queue[i]
                ELSE IF i = n + 1 THEN current_pcb ELSE sleep_queue[i - 1]
      <4>1. n \in 0 .. Len(sleep_queue) /\ current_pcb \in PCBs
        BY <3>2, <3>4
      <4>2. /\ Len(InsertAfter(sleep_queue, n, current_pcb)) = Len(sleep_queue) + 1
            /\ \A i \in 1 .. Len(sleep_queue) + 1 :
                  InsertAfter(sleep_queue, n, current_pcb)[i] =
                      IF i <= n THEN sleep_queue[i]
                      ELSE IF i = n + 1 THEN current_pcb ELSE sleep_queue[i - 1]
        BY <2>0, <4>1, InsertAfterFacts
      <4> QED
        BY <3>3, <4>2
    <3>6. /\ Len(sleep_queue') = 2 /\ sleep_size' = 2 /\ sleep_tail' = sleep_queue[1]
          /\ sleep_queue'[2] = sleep_queue[1]
      <4>1. 2 \in 1 .. Len(sleep_queue) + 1 /\ ~(2 <= n) /\ 2 # n + 1 /\ 2 - 1 = 1
        BY <3>4
      <4>2. sleep_queue'[2] = sleep_queue[2 - 1]
        BY <3>5, <4>1
      <4> QED
        BY <2>10, <3>1, <3>4, <3>5, <4>1, <4>2
    <3>7. sleep_tail' = sleep_queue'[2]
      BY <3>6
    <3> QED
      BY <3>1, <3>6, <3>7 DEF SleepInv
  <2>12. CASE InsertLast
    <3>1. kpc = "enqueue_prio" /\ sleep_size > 0
      BY <2>12 DEF InsertLast
    <3>2. InList(sleep_tail)
      BY <2>0, <2>10, <3>1 DEF InList
    <3>3. PICK t \in DOMAIN sleep_queue :
              /\ sleep_queue' = [i \in 1 .. t + 1 |->
                     IF i <= t THEN sleep_queue[i] ELSE current_pcb]
              /\ sleep_tail' = current_pcb
              /\ sleep_size' = sleep_size + 1
              /\ kpc' = "get_next_sleep"
      BY <2>12, <3>2 DEF InsertLast
    <3>4. t = 1 /\ t \in 1 .. Len(sleep_queue) /\ current_pcb \in PCBs
      <4>1. Len(sleep_queue) = 1
        BY <2>10, <3>1
      <4>2. t \in 1 .. Len(sleep_queue)
        BY <2>0, <3>3
      <4>3. current_pcb \in PCBs
        BY <3>1 DEF HasCurrent, CpuTypes
      <4> QED
        BY <4>1, <4>2, <4>3
    <3>5. Len(sleep_queue') = t + 1 /\ sleep_queue'[t + 1] = current_pcb
      BY <2>0, <3>3, <3>4, CutAndAppendFacts
    <3> QED
      BY <2>10, <3>1, <3>3, <3>4, <3>5 DEF SleepInv
  <2>13. CASE NoSleeper
    BY <2>13 DEF NoSleeper, SleepInv
  <2>14. CASE WakeSleeper
    <3> DEFINE rest == Tail(sleep_queue)
    <3>1. /\ kpc = "get_next_sleep" /\ sleep_size > 0 /\ sleep_queue # <<>>
          /\ kpc' \in {"halted", "resume"}
          /\ \/ kpc' = "halted" /\ UNCHANGED sleep_size
             \/ /\ sleep_queue' = rest /\ sleep_size' = sleep_size - 1
                /\ sleep_tail' = IF sleep_tail = Head(sleep_queue) THEN NULL
                                 ELSE sleep_tail
      BY <2>14 DEF WakeSleeper
    <3>2. /\ Head(sleep_queue) = sleep_queue[1] /\ Len(rest) = Len(sleep_queue) - 1
          /\ \A n \in 1 .. Len(sleep_queue) - 1 : rest[n] = sleep_queue[n + 1]
          /\ rest \in Seq(PCBs)
      BY <2>0, <3>1, HeadTailFacts
    <3>3. /\ sleep_size = Len(sleep_queue) /\ sleep_size <= 2
          /\ sleep_tail = sleep_queue[Len(sleep_queue)]
      BY <3>1 DEF SleepInv
    <3>4. CASE kpc' = "halted"
      BY <2>0, <3>1, <3>3, <3>4 DEF SleepInv
    <3>5. CASE kpc' = "resume"
      <4>1. /\ sleep_queue' = rest /\ sleep_size' = sleep_size - 1
            /\ sleep_tail' = IF sleep_tail = Head(sleep_queue) THEN NULL
                             ELSE sleep_tail
        BY <3>1, <3>5
      <4>2. ASSUME rest # <<>>
            PROVE  /\ Len(rest) = 1 /\ rest[1] = sleep_queue[2]
                   /\ sleep_tail = sleep_queue[2] /\ sleep_queue[2] # sleep_queue[1]
        <5>1. Len(rest) = 1 /\ Len(sleep_queue) = 2
          BY <2>0, <3>2, <3>3, <4>2
        <5>2. sleep_queue[2] # sleep_queue[1]
          BY <5>1 DEF SleepPlaced
        <5> QED
          BY <3>2, <3>3, <5>1, <5>2
      <4>3. rest # <<>> => sleep_tail' = rest[Len(rest)]
        BY <3>2, <4>1, <4>2
      <4> HIDE DEF rest
      <4> QED
        BY <2>0, <3>2, <3>3, <3>5, <4>1, <4>3 DEF SleepInv
    <3> QED
      BY <3>1, <3>4, <3>5
  <2>15. CASE ChargeSleeper
    BY <2>15 DEF ChargeSleeper, SleepInv
  <2>16. CASE ResumeCurrent
    BY <2>16 DEF ResumeCurrent, SleepInv, CurrentInv
  <2>17. ASSUME NEW i \in Priorities, PickNext(i) PROVE SleepInv'
    <3>1. /\ kpc = "resume" /\ UNCHANGED sleep_vars
          /\ kpc' \in {"user", "halted", "resume"}
      BY <2>17 DEF PickNext
    <3> QED
      BY <3>1 DEF SleepInv
  <2>18. CASE NothingToRun
    BY <2>18 DEF NothingToRun, SleepInv
  <2>19. CASE UNCHANGED vars
    BY <2>19 DEF vars, SleepInv
  <2> QED
    BY <2>1, <2>2, <2>3, <2>4, <2>5, <2>6, <2>7, <2>8, <2>9, <2>11, <2>12,
       <2>13, <2>14, <2>15, <2>16, <2>17, <2>18, <2>19
       DEF Next, Syscall, Kernel, EnqueuePrio, GetNextSleep, Resume
<1> QED
  BY <1>1, <1>2, TypeCorrect, PlacementHolds, PTL DEF Spec, Placement

\* With at most two sleepers no assertion of scheduler.c and apic.c fails and no
\* queue operation follows a null or dangling pointer.  Each assertion follows
\* from one of the invariants: the states dispatch handles from Placement, the
\* three about the timer from TimerInv, the two pointers from SleepInv.
THEOREM NoAssertionFails == ASSUME MaxSleepers <= 2 PROVE Spec => []AssertionsHold
<1> USE ConstantsAssumption
<1> USE DEF Goto, Panic, AssertionsHold
<1>1. Init => AssertionsHold
  BY DEF Init
<1>2. TypeOK /\ ReadyPlaced /\ TimerInv /\ SleepInv /\ AssertionsHold /\ [Next]_vars
      => AssertionsHold'
  <2> SUFFICES ASSUME PcbTypes, QueueTypes, CpuTypes, ReadyPlaced, TimerInv,
                      SleepInv, AssertionsHold, [Next]_vars
               PROVE  AssertionsHold'
    BY DEF TypeOK
  <2>0. sleep_queue \in Seq(PCBs) /\ sleep_size \in Nat
    BY DEF QueueTypes
  <2>1. CASE Tick \/ TimerInterrupt \/ NonDispatchingCall
    BY <2>1 DEF Tick, TimerInterrupt, NonDispatchingCall
  <2>2. CASE Fork
    <3>1. UNCHANGED panic \/ panic' \in {"alloc_pcb", "no_qnode"}
      BY <2>2 DEF Fork
    <3> QED
      BY <3>1
  <2>3. CASE Exit
    BY <2>3 DEF Exit
  <2>4. ASSUME NEW time \in SleepTimes, Msleep(time) PROVE AssertionsHold'
    BY <2>4 DEF Msleep
  <2>5. ASSUME NEW prio \in PriorityArgs, SetPriority(prio) PROVE AssertionsHold'
    <3>1. UNCHANGED panic \/ panic' = "bad_priority"
      BY <2>5 DEF SetPriority
    <3> QED
      BY <3>1
  <2>6. CASE Dispatch
    <3>1. ~(timer_delay < timer_count)
      BY DEF TimerInv, CpuTypes
    <3>2. UNCHANGED panic \/ panic' = "no_qnode"
      BY <2>6, <3>1 DEF Dispatch, DispatchKilled, DispatchSleeping,
                        DispatchPreempted, DispatchContinues
    <3> QED
      BY <3>2
  <2>7. CASE EnqueueFirst \/ WalkOn \/ InsertBefore
    BY <2>7 DEF EnqueueFirst, WalkOn, InsertBefore
  <2>8. CASE InsertLast
    <3>1. kpc = "enqueue_prio" /\ sleep_size > 0
      BY <2>8 DEF InsertLast
    <3>2. sleep_queue # <<>> /\ sleep_tail = sleep_queue[Len(sleep_queue)]
      BY <2>0, <3>1 DEF SleepInv
    <3>3. InList(sleep_tail)
      BY <2>0, <3>2 DEF InList
    <3> QED
      BY <2>8, <3>3 DEF InsertLast
  <2>9. CASE NoSleeper
    BY <2>9 DEF NoSleeper
  <2>10. CASE WakeSleeper
    <3>1. kpc = "get_next_sleep" /\ sleep_queue # <<>>
      BY <2>10 DEF WakeSleeper
    <3> DEFINE rest == Tail(sleep_queue)
    <3>2. sleep_size = Len(sleep_queue) /\ Len(rest) = Len(sleep_queue) - 1
      BY <2>0, <3>1, HeadTailFacts DEF SleepInv
    <3>3. ~(sleep_size > 1 /\ rest = <<>>)
      <4> HIDE DEF rest
      <4> QED
        BY <2>0, <3>2
    <3>4. UNCHANGED panic \/ panic' = "no_qnode"
      BY <2>10, <3>3 DEF WakeSleeper
    <3> QED
      BY <3>4
  <2>11. CASE ChargeSleeper
    <3>1. kpc = "get_next_sleep" /\ sleep_size > 0
      BY <2>11 DEF ChargeSleeper
    <3>2. sleep_queue # <<>>
      BY <3>1 DEF SleepInv
    <3> QED
      BY <2>11, <3>2 DEF ChargeSleeper
  <2>12. CASE ResumeCurrent
    <3>1. quantum_left # 0
      BY <2>12 DEF ResumeCurrent, TimerInv, CpuTypes
    <3> QED
      BY <2>12, <3>1 DEF ResumeCurrent
  <2>13. ASSUME NEW i \in Priorities, PickNext(i) PROVE AssertionsHold'
    <3>1. kpc = "resume" /\ queues[i] # <<>>
      BY <2>13 DEF PickNext
    <3>2. queues \in [Priorities -> Seq(PCBs)]
      BY DEF QueueTypes
    <3>3. Len(queues[i]) >= 1 /\ Head(queues[i]) = queues[i][1]
      BY <3>1, <3>2, HeadTailFacts
    <3>4. 1 \in 1 .. Len(queues[i])
      BY <3>2, <3>3
    <3>5. state[Head(queues[i])] = "READY"
      BY <3>1, <3>3, <3>4 DEF ReadyPlaced
    <3> QED
      BY <2>13, <3>5 DEF PickNext
  <2>14. CASE NothingToRun
    <3>1. prev_ticks # 0
      BY <2>14 DEF NothingToRun, TimerInv, CpuTypes
    <3> QED
      BY <2>14, <3>1 DEF NothingToRun
  <2>15. CASE UNCHANGED vars
    BY <2>15 DEF vars
  <2> QED
    BY <2>1, <2>2, <2>3, <2>4, <2>5, <2>6, <2>7, <2>8, <2>9, <2>10, <2>11,
       <2>12, <2>13, <2>14, <2>15
       DEF Next, Syscall, Kernel, EnqueuePrio, GetNextSleep, Resume
<1> QED
  BY <1>1, <1>2, TypeCorrect, PlacementHolds, TimerInvariant, SleepInvariant, PTL
     DEF Spec, Placement

-----------------------------------------------------------------------------
(* No process is forgotten, with at most two sleepers *)

\* A process is in a queue of READY processes, or in the sleep queue.
InReady(q) == \E i \in Priorities : \E m \in 1 .. Len(queues[i]) : queues[i][m] = q
InSleep(q) == \E m \in 1 .. Len(sleep_queue) : sleep_queue[m] = q

\* Queued, before and after a step.
LEMMA QueuedSomewhere ==
    ASSUME NEW q
    PROVE  /\ Queued(q) <=> InReady(q) \/ InSleep(q)
           /\ Queued(q)' <=> InReady(q)' \/ InSleep(q)'
  BY DEF Queued, InReady, InSleep

\* schedule() puts a process in a ready queue and keeps every other one there.
LEMMA EnqueuedIsReady ==
    ASSUME queues \in [Priorities -> Seq(PCBs)],
           NEW prio \in Priorities, NEW p \in PCBs, EnqueueReady(p, prio)
    PROVE  \A q : q = p \/ InReady(q) => InReady(q)'
<1>1. /\ queues' \in [Priorities -> Seq(PCBs)]
      /\ \A i \in Priorities :
           Len(queues'[i]) = IF i = prio THEN Len(queues[i]) + 1 ELSE Len(queues[i])
      /\ \A i \in Priorities : \A m \in 1 .. Len(queues[i]) :
           queues'[i][m] = queues[i][m]
      /\ queues'[prio][Len(queues[prio]) + 1] = p
  BY EnqueueFacts
<1>2. \A i \in Priorities : Len(queues[i]) \in Nat
  OBVIOUS
<1>3. Len(queues[prio]) + 1 \in 1 .. Len(queues'[prio])
  BY <1>1, <1>2
<1>4. InReady(p)'
  BY <1>1, <1>3 DEF InReady
<1>5. ASSUME NEW q, NEW i \in Priorities, NEW m \in 1 .. Len(queues[i]),
             queues[i][m] = q
      PROVE  InReady(q)'
  <2>1. Len(queues'[i]) = Len(queues[i]) \/ Len(queues'[i]) = Len(queues[i]) + 1
    BY <1>1
  <2>2. m \in 1 .. Len(queues'[i]) /\ queues'[i][m] = q
    BY <1>1, <1>2, <1>5, <2>1
  <2> QED
    BY <2>2 DEF InReady
<1> QED
  BY <1>4, <1>5 DEF InReady

\* The removal of the head of a ready queue keeps every other process in its.
LEMMA DequeuedOthersReady ==
    ASSUME queues \in [Priorities -> Seq(PCBs)], NEW i \in Priorities,
           queues[i] # <<>>, queues' = [queues EXCEPT ![i] = Tail(@)]
    PROVE  \A q : q # Head(queues[i]) /\ InReady(q) => InReady(q)'
<1>1. /\ Head(queues[i]) = queues[i][1]
      /\ Len(queues[i]) >= 1
      /\ Len(queues'[i]) = Len(queues[i]) - 1
      /\ \A m \in 1 .. Len(queues'[i]) : queues'[i][m] = queues[i][m + 1]
      /\ \A j \in Priorities \ {i} : queues'[j] = queues[j]
  BY DequeueFacts
<1>2. ASSUME NEW q, q # queues[i][1], NEW j \in Priorities,
             NEW m \in 1 .. Len(queues[j]), queues[j][m] = q
      PROVE  InReady(q)'
  <2>1. CASE j # i
    BY <1>1, <1>2, <2>1 DEF InReady
  <2>2. CASE j = i
    <3>1. Len(queues[i]) \in Nat /\ m \in 1 .. Len(queues[i]) /\ m # 1
      BY <1>2, <2>2
    <3>2. m - 1 \in 1 .. Len(queues'[i]) /\ (m - 1) + 1 = m
      BY <1>1, <3>1
    <3>3. queues'[i][m - 1] = queues[i][(m - 1) + 1]
      BY <1>1, <3>2
    <3> QED
      BY <1>2, <2>2, <3>2, <3>3 DEF InReady
  <2> QED
    BY <2>1, <2>2
<1>3. ASSUME NEW q, q # queues[i][1], InReady(q) PROVE InReady(q)'
  <2>1. PICK j \in Priorities : \E m \in 1 .. Len(queues[j]) : queues[j][m] = q
    BY <1>3 DEF InReady
  <2> QED
    BY <1>2, <1>3, <2>1
<1> QED
  BY <1>1, <1>3

\* A process that has not exited is running or reachable in some queue, which
\* needs no more than that every insertion into the sleep queue keeps its nodes.
THEOREM NothingLost == ASSUME MaxSleepers <= 2 PROVE Spec => []NoLostProcess
<1> USE ConstantsAssumption
<1> USE DEF Goto, Panic, pcb_vars, sleep_vars, timer_vars
<1>1. Init => NoLostProcess
  BY DEF Init, NoLostProcess
<1>2. TypeOK /\ HasCurrent /\ SleepPlaced /\ CurrentInv /\ SleepInv
      /\ NoLostProcess /\ [Next]_vars => NoLostProcess'
  <2> SUFFICES ASSUME PcbTypes, QueueTypes, CpuTypes, HasCurrent, SleepPlaced,
                      CurrentInv, SleepInv, NoLostProcess, [Next]_vars,
                      kpc' # "halted", NEW p \in allocated'
               PROVE  state'[p] = "KILLED" \/ p = current_pcb' \/ Queued(p)'
    BY DEF TypeOK, NoLostProcess
  <2> DEFINE Kept == state'[p] = "KILLED" \/ p = current_pcb' \/ Queued(p)'
  <2>0. sleep_queue \in Seq(PCBs) /\ queues \in [Priorities -> Seq(PCBs)]
    BY DEF QueueTypes
  <2>1. ASSUME kpc # "halted", p \in allocated
        PROVE  state[p] = "KILLED" \/ p = current_pcb \/ Queued(p)
    BY <2>1 DEF NoLostProcess
  <2>2. ASSUME kpc # "halted", UNCHANGED <<queues, sleep_queue, allocated, current_pcb>>,
               p # current_pcb => state'[p] = state[p]
        PROVE  Kept
    BY <2>1, <2>2 DEF Queued
  <2>3. CASE Tick \/ TimerInterrupt \/ NonDispatchingCall
    BY <2>2, <2>3 DEF Tick, TimerInterrupt, NonDispatchingCall, Trap
  <2>4. CASE Fork
    <3>1. kpc = "user" /\ UNCHANGED <<sleep_queue, current_pcb>>
      BY <2>4 DEF Fork, Trap
    <3>2. PICK child \in PCBs \ allocated :
              /\ allocated' = allocated \cup {child}
              /\ state' = [state EXCEPT ![child] = state[current_pcb]]
              /\ EnqueueReady(child, priority[current_pcb])
      BY <2>4 DEF Fork
    <3>3. priority[current_pcb] \in Priorities
      BY <3>1 DEF HasCurrent, CpuTypes, PcbTypes
    <3>4. \A q : q = child \/ InReady(q) => InReady(q)'
      BY <2>0, <3>2, <3>3, EnqueuedIsReady
    <3>5. CASE p = child
      BY <3>4, <3>5, QueuedSomewhere
    <3>6. CASE p \in allocated
      <4>1. state'[p] = state[p]
        BY <3>2, <3>6 DEF PcbTypes
      <4>2. InSleep(p) => Queued(p)'
        BY <3>1 DEF InSleep, Queued
      <4> QED
        BY <2>1, <3>1, <3>4, <3>6, <4>1, <4>2, QueuedSomewhere
    <3> QED
      BY <3>2, <3>5, <3>6
  <2>5. CASE Exit
    BY <2>2, <2>5 DEF Exit, Trap, CleanupPcb, PcbTypes
  <2>6. ASSUME NEW time \in SleepTimes, Msleep(time) PROVE Kept
    BY <2>2, <2>6 DEF Msleep, Trap, PcbTypes
  <2>7. ASSUME NEW prio \in PriorityArgs, SetPriority(prio) PROVE Kept
    BY <2>2, <2>7 DEF SetPriority, Trap
  <2>8. CASE Dispatch
    <3>1. kpc = "dispatch" /\ UNCHANGED <<allocated, sleep_queue>>
          /\ (DispatchKilled \/ DispatchSleeping \/ DispatchPreempted \/ DispatchContinues)
      BY <2>8 DEF Dispatch, DispatchKilled, DispatchSleeping, DispatchPreempted,
                  DispatchContinues
    <3>2. current_pcb \in PCBs
      BY <3>1 DEF HasCurrent, CpuTypes
    <3>3. CASE DispatchKilled
      <4>1. state'[current_pcb] = "KILLED" /\ (p # current_pcb => state'[p] = state[p])
        BY <3>2, <3>3 DEF DispatchKilled, CleanupPcb, PcbTypes
      <4>2. UNCHANGED queues
        BY <3>3 DEF DispatchKilled
      <4>3. Queued(p) => Queued(p)'
        BY <3>1, <4>2 DEF Queued
      <4> QED
        BY <2>1, <3>1, <4>1, <4>3
    <3>4. CASE DispatchSleeping \/ DispatchContinues
      BY <2>2, <3>1, <3>4 DEF DispatchSleeping, DispatchContinues
    <3>5. CASE DispatchPreempted
      <4>1. EnqueueReady(current_pcb, priority[current_pcb]) /\ UNCHANGED state
        BY <3>5 DEF DispatchPreempted
      <4>2. priority[current_pcb] \in Priorities
        BY <3>2 DEF PcbTypes
      <4>3. \A q : q = current_pcb \/ InReady(q) => InReady(q)'
        BY <2>0, <3>2, <4>1, <4>2, EnqueuedIsReady
      <4>4. InSleep(p) => Queued(p)'
        BY <3>1 DEF InSleep, Queued
      <4> QED
        BY <2>1, <3>1, <4>1, <4>3, <4>4, QueuedSomewhere
    <3> QED
      BY <3>1, <3>3, <3>4, <3>5
  <2>9. ASSUME kpc = "enqueue_prio", UNCHANGED <<queues, allocated, state>>,
               \E n \in 1 .. Len(sleep_queue') : sleep_queue'[n] = current_pcb,
               \A m \in 1 .. Len(sleep_queue) : \E n \in 1 .. Len(sleep_queue') :
                   sleep_queue'[n] = sleep_queue[m]
        PROVE  Kept
    <3>1. CASE p = current_pcb
      BY <2>9, <3>1 DEF Queued
    <3>2. Queued(p) => Queued(p)'
      BY <2>9 DEF Queued
    <3> QED
      BY <2>1, <2>9, <3>1, <3>2
  <2>10. CASE EnqueueFirst
    <3>1. /\ kpc = "enqueue_prio" /\ sleep_size = 0 /\ sleep_queue' = <<current_pcb>>
          /\ UNCHANGED <<queues, allocated, state>>
      BY <2>10 DEF EnqueueFirst
    <3>2. Len(sleep_queue) = 0
      BY <3>1 DEF SleepInv
    <3>3. Len(sleep_queue') = 1 /\ sleep_queue'[1] = current_pcb
      BY <3>1
    <3> QED
      BY <2>9, <3>1, <3>2, <3>3
  <2>11. CASE WalkOn
    BY <2>2, <2>11 DEF WalkOn
  <2>12. CASE InsertBefore
    <3> DEFINE n == IF other = 1 THEN 0 ELSE other
    <3>1. /\ kpc = "enqueue_prio" /\ other \in DOMAIN sleep_queue
          /\ sleep_queue' = InsertAfter(sleep_queue, n, current_pcb)
          /\ UNCHANGED <<queues, allocated, state>>
      BY <2>12 DEF InsertBefore
    <3>2. n \in 0 .. Len(sleep_queue) /\ current_pcb \in PCBs
      BY <2>0, <3>1 DEF HasCurrent, CpuTypes
    <3> HIDE DEF n
    <3>3. /\ Len(sleep_queue') = Len(sleep_queue) + 1
          /\ \A i \in 1 .. Len(sleep_queue) + 1 : sleep_queue'[i] =
                IF i <= n THEN sleep_queue[i]
                ELSE IF i = n + 1 THEN current_pcb ELSE sleep_queue[i - 1]
      <4>1. sleep_queue \in Seq(PCBs) /\ n \in 0 .. Len(sleep_queue) /\ current_pcb \in PCBs
        BY <2>0, <3>2
      <4>2. /\ Len(InsertAfter(sleep_queue, n, current_pcb)) = Len(sleep_queue) + 1
            /\ \A i \in 1 .. Len(sleep_queue) + 1 :
                  InsertAfter(sleep_queue, n, current_pcb)[i] =
                      IF i <= n THEN sleep_queue[i]
                      ELSE IF i = n + 1 THEN current_pcb ELSE sleep_queue[i - 1]
        BY <4>1, InsertAfterFacts
      <4>3. sleep_queue' = InsertAfter(sleep_queue, n, current_pcb)
        BY <3>1
      <4> QED
        BY <4>2, <4>3
    <3>4. n + 1 \in 1 .. Len(sleep_queue') /\ sleep_queue'[n + 1] = current_pcb
      <4>1. n + 1 \in 1 .. Len(sleep_queue) + 1 /\ ~(n + 1 <= n)
        BY <2>0, <3>2
      <4> QED
        BY <3>3, <4>1
    <3>5. ASSUME NEW m \in 1 .. Len(sleep_queue)
          PROVE  \E j \in 1 .. Len(sleep_queue') : sleep_queue'[j] = sleep_queue[m]
      <4>1. CASE m <= n
        BY <2>0, <3>2, <3>3, <4>1
      <4>2. CASE ~(m <= n)
        <5>1. m + 1 \in 1 .. Len(sleep_queue) + 1 /\ ~(m + 1 <= n) /\ m + 1 # n + 1
              /\ (m + 1) - 1 = m
          BY <2>0, <3>2, <4>2
        <5>2. sleep_queue'[m + 1] = sleep_queue[(m + 1) - 1]
          BY <3>3, <5>1
        <5> QED
          BY <3>3, <5>1, <5>2
      <4> QED
        BY <4>1, <4>2
    <3> QED
      BY <2>9, <3>1, <3>4, <3>5
  <2>13. CASE InsertLast
    <3>1. /\ kpc = "enqueue_prio" /\ sleep_size > 0
          /\ UNCHANGED <<queues, allocated, state>>
      BY <2>13 DEF InsertLast
    <3>2. PICK t \in DOMAIN sleep_queue :
              /\ sleep_queue[t] = sleep_tail
              /\ sleep_queue' = [i \in 1 .. t + 1 |->
                     IF i <= t THEN sleep_queue[i] ELSE current_pcb]
      BY <2>13 DEF InsertLast
    <3>3. t \in 1 .. Len(sleep_queue) /\ current_pcb \in PCBs
      BY <2>0, <3>1, <3>2 DEF HasCurrent, CpuTypes
    <3>4. /\ Len(sleep_queue') = t + 1 /\ sleep_queue'[t + 1] = current_pcb
          /\ \A i \in 1 .. t : sleep_queue'[i] = sleep_queue[i]
      BY <2>0, <3>2, <3>3, CutAndAppendFacts
    <3>5. t = Len(sleep_queue)
      <4>1. sleep_tail = sleep_queue[Len(sleep_queue)]
        BY <2>0, <3>1, <3>3 DEF SleepInv
      <4> QED
        BY <2>0, <3>2, <3>3, <4>1 DEF SleepPlaced
    <3> QED
      BY <2>9, <3>1, <3>3, <3>4, <3>5
  <2>14. CASE NoSleeper \/ ChargeSleeper
    BY <2>2, <2>14 DEF NoSleeper, ChargeSleeper
  <2>15. CASE WakeSleeper
    <3> DEFINE first == Head(sleep_queue)
    <3>1. /\ kpc = "get_next_sleep" /\ sleep_queue # <<>>
          /\ state' = [state EXCEPT ![first] = "READY"]
          /\ EnqueueReady(first, priority[first])
          /\ sleep_queue' = Tail(sleep_queue)
          /\ UNCHANGED <<allocated, current_pcb>>
      BY <2>15 DEF WakeSleeper
    <3>2. /\ first = sleep_queue[1] /\ first \in PCBs
          /\ Len(sleep_queue') = Len(sleep_queue) - 1
          /\ \A m \in 1 .. Len(sleep_queue) - 1 : sleep_queue'[m] = sleep_queue[m + 1]
      BY <2>0, <3>1, HeadTailFacts
    <3> HIDE DEF first
    <3>3. \A q : q = first \/ InReady(q) => InReady(q)'
      <4>1. priority[first] \in Priorities
        BY <3>2 DEF PcbTypes
      <4> QED
        BY <2>0, <3>1, <3>2, <4>1, EnqueuedIsReady
    <3>4. ASSUME NEW m \in 1 .. Len(sleep_queue), m # 1, sleep_queue[m] = p
          PROVE  Queued(p)'
      <4>1. m - 1 \in 1 .. Len(sleep_queue) - 1 /\ (m - 1) + 1 = m
        BY <2>0, <3>4
      <4>2. sleep_queue'[m - 1] = sleep_queue[(m - 1) + 1]
        BY <3>2, <4>1
      <4> QED
        BY <3>2, <3>4, <4>1, <4>2 DEF Queued
    <3>5. CASE p = first
      BY <3>3, <3>5, QueuedSomewhere
    <3>6. CASE p # first
      <4>1. state'[p] = state[p]
        BY <3>1, <3>6 DEF PcbTypes
      <4>2. InSleep(p) => Queued(p)'
        BY <3>2, <3>4, <3>6 DEF InSleep
      <4> QED
        BY <2>1, <3>1, <3>3, <4>1, <4>2, QueuedSomewhere
    <3> QED
      BY <3>5, <3>6
  <2>16. CASE ResumeCurrent
    BY <2>2, <2>16 DEF ResumeCurrent
  <2>17. ASSUME NEW i \in Priorities, PickNext(i) PROVE Kept
    <3> DEFINE next == Head(queues[i])
    <3>1. /\ kpc = "resume" /\ current_pcb = NULL /\ queues[i] # <<>>
          /\ queues' = [queues EXCEPT ![i] = Tail(@)]
          /\ UNCHANGED <<sleep_queue, state>>
          /\ \/ current_pcb' = next /\ UNCHANGED allocated
             \/ allocated' = allocated \ {next} /\ UNCHANGED current_pcb
      BY <2>17 DEF PickNext
    <3>2. \A q : q # next /\ InReady(q) => InReady(q)'
      BY <2>0, <3>1, DequeuedOthersReady
    <3> HIDE DEF next
    <3>3. CASE p = next
      BY <3>1, <3>3
    <3>4. CASE p # next
      <4>1. InSleep(p) => InSleep(p)'
        BY <3>1 DEF InSleep
      <4>2. p \in allocated /\ p # current_pcb
        BY <3>1 DEF PcbTypes
      <4> QED
        BY <2>1, <3>1, <3>2, <3>4, <4>1, <4>2, QueuedSomewhere
    <3> QED
      BY <3>3, <3>4
  <2>18. CASE NothingToRun
    BY <2>18 DEF NothingToRun
  <2>19. CASE UNCHANGED vars
    BY <2>2, <2>19 DEF vars
  <2> QED
    BY <2>3, <2>4, <2>5, <2>6, <2>7, <2>8, <2>10, <2>11, <2>12, <2>13, <2>14,
       <2>15, <2>16, <2>17, <2>18, <2>19
       DEF Next, Syscall, Kernel, EnqueuePrio, GetNextSleep, Resume
<1> QED
  BY <1>1, <1>2, TypeCorrect, PlacementHolds, SleepInvariant, PTL DEF Spec, Placement

-----------------------------------------------------------------------------
(* Sleepers keep their deadlines, with at most two of them *)

\* TimeUntil of given times and a given queue, so that what is shown of it holds
\* before and after a step
Until(t, q, n) ==
    LET sum[i \in 0 .. n] == IF i = 0 THEN 0 ELSE sum[i - 1] + t[q[i]]
    IN  sum[n]

\* The function TimeUntil defines by recursion exists as far as two sleepers.
LEMMA UntilUnfolds ==
    ASSUME NEW t, NEW q, NEW n \in 0 .. 2, \A i \in 1 .. n : t[q[i]] \in Nat
    PROVE  \E sum : /\ Until(t, q, n) = sum[n]
                    /\ \A i \in 0 .. n :
                          sum[i] = IF i = 0 THEN 0 ELSE sum[i - 1] + t[q[i]]
<1> DEFINE F(g) == [i \in 0 .. n |-> IF i = 0 THEN 0 ELSE g[i - 1] + t[q[i]]]
           W == [i \in 0 .. n |-> IF i = 0 THEN 0
                                  ELSE IF i = 1 THEN t[q[1]] ELSE t[q[1]] + t[q[2]]]
           sum == CHOOSE g : g = F(g)
<1>1. W = F(W)
  <2>1. \A i \in 0 .. n : W[i] = IF i = 0 THEN 0
                                 ELSE IF i = 1 THEN t[q[1]] ELSE t[q[1]] + t[q[2]]
    OBVIOUS
  <2>2. ASSUME NEW i \in 0 .. n
        PROVE  W[i] = IF i = 0 THEN 0 ELSE W[i - 1] + t[q[i]]
    <3>1. CASE i = 0
      BY <2>1, <3>1
    <3>2. CASE i = 1
      <4>1. 0 \in 0 .. n /\ i - 1 = 0 /\ t[q[1]] \in Nat
        BY <3>2
      <4>2. W[0] = 0 /\ W[i] = t[q[1]]
        BY <2>1, <3>2, <4>1
      <4> QED
        BY <3>2, <4>1, <4>2
    <3>3. CASE i = 2
      <4>1. 1 \in 0 .. n /\ i - 1 = 1
        BY <3>3
      <4>2. W[1] = t[q[1]] /\ W[i] = t[q[1]] + t[q[2]]
        BY <2>1, <3>3, <4>1
      <4> QED
        BY <3>3, <4>1, <4>2
    <3> QED
      BY <3>1, <3>2, <3>3
  <2> QED
    BY <2>2
<1>2. sum = F(sum)
  <2> HIDE DEF F, W
  <2> QED
    BY <1>1, Zenon
<1>3. Until(t, q, n) = sum[n]
  BY DEF Until
<1> HIDE DEF sum
<1>4. \A i \in 0 .. n : sum[i] = IF i = 0 THEN 0 ELSE sum[i - 1] + t[q[i]]
  BY <1>2
<1> QED
  BY <1>3, <1>4

LEMMA UntilFacts ==
    ASSUME NEW t, NEW q
    PROVE  /\ Until(t, q, 0) = 0
           /\ t[q[1]] \in Nat => Until(t, q, 1) = t[q[1]]
           /\ t[q[1]] \in Nat /\ t[q[2]] \in Nat => Until(t, q, 2) = t[q[1]] + t[q[2]]
<1>1. Until(t, q, 0) = 0
  <2>1. PICK sum : /\ Until(t, q, 0) = sum[0]
                   /\ \A i \in 0 .. 0 :
                         sum[i] = IF i = 0 THEN 0 ELSE sum[i - 1] + t[q[i]]
    BY UntilUnfolds
  <2> QED
    BY <2>1
<1>2. ASSUME t[q[1]] \in Nat PROVE Until(t, q, 1) = t[q[1]]
  <2>1. PICK sum : /\ Until(t, q, 1) = sum[1]
                   /\ \A i \in 0 .. 1 :
                         sum[i] = IF i = 0 THEN 0 ELSE sum[i - 1] + t[q[i]]
    BY <1>2, UntilUnfolds
  <2>2. sum[0] = 0 /\ sum[1] = sum[1 - 1] + t[q[1]]
    BY <2>1
  <2> QED
    BY <1>2, <2>1, <2>2
<1>3. ASSUME t[q[1]] \in Nat, t[q[2]] \in Nat
      PROVE  Until(t, q, 2) = t[q[1]] + t[q[2]]
  <2>1. \A i \in 1 .. 2 : t[q[i]] \in Nat
    BY <1>3
  <2>2. PICK sum : /\ Until(t, q, 2) = sum[2]
                   /\ \A i \in 0 .. 2 :
                         sum[i] = IF i = 0 THEN 0 ELSE sum[i - 1] + t[q[i]]
    BY <2>1, UntilUnfolds
  <2>3. sum[0] = 0 /\ sum[1] = sum[1 - 1] + t[q[1]] /\ sum[2] = sum[2 - 1] + t[q[2]]
    BY <2>2
  <2> QED
    BY <1>3, <2>2, <2>3
<1> QED
  BY <1>1, <1>2, <1>3

LEMMA UntilPosition ==
    ASSUME NEW t \in [PCBs -> Nat], NEW q \in Seq(PCBs), Len(q) <= 2,
           \A m, n \in 1 .. Len(q) : q[m] = q[n] => m = n,
           NEW n \in 1 .. Len(q)
    PROVE  Until(t, q, CHOOSE m \in DOMAIN q : q[m] = q[n])
               = IF n = 1 THEN t[q[1]] ELSE t[q[1]] + t[q[2]]
<1>0. DOMAIN q = 1 .. Len(q) /\ Len(q) \in Nat /\ \A m \in 1 .. Len(q) : q[m] \in PCBs
  OBVIOUS
<1>1. (CHOOSE m \in DOMAIN q : q[m] = q[n]) = n
  <2>1. n \in DOMAIN q /\ \A m \in DOMAIN q : q[m] = q[n] => m = n
    BY <1>0
  <2> QED
    BY <2>1
<1>2. n = 1 \/ (n = 2 /\ 1 \in 1 .. Len(q))
  BY <1>0
<1>3. t[q[n]] \in Nat /\ t[q[1]] \in Nat
  BY <1>0, <1>2
<1> QED
  BY <1>1, <1>2, <1>3, UntilFacts

\* p is on its way into the sleep queue, is there, or neither.
Inserting(p) == kpc = "enqueue_prio" /\ p = current_pcb
Sleeper(n, p) == n \in 1 .. Len(sleep_queue) /\ sleep_queue[n] = p

\* The sleep queue holds at most two processes, each once, and not the current one.
Sleepers ==
    /\ sleep_time \in [PCBs -> Nat]
    /\ sleep_queue \in Seq(PCBs)
    /\ Len(sleep_queue) <= 2
    /\ \A m, n \in 1 .. Len(sleep_queue) : sleep_queue[m] = sleep_queue[n] => m = n
    /\ \A n \in 1 .. Len(sleep_queue) : sleep_queue[n] # current_pcb

\* What TimeLeft says of p
LeftInv(p) ==
    /\ Inserting(p) =>
          TimeLeft(p) = sleep_time[p]
              + (IF sleep_size = 0 THEN 0 ELSE Until(sleep_time, sleep_queue, other - 1))
    /\ (~Inserting(p) /\ \A n : ~Sleeper(n, p)) => TimeLeft(p) = 0 - 1
    /\ Sleeper(1, p) => TimeLeft(p) = sleep_time[p]
    /\ Sleeper(2, p) => TimeLeft(p) = sleep_time[sleep_queue[1]] + sleep_time[p]

LEMMA LeftBefore == ASSUME Sleepers, NEW p PROVE LeftInv(p)
<1>0. \A n : TimeUntil(n) = Until(sleep_time, sleep_queue, n)
  BY DEF TimeUntil, Until
<1>1. /\ sleep_time \in [PCBs -> Nat] /\ sleep_queue \in Seq(PCBs)
      /\ Len(sleep_queue) <= 2 /\ DOMAIN sleep_queue = 1 .. Len(sleep_queue)
      /\ \A m, n \in 1 .. Len(sleep_queue) : sleep_queue[m] = sleep_queue[n] => m = n
  BY DEF Sleepers
<1>2. ASSUME Inserting(p)
      PROVE  TimeLeft(p) = sleep_time[p]
              + (IF sleep_size = 0 THEN 0 ELSE Until(sleep_time, sleep_queue, other - 1))
  BY <1>0, <1>1, <1>2 DEF TimeLeft, Inserting, Sleepers
<1>3. ASSUME ~Inserting(p), \A n : ~Sleeper(n, p) PROVE TimeLeft(p) = 0 - 1
  BY <1>1, <1>3 DEF TimeLeft, Inserting, Sleeper
<1>4. ASSUME NEW n, Sleeper(n, p)
      PROVE  TimeLeft(p) = IF n = 1 THEN sleep_time[sleep_queue[1]]
                           ELSE sleep_time[sleep_queue[1]] + sleep_time[sleep_queue[2]]
  <2>1. n \in 1 .. Len(sleep_queue) /\ sleep_queue[n] = p
    BY <1>4 DEF Sleeper
  <2>2. ~Inserting(p)
    BY <2>1 DEF Sleepers, Inserting
  <2>3. TimeLeft(p) = Until(sleep_time, sleep_queue,
                            CHOOSE m \in DOMAIN sleep_queue : sleep_queue[m] = sleep_queue[n])
    BY <1>0, <1>1, <2>1, <2>2 DEF TimeLeft, Inserting
  <2> QED
    BY <1>1, <2>1, <2>3, UntilPosition
<1>5. /\ Sleeper(1, p) => TimeLeft(p) = sleep_time[p]
      /\ Sleeper(2, p) => TimeLeft(p) = sleep_time[sleep_queue[1]] + sleep_time[p]
  BY <1>4 DEF Sleeper
<1> QED
  BY <1>2, <1>3, <1>5 DEF LeftInv

LEMMA LeftAfter == ASSUME Sleepers', NEW p PROVE LeftInv(p)'
<1>0. TimeLeft(p)' =
          CASE kpc' = "enqueue_prio" /\ p = current_pcb' ->
                  sleep_time'[p] + (IF sleep_size' = 0 THEN 0
                                    ELSE Until(sleep_time', sleep_queue', other' - 1))
            [] \E n \in DOMAIN sleep_queue' : sleep_queue'[n] = p ->
                  Until(sleep_time', sleep_queue',
                        CHOOSE n \in DOMAIN sleep_queue' : sleep_queue'[n] = p)
            [] OTHER -> 0 - 1
  BY DEF TimeLeft, TimeUntil, Until
<1>1. /\ sleep_time' \in [PCBs -> Nat] /\ sleep_queue' \in Seq(PCBs)
      /\ Len(sleep_queue') <= 2 /\ DOMAIN sleep_queue' = 1 .. Len(sleep_queue')
      /\ \A m, n \in 1 .. Len(sleep_queue') : sleep_queue'[m] = sleep_queue'[n] => m = n
  BY DEF Sleepers
<1>2. ASSUME Inserting(p)'
      PROVE  TimeLeft(p)' = sleep_time'[p]
              + (IF sleep_size' = 0 THEN 0 ELSE Until(sleep_time', sleep_queue', other' - 1))
  BY <1>0, <1>1, <1>2 DEF Inserting, Sleepers
<1>3. ASSUME ~Inserting(p)', \A n : ~Sleeper(n, p)' PROVE TimeLeft(p)' = 0 - 1
  BY <1>0, <1>1, <1>3 DEF Inserting, Sleeper
<1>4. ASSUME NEW n, Sleeper(n, p)'
      PROVE  TimeLeft(p)' = IF n = 1 THEN sleep_time'[sleep_queue'[1]]
                           ELSE sleep_time'[sleep_queue'[1]] + sleep_time'[sleep_queue'[2]]
  <2>1. n \in 1 .. Len(sleep_queue') /\ sleep_queue'[n] = p
    BY <1>4 DEF Sleeper
  <2>2. ~Inserting(p)'
    BY <2>1 DEF Sleepers, Inserting
  <2>3. TimeLeft(p)' = Until(sleep_time', sleep_queue',
                            CHOOSE m \in DOMAIN sleep_queue' : sleep_queue'[m] = sleep_queue'[n])
    BY <1>0, <1>1, <2>1, <2>2 DEF Inserting
  <2> QED
    BY <1>1, <2>1, <2>3, UntilPosition
<1>5. /\ Sleeper(1, p)' => TimeLeft(p)' = sleep_time'[p]
      /\ Sleeper(2, p)' => TimeLeft(p)' = sleep_time'[sleep_queue'[1]] + sleep_time'[p]
  BY <1>4 DEF Sleeper
<1> QED
  BY <1>2, <1>3, <1>5 DEF LeftInv

\* The same sleepers with the same times, and p is not on its way into the queue.
LEMMA LeftKept ==
    ASSUME Sleepers, Sleepers', UNCHANGED sleep_queue,
           \A n \in 1 .. Len(sleep_queue) :
               sleep_time'[sleep_queue[n]] = sleep_time[sleep_queue[n]],
           NEW p, ~Inserting(p), ~Inserting(p)'
    PROVE  TimeLeft(p)' = TimeLeft(p) /\ TimeLeft(p) \in Int
<1>1. LeftInv(p) /\ LeftInv(p)'
  BY LeftBefore, LeftAfter
<1>2. /\ \A n : Sleeper(n, p)' <=> Sleeper(n, p)
      /\ \A n : Sleeper(n, p) => n = 1 \/ (n = 2 /\ 1 \in 1 .. Len(sleep_queue))
      /\ \A n \in 1 .. Len(sleep_queue) : sleep_queue[n] \in PCBs
  BY DEF Sleeper, Sleepers
<1>3. CASE \A n : ~Sleeper(n, p)
  BY <1>1, <1>2, <1>3 DEF LeftInv
<1>4. CASE Sleeper(1, p)
  <2>1. TimeLeft(p) = sleep_time[p] /\ TimeLeft(p)' = sleep_time'[p]
    BY <1>1, <1>2, <1>4 DEF LeftInv
  <2>2. sleep_time'[p] = sleep_time[p] /\ sleep_time[p] \in Nat
    BY <1>2, <1>4 DEF Sleeper, Sleepers
  <2> QED
    BY <2>1, <2>2
<1>5. CASE Sleeper(2, p)
  <2>1. /\ TimeLeft(p) = sleep_time[sleep_queue[1]] + sleep_time[p]
        /\ TimeLeft(p)' = sleep_time'[sleep_queue[1]] + sleep_time'[p]
    BY <1>1, <1>2, <1>5 DEF LeftInv
  <2>2. /\ sleep_time'[p] = sleep_time[p] /\ sleep_time[p] \in Nat
        /\ sleep_time'[sleep_queue[1]] = sleep_time[sleep_queue[1]]
        /\ sleep_time[sleep_queue[1]] \in Nat
    BY <1>2, <1>5 DEF Sleeper, Sleepers
  <2> QED
    BY <2>1, <2>2
<1> QED
  BY <1>2, <1>3, <1>4, <1>5

\* The walk of queue_enqueue_prio goes at most one node beyond the last.
WalkInv == kpc = "enqueue_prio" => other \in 1 .. Len(sleep_queue) + 1

LEMMA WalkInvariant == Spec => []WalkInv
<1> USE ConstantsAssumption
<1> USE DEF Goto, Panic, pcb_vars, sleep_vars, timer_vars
<1>1. Init => WalkInv
  BY DEF Init, WalkInv
<1>2. TypeOK /\ WalkInv /\ [Next]_vars => WalkInv'
  <2> SUFFICES ASSUME TypeOK, WalkInv, [Next]_vars PROVE WalkInv'
    OBVIOUS
  <2>0. Len(sleep_queue) \in Nat /\ DOMAIN sleep_queue = 1 .. Len(sleep_queue) /\ other \in Nat
    BY DEF TypeOK, QueueTypes
  <2>1. CASE Tick \/ UNCHANGED vars
    BY <2>1 DEF Tick, vars, WalkInv
  <2>2. CASE TimerInterrupt \/ NonDispatchingCall \/ Exit
    BY <2>2 DEF TimerInterrupt, NonDispatchingCall, Exit, WalkInv
  <2>3. CASE Fork
    <3>1. kpc' = "dispatch" \/ kpc' = "halted"
      BY <2>3 DEF Fork
    <3> QED
      BY <3>1 DEF WalkInv
  <2>4. ASSUME NEW time \in SleepTimes, Msleep(time) PROVE WalkInv'
    BY <2>4 DEF Msleep, WalkInv
  <2>5. ASSUME NEW prio \in PriorityArgs, SetPriority(prio) PROVE WalkInv'
    BY <2>5 DEF SetPriority, WalkInv
  <2>6. CASE Dispatch
    <3>1. CASE DispatchSleeping
      BY <2>0, <3>1 DEF DispatchSleeping, WalkInv
    <3>2. kpc' # "enqueue_prio" \/ DispatchSleeping
      BY <2>6 DEF Dispatch, DispatchKilled, DispatchPreempted, DispatchContinues
    <3> QED
      BY <3>1, <3>2 DEF WalkInv
  <2>7. CASE WalkOn
    <3>1. other \in 1 .. Len(sleep_queue) /\ other' = other + 1 /\ sleep_queue' = sleep_queue
      BY <2>0, <2>7 DEF WalkOn
    <3> QED
      BY <2>0, <3>1 DEF WalkInv
  <2>8. CASE EnqueueFirst \/ InsertBefore \/ InsertLast
    <3>1. kpc' # "enqueue_prio"
      BY <2>8 DEF EnqueueFirst, InsertBefore, InsertLast
    <3> QED
      BY <3>1 DEF WalkInv
  <2>9. CASE GetNextSleep
    <3>1. kpc' # "enqueue_prio"
      BY <2>9 DEF GetNextSleep, NoSleeper, WakeSleeper, ChargeSleeper
    <3> QED
      BY <3>1 DEF WalkInv
  <2>10. CASE Resume
    <3>1. kpc' # "enqueue_prio"
      BY <2>10 DEF Resume, ResumeCurrent, PickNext, NothingToRun
    <3> QED
      BY <3>1 DEF WalkInv
  <2> QED
    BY <2>1, <2>2, <2>3, <2>4, <2>5, <2>6, <2>7, <2>8, <2>9, <2>10
       DEF Next, Syscall, Kernel, EnqueuePrio
<1> QED
  BY <1>1, <1>2, TypeCorrect, PTL DEF Spec

LEMMA SleepersHold ==
    ASSUME TypeOK, SleepPlaced, TimerInv, SleepInv
    PROVE  Sleepers
<1>1. Len(sleep_queue) \in Nat /\ sleep_size \in Nat
      /\ Len(sleep_queue) <= sleep_size /\ sleep_size <= 2
  BY DEF TypeOK, QueueTypes, TimerInv, SleepInv
<1> QED
  BY <1>1 DEF TypeOK, QueueTypes, PcbTypes, SleepPlaced, Sleepers

\* While a process is inserted there is at most one sleeper.
LEMMA InsertingFacts ==
    ASSUME TypeOK, SleepInv, WalkInv, HasCurrent, SleepPlaced, kpc = "enqueue_prio"
    PROVE  /\ current_pcb \in PCBs
           /\ sleep_size = Len(sleep_queue)
           /\ sleep_size = 0 \/ sleep_size = 1
           /\ sleep_size = 1 => /\ other = 1 \/ other = 2
                                /\ sleep_queue[1] \in PCBs
                                /\ sleep_queue[1] # current_pcb
                                /\ DOMAIN sleep_queue = {1}
  BY DEF TypeOK, QueueTypes, CpuTypes, SleepInv, WalkInv, HasCurrent, SleepPlaced

\* What is left to the process that is inserted and to the sleeper that is there
LEMMA LeftInserting ==
    ASSUME TypeOK, HasCurrent, SleepPlaced, SleepInv, WalkInv, Sleepers,
           kpc = "enqueue_prio", NEW p \in PCBs, TimeLeft(p) >= 0
    PROVE  /\ p = current_pcb =>
                 TimeLeft(p) = sleep_time[current_pcb]
                     + (IF sleep_size = 1 /\ other = 2 THEN sleep_time[sleep_queue[1]] ELSE 0)
           /\ sleep_size = 1 /\ p = sleep_queue[1] =>
                 TimeLeft(p) = sleep_time[sleep_queue[1]]
           /\ p = current_pcb \/ (sleep_size = 1 /\ p = sleep_queue[1])
           /\ TimeLeft(p) \in Int
<1> DEFINE old == sleep_queue[1]
<1>1. LeftInv(p)
  BY LeftBefore
<1>2. /\ current_pcb \in PCBs /\ sleep_size = Len(sleep_queue)
      /\ sleep_size = 0 \/ sleep_size = 1
      /\ sleep_size = 1 => /\ other = 1 \/ other = 2
                           /\ old \in PCBs /\ DOMAIN sleep_queue = {1}
      /\ sleep_time \in [PCBs -> Nat]
  BY InsertingFacts DEF Sleepers
<1>3. /\ Inserting(p) <=> p = current_pcb
      /\ \A n : Sleeper(n, p) <=> sleep_size = 1 /\ n = 1 /\ p = old
  BY <1>2 DEF Inserting, Sleeper
<1>4. /\ Until(sleep_time, sleep_queue, 0) = 0
      /\ sleep_size = 1 => Until(sleep_time, sleep_queue, 1) = sleep_time[old]
  BY <1>2, UntilFacts
<1> HIDE DEF old
<1>5. p = current_pcb => TimeLeft(p) = sleep_time[current_pcb]
          + (IF sleep_size = 0 THEN 0 ELSE Until(sleep_time, sleep_queue, other - 1))
  BY <1>1, <1>3 DEF LeftInv
<1>6. p = current_pcb => TimeLeft(p) = sleep_time[current_pcb]
          + (IF sleep_size = 1 /\ other = 2 THEN sleep_time[old] ELSE 0)
  <2>1. CASE sleep_size = 0
    BY <1>5, <2>1
  <2>2. CASE sleep_size = 1 /\ other = 1
    BY <1>4, <1>5, <2>2
  <2>3. CASE sleep_size = 1 /\ other = 2
    BY <1>4, <1>5, <2>3
  <2> QED
    BY <1>2, <2>1, <2>2, <2>3
<1>7. sleep_size = 1 /\ p = old => TimeLeft(p) = sleep_time[old]
  BY <1>1, <1>3 DEF LeftInv
<1>8. p = current_pcb \/ (sleep_size = 1 /\ p = old)
  BY <1>1, <1>3 DEF LeftInv
<1>9. TimeLeft(p) \in Int
  BY <1>2, <1>6, <1>7, <1>8
<1> QED
  BY <1>6, <1>7, <1>8, <1>9 DEF old

\* The steps of queue_enqueue_prio keep the deadline of the sleeper that is there
\* and of the new one.
LEMMA InsertKeepsDeadlines ==
    ASSUME TypeOK, HasCurrent, SleepPlaced, SleepInv, WalkInv, Sleepers, Sleepers',
           EnqueuePrio, NEW p \in PCBs, TimeLeft(p) >= 0, TimeLeft(p)' >= 0
    PROVE  TimeLeft(p)' = TimeLeft(p)
<1> USE DEF pcb_vars, sleep_vars, timer_vars
<1>0. PICK cur, old : cur = current_pcb /\ old = sleep_queue[1]
  OBVIOUS
<1>1. LeftInv(p) /\ LeftInv(p)'
  BY LeftBefore, LeftAfter
<1>2. kpc = "enqueue_prio"
  BY DEF EnqueuePrio, EnqueueFirst, WalkOn, InsertBefore, InsertLast
<1>3. /\ cur \in PCBs /\ sleep_size = Len(sleep_queue)
      /\ sleep_size = 0 \/ sleep_size = 1
      /\ sleep_size = 1 => /\ other = 1 \/ other = 2
                           /\ old \in PCBs /\ old # cur
                           /\ DOMAIN sleep_queue = {1}
  BY <1>0, <1>2, InsertingFacts
<1>4. /\ sleep_time \in [PCBs -> Nat] /\ sleep_time' \in [PCBs -> Nat]
      /\ sleep_queue \in Seq(PCBs) /\ sleep_queue' \in Seq(PCBs)
  BY DEF Sleepers
<1>5. /\ Inserting(p) <=> p = cur
      /\ \A n : Sleeper(n, p) <=> sleep_size = 1 /\ n = 1 /\ p = old
  BY <1>0, <1>2, <1>3 DEF Inserting, Sleeper
<1>6. /\ p = cur => TimeLeft(p) = sleep_time[cur]
              + (IF sleep_size = 1 /\ other = 2 THEN sleep_time[old] ELSE 0)
      /\ sleep_size = 1 /\ p = old => TimeLeft(p) = sleep_time[old]
      /\ p = cur \/ (sleep_size = 1 /\ p = old)
  BY <1>0, <1>2, LeftInserting
<1>7. CASE EnqueueFirst
  <2>1. /\ sleep_size = 0 /\ sleep_queue' = <<cur>> /\ kpc' = "get_next_sleep"
        /\ sleep_time' = sleep_time
    BY <1>0, <1>7 DEF EnqueueFirst, Goto
  <2>2. Sleeper(1, cur)'
    <3>1. Len(sleep_queue') = 1 /\ sleep_queue'[1] = cur
      BY <2>1
    <3> QED
      BY <3>1 DEF Sleeper
  <2> QED
    BY <1>1, <1>3, <1>4, <1>6, <2>1, <2>2 DEF LeftInv
<1>8. CASE WalkOn
  <2>1. /\ sleep_size = 1 /\ other = 1 /\ sleep_time[cur] > sleep_time[old]
        /\ sleep_time' = SleepInsert(cur, old) /\ other' = 2
        /\ UNCHANGED <<sleep_queue, sleep_size, current_pcb, kpc>>
    <3>1. sleep_size = 1 /\ other \in DOMAIN sleep_queue /\ DOMAIN sleep_queue = {1}
      BY <1>3, <1>8 DEF WalkOn
    <3> QED
      BY <1>0, <1>8, <3>1 DEF WalkOn
  <2>2. /\ sleep_time'[cur] = sleep_time[cur] - sleep_time[old]
        /\ sleep_time'[old] = sleep_time[old]
    BY <1>3, <1>4, <2>1 DEF SleepInsert
  <2>3. CASE p = cur
    <3>1. Inserting(p)' /\ sleep_size' = 1 /\ other' - 1 = 1
      BY <1>0, <1>2, <2>1, <2>3 DEF Inserting
    <3>2. Until(sleep_time', sleep_queue', 1) = sleep_time[old]
      BY <1>0, <1>3, <1>4, <2>1, <2>2, UntilFacts
    <3>3. TimeLeft(p)' = sleep_time'[p] + sleep_time[old]
      BY <1>1, <3>1, <3>2 DEF LeftInv
    <3> QED
      BY <1>3, <1>4, <1>6, <2>1, <2>2, <2>3, <3>3
  <2>4. CASE p = old
    <3>1. Sleeper(1, p)'
      BY <1>5, <2>1, <2>4 DEF Sleeper
    <3> QED
      BY <1>1, <1>6, <2>1, <2>2, <2>4, <3>1 DEF LeftInv
  <2> QED
    BY <1>6, <2>3, <2>4
<1>9. CASE InsertBefore
  <2>1. /\ sleep_size = 1 /\ other = 1 /\ sleep_time[cur] <= sleep_time[old]
        /\ sleep_time' = SleepInsert(cur, old)
        /\ sleep_queue' = InsertAfter(sleep_queue, 0, cur)
    <3>1. sleep_size = 1 /\ other \in DOMAIN sleep_queue /\ DOMAIN sleep_queue = {1}
      BY <1>3, <1>9 DEF InsertBefore
    <3> QED
      BY <1>0, <1>9, <3>1 DEF InsertBefore
  <2>2. /\ sleep_time'[cur] = sleep_time[cur]
        /\ sleep_time'[old] = sleep_time[old] - sleep_time[cur]
    BY <1>3, <1>4, <2>1 DEF SleepInsert
  <2>3. Len(sleep_queue') = 2 /\ sleep_queue'[1] = cur /\ sleep_queue'[2] = old
    <3>1. Len(sleep_queue) = 1
      BY <1>3, <2>1
    <3> QED
      BY <1>0, <2>1, <3>1 DEF InsertAfter
  <2>4. Sleeper(1, cur)' /\ Sleeper(2, old)'
    BY <2>3 DEF Sleeper
  <2>5. CASE p = cur
    BY <1>1, <1>3, <1>4, <1>6, <2>1, <2>2, <2>4, <2>5 DEF LeftInv
  <2>6. CASE p = old
    <3>1. TimeLeft(p)' = sleep_time'[cur] + sleep_time'[old]
      BY <1>1, <2>3, <2>4, <2>6 DEF LeftInv
    <3> QED
      BY <1>3, <1>4, <1>6, <2>1, <2>2, <2>6, <3>1
  <2> QED
    BY <1>6, <2>5, <2>6
<1>10. CASE InsertLast
  <2>1. /\ sleep_size = 1 /\ other = 2 /\ sleep_time' = sleep_time
    <3>1. sleep_size = 1 /\ other \notin DOMAIN sleep_queue /\ DOMAIN sleep_queue = {1}
      BY <1>3, <1>10 DEF InsertLast
    <3> QED
      BY <1>3, <1>10, <3>1 DEF InsertLast
  <2>2. CASE sleep_queue' = sleep_queue
    <3>1. Sleeper(1, old)'
      BY <1>0, <1>3, <2>1, <2>2 DEF Sleeper
    <3>2. p = old
      <4>1. kpc' = "halted" \/ Sleeper(2, cur)'
        <5>1. kpc' = "halted" \/ \E t \in DOMAIN sleep_queue :
                  sleep_queue' = [i \in 1 .. t + 1 |-> IF i <= t THEN sleep_queue[i] ELSE cur]
          BY <1>0, <1>10 DEF InsertLast, Panic
        <5>2. ASSUME NEW t \in DOMAIN sleep_queue,
                     sleep_queue' = [i \in 1 .. t + 1 |-> IF i <= t THEN sleep_queue[i] ELSE cur]
              PROVE  FALSE
          <6>1. t = 1
            BY <1>3, <2>1, <5>2
          <6>2. Len(sleep_queue') = 2
            BY <5>2, <6>1
          <6> QED
            BY <1>3, <2>1, <2>2, <6>2
        <5> QED
          BY <5>1, <5>2
      <4>2. Len(sleep_queue') = 1
        BY <1>3, <2>1, <2>2
      <4>3. kpc' = "halted"
        BY <4>1, <4>2 DEF Sleeper
      <4>4. ASSUME p = cur PROVE FALSE
        <5>1. ~Inserting(p)'
          BY <4>3 DEF Inserting
        <5>2. \A n : ~Sleeper(n, p)'
          BY <1>5, <2>2, <4>4, <1>3 DEF Sleeper
        <5> QED
          BY <1>1, <5>1, <5>2 DEF LeftInv
      <4> QED
        BY <1>6, <4>4
    <3> QED
      BY <1>1, <1>6, <2>1, <3>1, <3>2 DEF LeftInv
  <2>3. CASE sleep_queue' # sleep_queue
    <3>1. PICK t \in DOMAIN sleep_queue :
              sleep_queue' = [i \in 1 .. t + 1 |-> IF i <= t THEN sleep_queue[i] ELSE cur]
      BY <1>0, <1>10, <2>3 DEF InsertLast
    <3>2. t = 1
      BY <1>3, <2>1, <3>1
    <3>3. Len(sleep_queue') = 2 /\ sleep_queue'[1] = old /\ sleep_queue'[2] = cur
      BY <1>0, <3>1, <3>2
    <3>4. Sleeper(1, old)' /\ Sleeper(2, cur)'
      BY <3>3 DEF Sleeper
    <3>5. CASE p = cur
      <4>1. TimeLeft(p)' = sleep_time[old] + sleep_time[cur]
        BY <1>1, <2>1, <3>3, <3>4, <3>5 DEF LeftInv
      <4> QED
        BY <1>3, <1>4, <1>6, <2>1, <3>5, <4>1
    <3>6. CASE p = old
      BY <1>1, <1>6, <2>1, <3>4, <3>6 DEF LeftInv
    <3> QED
      BY <1>6, <3>5, <3>6
  <2> QED
    BY <2>2, <2>3
<1> QED
  BY <1>7, <1>8, <1>9, <1>10 DEF EnqueuePrio

\* Inserting a sleeper leaves the deadlines of the others alone and gives the new
\* one the time it asked for, and get_next_sleep charges them all the same.  (With
\* three sleepers queue_enqueue_prio can link the new one at the wrong place.)
THEOREM DeadlinesHold == ASSUME MaxSleepers <= 2 PROVE Spec => DeadlinesKept
<1> USE ConstantsAssumption
<1> USE DEF Goto, Panic, pcb_vars, sleep_vars, timer_vars
<1> DEFINE Inv == /\ TypeOK /\ HasCurrent /\ SleepPlaced /\ CurrentInv /\ TimerInv
                  /\ SleepInv /\ WalkInv
           Kept(p) == (TimeLeft(p) >= 0 /\ TimeLeft(p)' >= 0) =>
                          TimeLeft(p)' = TimeLeft(p) - Charged
<1>1. Inv /\ Inv' /\ [Next]_vars => [\A p \in PCBs : Kept(p)]_vars
  <2> SUFFICES ASSUME Inv, Inv', Next, NEW p \in PCBs PROVE Kept(p)
    OBVIOUS
  <2> HIDE DEF Inv
  <2>0. Sleepers /\ Sleepers' /\ LeftInv(p) /\ LeftInv(p)'
    <3>1. Sleepers
      BY SleepersHold DEF Inv
    <3>2. Sleepers'
      <4>1. Len(sleep_queue') \in Nat /\ sleep_size' \in Nat
            /\ Len(sleep_queue') <= sleep_size' /\ sleep_size' <= 2
        BY DEF Inv, TypeOK, QueueTypes, TimerInv, SleepInv
      <4>2. sleep_time' \in [PCBs -> Nat] /\ sleep_queue' \in Seq(PCBs)
        BY DEF Inv, TypeOK, QueueTypes, PcbTypes
      <4>3. SleepPlaced'
        BY DEF Inv
      <4>4. /\ \A m, n \in 1 .. Len(sleep_queue') : sleep_queue'[m] = sleep_queue'[n] => m = n
            /\ \A n \in 1 .. Len(sleep_queue') : sleep_queue'[n] # current_pcb'
        BY <4>3 DEF SleepPlaced
      <4> QED
        BY <4>1, <4>2, <4>4 DEF Sleepers
    <3> QED
      BY <3>1, <3>2, LeftBefore, LeftAfter
  <2>1. /\ PcbTypes /\ \A n \in 1 .. Len(sleep_queue) :
               sleep_queue[n] \in allocated /\ sleep_queue[n] # current_pcb
        /\ DOMAIN sleep_queue = 1 .. Len(sleep_queue) /\ Len(sleep_queue) \in Nat
    <3>1. PcbTypes /\ SleepPlaced
      BY DEF Inv, TypeOK
    <3>2. sleep_queue \in Seq(PCBs)
      BY <2>0 DEF Sleepers
    <3>3. \A n \in 1 .. Len(sleep_queue) :
               sleep_queue[n] \in allocated /\ sleep_queue[n] # current_pcb
      BY <3>1 DEF SleepPlaced
    <3> QED
      BY <3>1, <3>2, <3>3
  <2>2. ASSUME Charged = 0, UNCHANGED sleep_queue,
               \A n \in 1 .. Len(sleep_queue) :
                   sleep_time'[sleep_queue[n]] = sleep_time[sleep_queue[n]],
               ~Inserting(p), ~Inserting(p)'
        PROVE  Kept(p)
    BY <2>0, <2>2, LeftKept
  <2>3. ASSUME ~(kpc = "get_next_sleep" /\ kpc' # kpc /\ sleep_queue # <<>>)
        PROVE  Charged = 0
    BY <2>3 DEF Charged
  <2>4. ASSUME kpc # "enqueue_prio", kpc' # "enqueue_prio",
               kpc # "get_next_sleep" \/ kpc' = kpc, UNCHANGED <<sleep_queue, sleep_time>>
        PROVE  Kept(p)
    BY <2>2, <2>3, <2>4 DEF Inserting
  <2>5. CASE Tick
    <3>1. CASE kpc = "enqueue_prio" /\ p = current_pcb
      <4>1. TimeLeft(p)' = TimeLeft(p)
        BY <2>5 DEF Tick, TimeLeft, TimeUntil
      <4>2. TimeLeft(p) >= 0 => TimeLeft(p) \in Int
        BY <2>0, <3>1, LeftInserting DEF Inv
      <4> QED
        BY <2>3, <2>5, <4>1, <4>2 DEF Tick
    <3>2. CASE ~(kpc = "enqueue_prio" /\ p = current_pcb)
      BY <2>2, <2>3, <2>5, <3>2 DEF Tick, Inserting
    <3> QED
      BY <3>1, <3>2
  <2>6. CASE TimerInterrupt \/ NonDispatchingCall \/ Exit
    BY <2>4, <2>6 DEF TimerInterrupt, NonDispatchingCall, Exit, Trap, CleanupPcb
  <2>7. CASE Fork
    <3>1. /\ kpc = "user" /\ kpc' # "enqueue_prio" /\ UNCHANGED sleep_queue
      BY <2>7 DEF Fork, Trap
    <3>2. \A n \in 1 .. Len(sleep_queue) :
              sleep_time'[sleep_queue[n]] = sleep_time[sleep_queue[n]]
      <4>1. \/ UNCHANGED sleep_time
            \/ \E child \in PCBs \ allocated :
                  sleep_time' = [sleep_time EXCEPT ![child] = sleep_time[current_pcb]]
        BY <2>7 DEF Fork
      <4> QED
        BY <2>1, <4>1 DEF PcbTypes
    <3> QED
      BY <2>2, <2>3, <3>1, <3>2 DEF Inserting
  <2>8. ASSUME NEW time \in SleepTimes, Msleep(time) PROVE Kept(p)
    <3>1. /\ kpc = "user" /\ kpc' = "dispatch" /\ UNCHANGED sleep_queue
          /\ \/ UNCHANGED sleep_time
             \/ sleep_time' = [sleep_time EXCEPT ![current_pcb] = time]
      BY <2>8 DEF Msleep, Trap
    <3>2. \A n \in 1 .. Len(sleep_queue) :
              sleep_time'[sleep_queue[n]] = sleep_time[sleep_queue[n]]
      BY <2>1, <3>1 DEF PcbTypes
    <3> QED
      BY <2>2, <2>3, <3>1, <3>2 DEF Inserting
  <2>9. ASSUME NEW prio \in PriorityArgs, SetPriority(prio) PROVE Kept(p)
    <3>1. kpc = "user" /\ kpc' # "enqueue_prio" /\ UNCHANGED <<sleep_queue, sleep_time>>
      BY <2>9 DEF SetPriority, Trap
    <3> QED
      BY <2>4, <3>1
  <2>10. CASE Dispatch
    <3>1. kpc = "dispatch" /\ UNCHANGED <<sleep_queue, sleep_time>>
      BY <2>10 DEF Dispatch, DispatchKilled, DispatchSleeping, DispatchPreempted,
                   DispatchContinues, CleanupPcb
    <3>2. CASE p = current_pcb
      <4>1. TimeLeft(p) = 0 - 1
        BY <2>0, <2>1, <3>1, <3>2 DEF LeftInv, Inserting, Sleeper
      <4> QED
        BY <4>1
    <3>3. CASE p # current_pcb
      <4>1. kpc' = "enqueue_prio" => UNCHANGED current_pcb
        BY <2>10 DEF Dispatch, DispatchKilled, DispatchSleeping, DispatchPreempted,
                     DispatchContinues
      <4> QED
        BY <2>2, <2>3, <3>1, <3>3, <4>1 DEF Inserting
    <3> QED
      BY <3>2, <3>3
  <2>11. CASE EnqueuePrio
    <3>1. kpc = "enqueue_prio"
      BY <2>11 DEF EnqueuePrio, EnqueueFirst, WalkOn, InsertBefore, InsertLast
    <3>2. TimeLeft(p) >= 0 /\ TimeLeft(p)' >= 0 => TimeLeft(p)' = TimeLeft(p)
      BY <2>0, <2>11, InsertKeepsDeadlines DEF Inv
    <3>3. TimeLeft(p) >= 0 => TimeLeft(p) \in Int
      BY <2>0, <3>1, LeftInserting DEF Inv
    <3> QED
      BY <2>3, <3>1, <3>2, <3>3
  <2>12. CASE GetNextSleep /\ sleep_queue = <<>>
    <3>1. kpc = "get_next_sleep"
      BY <2>12 DEF GetNextSleep, NoSleeper, WakeSleeper, ChargeSleeper
    <3>2. Len(sleep_queue) = 0 /\ sleep_size = 0
      BY <2>12, <3>1 DEF Inv, SleepInv
    <3>3. kpc' = "resume" /\ UNCHANGED <<sleep_queue, sleep_time>>
      BY <2>12, <3>2 DEF GetNextSleep, NoSleeper, WakeSleeper, ChargeSleeper
    <3> QED
      BY <2>2, <2>3, <2>12, <3>1, <3>3 DEF Inserting
  <2>13. CASE GetNextSleep /\ sleep_queue # <<>>
    <3>1. PICK first : first = sleep_queue[1]
      OBVIOUS
    <3>2. /\ first = Head(sleep_queue) /\ first \in PCBs /\ sleep_time[first] \in Nat
          /\ 1 \in 1 .. Len(sleep_queue) /\ tick_span \in Nat
      <4>1. sleep_queue \in Seq(PCBs) /\ sleep_queue # <<>> /\ tick_span \in Nat
        BY <2>13 DEF Inv, TypeOK, QueueTypes, CpuTypes
      <4>2. Len(sleep_queue) >= 1 /\ Head(sleep_queue) = sleep_queue[1]
            /\ Head(sleep_queue) \in PCBs
        BY <4>1, HeadTailFacts
      <4> QED
        BY <2>1, <3>1, <4>1, <4>2 DEF PcbTypes
    <3>3. sleep_size > 0 /\ sleep_size = Len(sleep_queue) /\ kpc = "get_next_sleep"
      BY <2>1, <2>13, <3>2 DEF Inv, SleepInv, GetNextSleep, NoSleeper, WakeSleeper, ChargeSleeper
    <3>4. kpc' # "get_next_sleep" /\ kpc' # "enqueue_prio"
      BY <2>13 DEF GetNextSleep, NoSleeper, WakeSleeper, ChargeSleeper
    <3>5. Charged = IF tick_span < sleep_time[first] THEN tick_span ELSE sleep_time[first]
      BY <2>13, <3>2, <3>3, <3>4 DEF Charged
    <3>6. Sleeper(1, p) => p = first /\ TimeLeft(p) = sleep_time[first]
      BY <2>0, <3>1 DEF LeftInv, Sleeper
    <3>7. Sleeper(2, p) => /\ p # first
                           /\ TimeLeft(p) = sleep_time[first] + sleep_time[p]
      <4>1. Sleeper(2, p) => p # first
        BY <2>0, <3>1, <3>2 DEF Sleepers, Sleeper
      <4> QED
        BY <2>0, <3>1, <4>1 DEF LeftInv
    <3>8. TimeLeft(p) >= 0 => Sleeper(1, p) \/ Sleeper(2, p)
      <4>1. \A n : Sleeper(n, p) => n = 1 \/ n = 2
        BY <2>0 DEF Sleepers, Sleeper
      <4> QED
        BY <2>0, <3>3, <4>1 DEF LeftInv, Inserting
    <3>9. sleep_time[p] \in Nat
      BY <2>1 DEF PcbTypes
    <3>10. CASE sleep_time[first] <= tick_span
      <4>1. WakeSleeper
        BY <2>13, <3>2, <3>3, <3>10 DEF GetNextSleep, NoSleeper, ChargeSleeper
      <4>2. Charged = sleep_time[first] /\ sleep_time' = [sleep_time EXCEPT ![first] = 0]
        BY <3>2, <3>5, <3>10, <4>1 DEF WakeSleeper
      <4>3. /\ sleep_time'[first] = 0
            /\ p # first => sleep_time'[p] = sleep_time[p]
        BY <2>1, <3>2, <4>2 DEF PcbTypes
      <4>4. CASE UNCHANGED sleep_queue
        <5>1. \A n : Sleeper(n, p)' <=> Sleeper(n, p)
          BY <4>4 DEF Sleeper
        <5>2. CASE Sleeper(1, p)
          <6>1. TimeLeft(p)' = 0
            BY <2>0, <3>6, <4>3, <5>1, <5>2 DEF LeftInv
          <6> QED
            BY <3>2, <3>6, <4>2, <5>2, <6>1
        <5>3. CASE Sleeper(2, p)
          <6>1. TimeLeft(p)' = 0 + sleep_time[p]
            BY <2>0, <3>1, <3>7, <4>3, <4>4, <5>1, <5>3 DEF LeftInv
          <6> QED
            BY <3>2, <3>7, <3>9, <4>2, <5>3, <6>1
        <5> QED
          BY <3>8, <5>2, <5>3
      <4>5. CASE sleep_queue' = Tail(sleep_queue)
        <5>1. /\ Len(sleep_queue') = Len(sleep_queue) - 1
              /\ \A n \in 1 .. Len(sleep_queue) - 1 : sleep_queue'[n] = sleep_queue[n + 1]
          BY <2>0, <2>13, <4>5, HeadTailFacts DEF Sleepers
        <5>2. CASE Sleeper(1, p)
          <6>1. \A n : ~Sleeper(n, p)'
            <7>1. ASSUME NEW n \in 1 .. Len(sleep_queue'), sleep_queue'[n] = p PROVE FALSE
              <8>1. n \in 1 .. Len(sleep_queue) - 1 /\ n + 1 \in 1 .. Len(sleep_queue) /\ n + 1 # 1
                BY <2>1, <5>1, <7>1
              <8>2. sleep_queue[n + 1] = sleep_queue[1]
                BY <3>1, <3>6, <5>1, <5>2, <7>1, <8>1
              <8> QED
                BY <2>0, <3>2, <8>1, <8>2 DEF Sleepers
            <7> QED
              BY <7>1 DEF Sleeper
          <6>2. TimeLeft(p)' = 0 - 1
            BY <2>0, <3>4, <6>1 DEF LeftInv, Inserting
          <6> QED
            BY <6>2
        <5>3. CASE Sleeper(2, p)
          <6>1. Sleeper(1, p)'
            <7>1. Len(sleep_queue) = 2 /\ sleep_queue[2] = p
              BY <2>0, <2>1, <5>3 DEF Sleepers, Sleeper
            <7>2. Len(sleep_queue') = 1 /\ sleep_queue'[1] = p
              BY <5>1, <7>1
            <7> QED
              BY <7>2 DEF Sleeper
          <6>2. TimeLeft(p)' = sleep_time[p]
            BY <2>0, <3>7, <4>3, <5>3, <6>1 DEF LeftInv
          <6> QED
            BY <3>2, <3>7, <3>9, <4>2, <5>3, <6>2
        <5> QED
          BY <3>8, <5>2, <5>3
      <4> QED
        BY <4>1, <4>4, <4>5 DEF WakeSleeper
    <3>11. CASE sleep_time[first] > tick_span
      <4>1. ChargeSleeper
        BY <2>13, <3>2, <3>3, <3>11 DEF GetNextSleep, NoSleeper, WakeSleeper
      <4>2. /\ Charged = tick_span /\ UNCHANGED sleep_queue
            /\ sleep_time' = [sleep_time EXCEPT ![first] = @ - tick_span]
        BY <2>13, <3>2, <3>5, <3>11, <4>1 DEF ChargeSleeper
      <4>3. /\ sleep_time'[first] = sleep_time[first] - tick_span
            /\ p # first => sleep_time'[p] = sleep_time[p]
        BY <2>1, <3>2, <4>2 DEF PcbTypes
      <4>4. \A n : Sleeper(n, p)' <=> Sleeper(n, p)
        BY <4>2 DEF Sleeper
      <4>5. CASE Sleeper(1, p)
        <5>1. TimeLeft(p)' = sleep_time[first] - tick_span
          BY <2>0, <3>6, <4>3, <4>4, <4>5 DEF LeftInv
        <5> QED
          BY <3>2, <3>6, <4>2, <4>5, <5>1
      <4>6. CASE Sleeper(2, p)
        <5>1. TimeLeft(p)' = (sleep_time[first] - tick_span) + sleep_time[p]
          BY <2>0, <3>1, <3>7, <4>2, <4>3, <4>4, <4>6 DEF LeftInv
        <5> QED
          BY <3>2, <3>7, <3>9, <4>2, <4>6, <5>1
      <4> QED
        BY <3>8, <4>5, <4>6
    <3> QED
      BY <3>2, <3>10, <3>11
  <2>14. CASE Resume
    <3>1. /\ kpc = "resume" /\ UNCHANGED <<sleep_queue, sleep_time>>
          /\ kpc' # "enqueue_prio"
      BY <2>14 DEF Resume, ResumeCurrent, PickNext, NothingToRun
    <3> QED
      BY <2>4, <3>1
  <2> QED
    BY <2>5, <2>6, <2>7, <2>8, <2>9, <2>10, <2>11, <2>12, <2>13, <2>14
       DEF Next, Syscall, Kernel
<1>2. Spec => []Inv
  BY TypeCorrect, PlacementHolds, TimerInvariant, SleepInvariant, WalkInvariant, PTL
     DEF Placement
<1>3. Spec => [][\A p \in PCBs : Kept(p)]_vars
  BY <1>1, <1>2, PTL DEF Spec
<1> QED
  BY <1>3 DEF DeadlinesKept

-----------------------------------------------------------------------------
(* Promises: queue nodes never run out and none leaks, and the scheduler          *)
(* implements ProcessTable.  With an idle process and at most two sleepers the    *)
(* kernel never stops.                                                            *)

\* There is a node more than there are PCBs: get_next_sleep takes the new node of
\* the process it wakes before it frees the old one.
EnoughNodes == IsFiniteSet(PCBs) /\ NumQNodes > Cardinality(PCBs)

\* The processes that have not exited
Alive == {p \in allocated : state[p] # "KILLED"}

\* The one of them that is current
Current == IF current_pcb # NULL /\ state[current_pcb] # "KILLED" THEN 1 ELSE 0

\* The node a sleeper has been given and that no queue counts yet
InHand == IF kpc = "enqueue_prio" THEN 1 ELSE 0

\* The nodes the ready queues count
Length(i) == Len(queues[i])
ReadyNodes == Length(0) + Length(1) + Length(2) + Length(3)

\* The nodes are free, in hand or counted by a queue, and the queues count one
\* for each process that has neither exited nor is current.  (The sleep queue
\* counts also the processes it has lost.)
NodeInv ==
    /\ panic # "no_qnode"
    /\ kpc # "halted" =>
          /\ free_qnodes + InHand + ReadyNodes + sleep_size = NumQNodes
          /\ ReadyNodes + sleep_size + Current = Cardinality(Alive)

-----------------------------------------------------------------------------
(* Counting *)

LEMMA ReadyCount ==
    ASSUME queues \in [Priorities -> Seq(PCBs)]
    PROVE  /\ Length(0) \in Nat /\ Length(1) \in Nat
           /\ Length(2) \in Nat /\ Length(3) \in Nat
           /\ ReadyNodes \in Nat
<1>1. /\ Length(0) \in Nat /\ Length(1) \in Nat
      /\ Length(2) \in Nat /\ Length(3) \in Nat
  BY DEF Length, Priorities, NUM_QUEUES
<1> QED
  BY <1>1 DEF ReadyNodes

\* One queue gets a node more, or loses one.
LEMMA ReadyChanges ==
    ASSUME queues \in [Priorities -> Seq(PCBs)], NEW prio \in Priorities, NEW d \in Int,
           \A i \in Priorities :
               Length(i)' = IF i = prio THEN Length(i) + d ELSE Length(i)
    PROVE  ReadyNodes' = ReadyNodes + d
<1>1. Priorities = {0, 1, 2, 3}
  BY DEF Priorities, NUM_QUEUES
<1>2. /\ Length(0)' = IF 0 = prio THEN Length(0) + d ELSE Length(0)
      /\ Length(1)' = IF 1 = prio THEN Length(1) + d ELSE Length(1)
      /\ Length(2)' = IF 2 = prio THEN Length(2) + d ELSE Length(2)
      /\ Length(3)' = IF 3 = prio THEN Length(3) + d ELSE Length(3)
      /\ prio = 0 \/ prio = 1 \/ prio = 2 \/ prio = 3
  BY <1>1
<1>3. /\ Length(0) \in Nat /\ Length(1) \in Nat
      /\ Length(2) \in Nat /\ Length(3) \in Nat
  BY ReadyCount
<1>4. CASE prio = 0
  BY <1>2, <1>3, <1>4 DEF ReadyNodes
<1>5. CASE prio = 1
  BY <1>2, <1>3, <1>5 DEF ReadyNodes
<1>6. CASE prio = 2
  BY <1>2, <1>3, <1>6 DEF ReadyNodes
<1>7. CASE prio = 3
  BY <1>2, <1>3, <1>7 DEF ReadyNodes
<1> QED
  BY <1>2, <1>4, <1>5, <1>6, <1>7

LEMMA ReadyGrows ==
    ASSUME queues \in [Priorities -> Seq(PCBs)],
           NEW prio \in Priorities, NEW p \in PCBs, EnqueueReady(p, prio)
    PROVE  ReadyNodes' = ReadyNodes + 1
<1>1. \A i \in Priorities :
          Len(queues'[i]) = IF i = prio THEN Len(queues[i]) + 1 ELSE Len(queues[i])
  BY EnqueueFacts
<1>2. \A i \in Priorities :
          Length(i)' = IF i = prio THEN Length(i) + 1 ELSE Length(i)
  BY <1>1 DEF Length
<1> QED
  BY <1>2, ReadyChanges

LEMMA ReadyShrinks ==
    ASSUME queues \in [Priorities -> Seq(PCBs)], NEW i \in Priorities,
           queues[i] # <<>>, queues' = [queues EXCEPT ![i] = Tail(@)]
    PROVE  ReadyNodes' = ReadyNodes - 1
<1>1. /\ Len(queues[i]) \in Nat /\ Len(queues'[i]) = Len(queues[i]) - 1
      /\ \A j \in Priorities \ {i} : queues'[j] = queues[j]
  BY DequeueFacts
<1>2. \A j \in Priorities :
          Length(j)' = IF j = i THEN Length(j) + (-1) ELSE Length(j)
  BY <1>1 DEF Length
<1>3. ReadyNodes' = ReadyNodes + (-1)
  BY <1>2, ReadyChanges
<1> QED
  BY <1>3, ReadyCount

LEMMA AliveCount ==
    ASSUME PcbTypes, IsFiniteSet(PCBs)
    PROVE  /\ IsFiniteSet(Alive)
           /\ Cardinality(Alive) \in Nat
           /\ Cardinality(Alive) <= Cardinality(PCBs)
<1>1. Alive \in SUBSET PCBs
  BY DEF Alive, PcbTypes
<1> QED
  BY <1>1, FS_Subset, FS_CardinalityType

\* A PCB that is not in use leaves room for one process more.
LEMMA AliveBelow ==
    ASSUME PcbTypes, IsFiniteSet(PCBs), NEW p \in PCBs, p \notin Alive
    PROVE  Cardinality(Alive) < Cardinality(PCBs)
<1>1. Alive \in SUBSET PCBs /\ Alive # PCBs
  BY DEF Alive, PcbTypes
<1> QED
  BY <1>1, AliveCount, FS_Subset, FS_CardinalityType

-----------------------------------------------------------------------------
\* schedule() finds a node whenever it needs one, and every node is free or
\* counted by exactly one queue between the stages of dispatch.
THEOREM NodesSuffice == ASSUME EnoughNodes PROVE Spec => []NodesAccounted
<1> USE ConstantsAssumption
<1> USE DEF Goto, Panic, pcb_vars, sleep_vars, timer_vars
<1>0. IsFiniteSet(PCBs) /\ Cardinality(PCBs) \in Nat /\ NumQNodes > Cardinality(PCBs)
  BY FS_CardinalityType DEF EnoughNodes
<1>1. Init => NodeInv
  <2> SUFFICES ASSUME Init PROVE NodeInv
    OBVIOUS
  <2>1. Alive = {InitPcb} /\ Current = 1
    BY DEF Init, Alive, Current
  <2>2. Cardinality(Alive) = 1
    BY <2>1, FS_Singleton
  <2>3. ReadyNodes = 0
    BY DEF Init, ReadyNodes, Length, Priorities, NUM_QUEUES
  <2> QED
    BY <2>1, <2>2, <2>3 DEF Init, NodeInv, InHand
<1>2. TypeOK /\ HasCurrent /\ Placement /\ CurrentInv /\ NodeInv /\ [Next]_vars
      => NodeInv'
  <2> SUFFICES ASSUME TypeOK, HasCurrent, Placement, CurrentInv, NodeInv, [Next]_vars
               PROVE  NodeInv'
    OBVIOUS
  <2>0. PcbTypes /\ QueueTypes /\ CpuTypes /\ ReadyPlaced /\ SleepPlaced
    BY DEF TypeOK, Placement
  <2>1. /\ queues \in [Priorities -> Seq(PCBs)] /\ ReadyNodes \in Nat
        /\ free_qnodes \in Nat /\ sleep_size \in Nat
        /\ IsFiniteSet(Alive) /\ Cardinality(Alive) \in Nat
        /\ Cardinality(Alive) <= Cardinality(PCBs)
    BY <1>0, <2>0, ReadyCount, AliveCount DEF QueueTypes
  <2>2. /\ current_pcb # NULL => current_pcb \in PCBs
        /\ kpc \in {"user", "dispatch", "enqueue_prio"} =>
              current_pcb # NULL /\ current_pcb \in PCBs /\ current_pcb \in allocated
        /\ kpc = "user" => state[current_pcb] = "READY" /\ Current = 1
    BY <2>0 DEF HasCurrent, CpuTypes, CurrentInv, Current
  <2>18. kpc # "halted" =>
             /\ free_qnodes + InHand + ReadyNodes + sleep_size = NumQNodes
             /\ ReadyNodes + sleep_size + Current = Cardinality(Alive)
             /\ panic # "no_qnode"
    BY DEF NodeInv
  <2>3. ASSUME kpc # "halted", UNCHANGED <<state, allocated, current_pcb, queues, sleep_size>>,
               kpc' = "halted" \/ free_qnodes' + InHand' = free_qnodes + InHand,
               panic' = panic \/ panic' # "no_qnode"
        PROVE  NodeInv'
    BY <2>3 DEF NodeInv, Alive, Current, ReadyNodes, Length
  <2>4. CASE Tick \/ TimerInterrupt \/ NonDispatchingCall
    BY <2>3, <2>4 DEF Tick, TimerInterrupt, NonDispatchingCall, Trap, InHand
  <2>5. CASE Fork
    <3>1. /\ kpc = "user" /\ UNCHANGED <<sleep_size, current_pcb>>
          /\ InHand = 0
      BY <2>5 DEF Fork, Trap, InHand
    <3>2. CASE allocated = PCBs
      BY <2>5, <3>1, <3>2 DEF Fork, NodeInv
    <3>3. CASE allocated # PCBs
      <4>1. PICK child \in PCBs \ allocated :
                /\ allocated' = allocated \cup {child}
                /\ state' = [state EXCEPT ![child] = state[current_pcb]]
                /\ IF free_qnodes = 0
                   THEN Panic("no_qnode")
                   ELSE /\ EnqueueReady(child, priority[current_pcb])
                        /\ free_qnodes' = free_qnodes - 1
                        /\ Goto("dispatch")
        BY <2>5, <3>3 DEF Fork
      <4>2. Cardinality(Alive) < Cardinality(PCBs)
        BY <1>0, <2>0, <4>1, AliveBelow DEF Alive
      <4>3. free_qnodes # 0
        BY <1>0, <2>1, <2>2, <3>1, <4>2 DEF NodeInv
      <4>4. /\ EnqueueReady(child, priority[current_pcb])
            /\ free_qnodes' = free_qnodes - 1 /\ kpc' = "dispatch" /\ UNCHANGED panic
        BY <4>1, <4>3
      <4>5. priority[current_pcb] \in Priorities
        BY <2>0, <2>2, <3>1 DEF PcbTypes
      <4>6. ReadyNodes' = ReadyNodes + 1
        BY <2>1, <4>1, <4>4, <4>5, ReadyGrows
      <4>7. state'[child] = "READY" /\ \A q \in PCBs \ {child} : state'[q] = state[q]
        BY <2>0, <2>2, <3>1, <4>1 DEF PcbTypes
      <4>8. Alive' = Alive \cup {child} /\ child \notin Alive
        BY <2>0, <4>1, <4>7 DEF Alive, PcbTypes
      <4>9. Cardinality(Alive') = Cardinality(Alive) + 1
        BY <2>1, <4>8, FS_AddElement
      <4>10. Current' = 1 /\ InHand' = 0
        BY <2>2, <3>1, <4>1, <4>4, <4>7 DEF Current, InHand
      <4> QED
        <5>1. /\ free_qnodes' + InHand' + ReadyNodes' + sleep_size' = NumQNodes
              /\ ReadyNodes' + sleep_size' + Current' = Cardinality(Alive')
          <6>1. /\ free_qnodes' = free_qnodes - 1 /\ sleep_size' = sleep_size
                /\ InHand = 0 /\ Current = 1
            BY <2>2, <3>1, <4>4
          <6>2. /\ free_qnodes + InHand + ReadyNodes + sleep_size = NumQNodes
                /\ ReadyNodes + sleep_size + Current = Cardinality(Alive)
            BY <2>18, <3>1
          <6> QED
            BY <2>1, <4>6, <4>9, <4>10, <6>1, <6>2
        <5> QED
          BY <2>18, <3>1, <4>4, <5>1 DEF NodeInv
    <3> QED
      BY <3>2, <3>3
  <2>6. CASE Exit
    <3>1. /\ kpc = "user" /\ kpc' = "dispatch" /\ InHand = 0 /\ InHand' = 0
          /\ UNCHANGED <<allocated, current_pcb, queues, sleep_size, free_qnodes, panic>>
          /\ state' = [state EXCEPT ![current_pcb] = "KILLED"]
      BY <2>6 DEF Exit, Trap, CleanupPcb, InHand
    <3>2. /\ state'[current_pcb] = "KILLED"
          /\ \A q \in PCBs \ {current_pcb} : state'[q] = state[q]
      BY <2>0, <2>2, <3>1 DEF PcbTypes
    <3>3. Alive' = Alive \ {current_pcb} /\ current_pcb \in Alive
      BY <2>0, <2>2, <3>1, <3>2 DEF Alive, PcbTypes
    <3>4. Cardinality(Alive') = Cardinality(Alive) - 1
      BY <2>1, <3>3, FS_RemoveElement
    <3>5. Current' = 0 /\ ReadyNodes' = ReadyNodes
      BY <3>1, <3>2 DEF Current, ReadyNodes, Length
    <3> QED
      BY <2>1, <2>2, <3>1, <3>4, <3>5 DEF NodeInv
  <2>7. ASSUME NEW time \in SleepTimes, Msleep(time) PROVE NodeInv'
    <3>1. /\ kpc = "user" /\ kpc' = "dispatch" /\ InHand = 0 /\ InHand' = 0
          /\ UNCHANGED <<allocated, current_pcb, queues, sleep_size, free_qnodes, panic>>
          /\ state' = state \/ state' = [state EXCEPT ![current_pcb] = "SLEEPING"]
      BY <2>7 DEF Msleep, Trap, InHand
    <3>2. /\ state'[current_pcb] # "KILLED"
          /\ \A q \in PCBs \ {current_pcb} : state'[q] = state[q]
      BY <2>0, <2>2, <3>1 DEF PcbTypes
    <3>3. Alive' = Alive
      BY <2>0, <2>2, <3>1, <3>2 DEF Alive, PcbTypes
    <3>4. Current' = 1 /\ ReadyNodes' = ReadyNodes
      BY <2>2, <3>1, <3>2 DEF Current, ReadyNodes, Length
    <3> QED
      BY <2>1, <2>2, <3>1, <3>3, <3>4 DEF NodeInv
  <2>8. ASSUME NEW prio \in PriorityArgs, SetPriority(prio) PROVE NodeInv'
    BY <2>3, <2>8 DEF SetPriority, Trap, InHand
  <2>9. CASE Dispatch
    <3>1. kpc = "dispatch" /\ InHand = 0
      BY <2>9 DEF Dispatch, InHand
    <3>2. CASE timer_delay < timer_count
      BY <2>3, <2>9, <3>1, <3>2 DEF Dispatch
    <3>3. CASE DispatchKilled
      <4>1. /\ state[current_pcb] = "KILLED" /\ current_pcb' = NULL
            /\ state' = [state EXCEPT ![current_pcb] = "KILLED"]
            /\ kpc' = "get_next_sleep"
            /\ UNCHANGED <<allocated, queues, sleep_size, free_qnodes, panic>>
        BY <3>3 DEF DispatchKilled, CleanupPcb, GiveUpCpu
      <4>2. UNCHANGED state
        BY <2>0, <4>1 DEF PcbTypes
      <4>3. /\ Alive' = Alive /\ ReadyNodes' = ReadyNodes
            /\ Current = 0 /\ Current' = 0 /\ InHand' = 0
        BY <4>1, <4>2 DEF Alive, ReadyNodes, Length, Current, InHand
      <4> QED
        BY <2>1, <3>1, <4>1, <4>3 DEF NodeInv
    <3>4. CASE DispatchSleeping
      <4>1. state[current_pcb] = "SLEEPING" /\ Current = 1
        BY <2>2, <3>1, <3>4 DEF DispatchSleeping, Current
      <4>2. free_qnodes # 0
        BY <1>0, <2>1, <3>1, <4>1 DEF NodeInv
      <4>3. InHand' = 1 /\ free_qnodes' = free_qnodes - 1
        BY <3>4, <4>2 DEF DispatchSleeping, InHand
      <4>4. free_qnodes' + InHand' = free_qnodes + InHand
        BY <2>1, <3>1, <4>3
      <4> QED
        BY <2>3, <3>1, <3>4, <4>2, <4>4 DEF DispatchSleeping
    <3>5. CASE DispatchPreempted
      <4>1. state[current_pcb] = "READY" /\ Current = 1 /\ priority[current_pcb] \in Priorities
        BY <2>0, <2>2, <3>1, <3>5 DEF DispatchPreempted, Current, PcbTypes
      <4>2. free_qnodes # 0
        BY <1>0, <2>1, <3>1, <4>1 DEF NodeInv
      <4>3. /\ EnqueueReady(current_pcb, priority[current_pcb])
            /\ free_qnodes' = free_qnodes - 1 /\ current_pcb' = NULL
            /\ kpc' = "get_next_sleep"
            /\ UNCHANGED <<state, allocated, sleep_size, panic>>
        BY <3>5, <4>2 DEF DispatchPreempted, GiveUpCpu
      <4>4. ReadyNodes' = ReadyNodes + 1
        BY <2>1, <2>2, <3>1, <4>1, <4>3, ReadyGrows
      <4>5. Alive' = Alive /\ Current' = 0 /\ InHand' = 0
        BY <4>3 DEF Alive, Current, InHand
      <4> QED
        <5>1. /\ free_qnodes' + InHand' + ReadyNodes' + sleep_size' = NumQNodes
              /\ ReadyNodes' + sleep_size' + Current' = Cardinality(Alive')
          BY <2>1, <2>18, <3>1, <4>1, <4>3, <4>4, <4>5
        <5> QED
          BY <2>18, <3>1, <4>3, <5>1 DEF NodeInv
    <3>6. CASE DispatchContinues
      BY <2>3, <3>1, <3>6 DEF DispatchContinues, InHand
    <3> QED
      BY <2>9, <3>2, <3>3, <3>4, <3>5, <3>6 DEF Dispatch
  <2>10. CASE EnqueueFirst \/ InsertBefore \/ InsertLast
    <3>1. /\ kpc = "enqueue_prio" /\ UNCHANGED <<state, allocated, queues, free_qnodes>>
          /\ \/ /\ current_pcb' = NULL /\ sleep_size' = sleep_size + 1
                /\ kpc' = "get_next_sleep" /\ UNCHANGED panic
             \/ kpc' = "halted" /\ panic' = "freed_node"
      BY <2>10 DEF EnqueueFirst, InsertBefore, InsertLast, GiveUpCpu
    <3>2. state[current_pcb] = "SLEEPING" /\ Current = 1 /\ InHand = 1
      BY <2>2, <3>1 DEF CurrentInv, Current, InHand
    <3>3. CASE kpc' = "halted"
      BY <3>1, <3>3 DEF NodeInv
    <3>4. CASE kpc' # "halted"
      <4>1. /\ Alive' = Alive /\ ReadyNodes' = ReadyNodes
            /\ Current' = 0 /\ InHand' = 0
        BY <3>1, <3>4 DEF Alive, ReadyNodes, Length, Current, InHand
      <4> QED
        <5>1. /\ free_qnodes' + InHand' + ReadyNodes' + sleep_size' = NumQNodes
              /\ ReadyNodes' + sleep_size' + Current' = Cardinality(Alive')
          <6>1. sleep_size' = sleep_size + 1 /\ UNCHANGED free_qnodes
            BY <3>1, <3>4
          <6> QED
            BY <2>1, <2>18, <3>1, <3>2, <4>1, <6>1
        <5> QED
          BY <2>18, <3>1, <3>4, <5>1 DEF NodeInv
    <3> QED
      BY <3>3, <3>4
  <2>11. CASE WalkOn
    BY <2>3, <2>11 DEF WalkOn, InHand
  <2>12. CASE NoSleeper \/ ChargeSleeper
    BY <2>3, <2>12 DEF NoSleeper, ChargeSleeper, InHand
  <2>13. CASE WakeSleeper
    <3> DEFINE first == Head(sleep_queue)
    <3>1. /\ kpc = "get_next_sleep" /\ sleep_queue # <<>> /\ sleep_size > 0
          /\ state' = [state EXCEPT ![first] = "READY"]
          /\ UNCHANGED <<allocated, current_pcb, free_qnodes>>
          /\ free_qnodes # 0 =>
                /\ EnqueueReady(first, priority[first])
                /\ sleep_size' = sleep_size - 1
                /\ \/ kpc' = "resume" /\ UNCHANGED panic
                   \/ kpc' = "halted" /\ panic' = "null_node"
      <4>1. /\ kpc = "get_next_sleep" /\ sleep_queue # <<>> /\ sleep_size > 0
            /\ state' = [state EXCEPT ![first] = "READY"]
            /\ UNCHANGED <<allocated, current_pcb, free_qnodes>>
        BY <2>13 DEF WakeSleeper
      <4>2. ASSUME free_qnodes # 0
            PROVE  /\ EnqueueReady(first, priority[first])
                   /\ sleep_size' = sleep_size - 1
        BY <2>13, <4>2 DEF WakeSleeper
      <4>3. ASSUME free_qnodes # 0
            PROVE  \/ kpc' = "resume" /\ UNCHANGED panic
                   \/ kpc' = "halted" /\ panic' = "null_node"
        BY <2>13, <4>3 DEF WakeSleeper
      <4> QED
        BY <4>1, <4>2, <4>3
    <3>2. /\ first = sleep_queue[1] /\ first \in PCBs /\ 1 \in 1 .. Len(sleep_queue)
      BY <2>0, <3>1, HeadTailFacts DEF QueueTypes
    <3> HIDE DEF first
    <3>3. first \in allocated /\ first # current_pcb /\ state[first] = "SLEEPING"
      BY <2>0, <3>1, <3>2 DEF SleepPlaced
    <3>4. Current \in {0, 1} /\ InHand = 0
      BY <3>1 DEF Current, InHand
    <3>5. free_qnodes # 0
      BY <1>0, <2>1, <3>1, <3>4 DEF NodeInv
    <3>6. ReadyNodes' = ReadyNodes + 1
      BY <2>0, <2>1, <3>1, <3>2, <3>5, ReadyGrows DEF PcbTypes
    <3>7. state'[first] = "READY" /\ \A q \in PCBs \ {first} : state'[q] = state[q]
      BY <2>0, <3>1, <3>2 DEF PcbTypes
    <3>8. Alive' = Alive
      BY <2>0, <3>1, <3>3, <3>7 DEF Alive, PcbTypes
    <3>9. Current' = Current
      BY <2>2, <3>1, <3>3, <3>7 DEF Current
    <3>10. kpc' # "halted" => InHand' = 0
      BY <3>1, <3>5 DEF InHand
    <3> QED
      <4>1. panic' # "no_qnode"
        BY <2>18, <3>1, <3>5
      <4>2. ASSUME kpc' # "halted"
            PROVE  /\ free_qnodes' + InHand' + ReadyNodes' + sleep_size' = NumQNodes
                   /\ ReadyNodes' + sleep_size' + Current' = Cardinality(Alive')
        <5>1. sleep_size' = sleep_size - 1 /\ free_qnodes' = free_qnodes /\ InHand' = 0
          BY <3>1, <3>5, <3>10, <4>2
        <5> QED
          BY <2>1, <2>18, <3>1, <3>4, <3>6, <3>8, <3>9, <5>1
      <4> QED
        BY <4>1, <4>2 DEF NodeInv
  <2>14. CASE ResumeCurrent
    BY <2>3, <2>14 DEF ResumeCurrent, InHand
  <2>15. ASSUME NEW i \in Priorities, PickNext(i) PROVE NodeInv'
    <3> DEFINE next == Head(queues[i])
    <3>1. /\ kpc = "resume" /\ current_pcb = NULL /\ queues[i] # <<>>
          /\ queues' = [queues EXCEPT ![i] = Tail(@)]
          /\ free_qnodes' = free_qnodes + 1
          /\ UNCHANGED <<state, sleep_size>>
          /\ state[next] = "READY" =>
                current_pcb' = next /\ kpc' = "user" /\ UNCHANGED <<allocated, panic>>
      BY <2>15 DEF PickNext, FreeQNode
    <3>2. queues[i] \in Seq(PCBs)
      BY <2>1
    <3>3. next = queues[i][1] /\ next \in PCBs /\ 1 \in 1 .. Len(queues[i])
      BY <3>1, <3>2, HeadTailFacts
    <3> HIDE DEF next
    <3>4. state[next] = "READY"
      BY <2>0, <3>1, <3>3 DEF ReadyPlaced
    <3>5. ReadyNodes' = ReadyNodes - 1
      BY <2>1, <3>1, ReadyShrinks
    <3>6. /\ Alive' = Alive /\ Current = 0 /\ Current' = 1
          /\ InHand = 0 /\ InHand' = 0
      BY <3>1, <3>3, <3>4 DEF Alive, Current, InHand
    <3> QED
      BY <2>1, <3>1, <3>4, <3>5, <3>6 DEF NodeInv
  <2>16. CASE NothingToRun
    BY <2>3, <2>16 DEF NothingToRun
  <2>17. CASE UNCHANGED vars
    BY <2>17 DEF vars, NodeInv, Alive, Current, InHand, ReadyNodes, Length
  <2> QED
    BY <2>4, <2>5, <2>6, <2>7, <2>8, <2>9, <2>10, <2>11, <2>12, <2>13, <2>14,
       <2>15, <2>16, <2>17
       DEF Next, Syscall, Kernel, EnqueuePrio, GetNextSleep, Resume
<1>3. TypeOK /\ NodeInv => NodesAccounted
  <2> SUFFICES ASSUME TypeOK, NodeInv PROVE NodesAccounted
    OBVIOUS
  <2>1. /\ Length(0) \in Nat /\ Length(1) \in Nat
        /\ Length(2) \in Nat /\ Length(3) \in Nat /\ ReadyNodes \in Nat
        /\ free_qnodes \in Nat /\ sleep_size \in Nat
    BY ReadyCount DEF TypeOK, QueueTypes
  <2>2. panic # "no_qnode"
    BY DEF NodeInv
  <2>3. ASSUME kpc \notin {"enqueue_prio", "halted"}
        PROVE  free_qnodes + ReadyNodes + sleep_size = NumQNodes
    <3>1. free_qnodes + InHand + ReadyNodes + sleep_size = NumQNodes /\ InHand = 0
      BY <2>3 DEF NodeInv, InHand
    <3> QED
      BY <2>1, <3>1
  <2>4. free_qnodes + ReadyNodes + sleep_size
            = free_qnodes + Length(0) + Length(1) + Length(2) + Length(3) + sleep_size
    BY <2>1 DEF ReadyNodes
  <2>5. kpc \notin {"enqueue_prio", "halted"} =>
            free_qnodes + Length(0) + Length(1) + Length(2) + Length(3) + sleep_size
                = NumQNodes
    BY <2>3, <2>4
  <2> QED
    BY <2>2, <2>5, Zenon DEF NodesAccounted, Length
<1> QED
  BY <1>1, <1>2, <1>3, TypeCorrect, PlacementHolds, PTL DEF Spec
-----------------------------------------------------------------------------
(* The kernel never stops. *)

\* The workload of main.c: init starts the others and then spins, and nobody
\* forks a process too many, asks for a priority that does not exist or is the
\* third to sleep.
IdleInit ==
    /\ Program[InitPcb] \cap {"exit", "msleep"} = {}
    /\ PriorityArgs \subseteq Priorities
    /\ ForkLimit <= Cardinality(PCBs)
    /\ MaxSleepers <= 2

\* The panics that other theorems exclude; the rest takes a workload that
\* IdleInit rules out, or that nobody is READY.
InternalPanics ==
    {"no_qnode", "bad_state", "timer_assert", "quantum_assert",
     "prev_ticks_assert", "null_node", "freed_node"}

PanicInv == kpc = "halted" => panic \in InternalPanics

InitReady == InitPcb \in allocated /\ state[InitPcb] = "READY"

\* dispatch asserts that some queue has a process.  One that is READY and not
\* current is in a ready queue.
LEMMA SomebodyIsReady ==
    ASSUME InitPcb \in PCBs, SleepPlaced, NoLostProcess, InitReady, kpc = "resume",
           queues \in [Priorities -> Seq(PCBs)], current_pcb = NULL, NULL \notin PCBs
    PROVE  ~ \A i \in Priorities : queues[i] = <<>>
<1>1. Queued(InitPcb)
  BY DEF NoLostProcess, InitReady
<1>2. ~ InSleep(InitPcb)
  BY DEF SleepPlaced, InSleep, InitReady
<1>3. InReady(InitPcb)
  BY <1>1, <1>2, QueuedSomewhere
<1>4. PICK i \in Priorities : \E m \in 1 .. Len(queues[i]) : queues[i][m] = InitPcb
  BY <1>3 DEF InReady
<1>5. Len(queues[i]) # 0
  BY <1>4
<1> QED
  BY <1>5

\* init stays READY: only the process that is running exits or goes to sleep.
LEMMA InitStaysReady ==
    ASSUME IdleInit, TypeOK, HasCurrent, CurrentInv, Placement, InitReady, [Next]_vars
    PROVE  InitReady'
<1> USE ConstantsAssumption
<1> USE DEF pcb_vars, InitReady
<1>0. PcbTypes /\ QueueTypes /\ InitPcb \in PCBs /\ SleepPlaced
  BY DEF TypeOK, Placement
<1>1. ASSUME UNCHANGED <<state, allocated>> PROVE InitReady'
  BY <1>1
<1>2. CASE Tick \/ TimerInterrupt \/ NonDispatchingCall
  BY <1>1, <1>2 DEF Tick, TimerInterrupt, NonDispatchingCall
<1>3. CASE Fork
  <2>1. \/ UNCHANGED <<state, allocated>>
        \/ \E child \in PCBs \ allocated :
              /\ allocated' = allocated \cup {child}
              /\ state' = [state EXCEPT ![child] = state[current_pcb]]
    BY <1>3 DEF Fork
  <2> QED
    BY <1>0, <2>1 DEF PcbTypes
<1>4. ASSUME Trap("exit") \/ Trap("msleep"), UNCHANGED allocated,
             NEW s, state' = [state EXCEPT ![current_pcb] = s]
      PROVE  InitReady'
  <2>1. current_pcb # InitPcb
    BY <1>4 DEF Trap, IdleInit
  <2> QED
    BY <1>0, <1>4, <2>1 DEF PcbTypes
<1>5. CASE Exit
  BY <1>4, <1>5 DEF Exit, CleanupPcb
<1>6. ASSUME NEW time \in SleepTimes, Msleep(time) PROVE InitReady'
  BY <1>1, <1>4, <1>6 DEF Msleep
<1>7. ASSUME NEW prio \in PriorityArgs, SetPriority(prio) PROVE InitReady'
  BY <1>1, <1>7 DEF SetPriority
<1>8. CASE Dispatch
  <2>1. CASE timer_delay < timer_count
    BY <1>1, <1>8, <2>1 DEF Dispatch
  <2>2. CASE DispatchKilled
    <3>1. /\ state[current_pcb] = "KILLED" /\ UNCHANGED allocated
          /\ state' = [state EXCEPT ![current_pcb] = "KILLED"]
      BY <2>2 DEF DispatchKilled, CleanupPcb
    <3>2. current_pcb # InitPcb
      BY <3>1
    <3> QED
      BY <1>0, <3>1, <3>2 DEF PcbTypes
  <2>3. CASE DispatchSleeping \/ DispatchPreempted \/ DispatchContinues
    BY <1>1, <2>3 DEF DispatchSleeping, DispatchPreempted, DispatchContinues
  <2> QED
    BY <1>8, <2>1, <2>2, <2>3 DEF Dispatch
<1>9. CASE EnqueuePrio
  BY <1>1, <1>9 DEF EnqueuePrio, EnqueueFirst, WalkOn, InsertBefore, InsertLast
<1>10. CASE NoSleeper \/ ChargeSleeper
  BY <1>1, <1>10 DEF NoSleeper, ChargeSleeper
<1>11. CASE WakeSleeper
  <2>1. PICK p : UNCHANGED allocated /\ state' = [state EXCEPT ![p] = "READY"]
    BY <1>11 DEF WakeSleeper
  <2> QED
    BY <1>0, <2>1 DEF PcbTypes
<1>12. ASSUME NEW i \in Priorities, PickNext(i) PROVE InitReady'
  <2> DEFINE next == Head(queues[i])
  <2>1. /\ UNCHANGED state
        /\ \/ UNCHANGED allocated
           \/ state[next] = "KILLED" /\ allocated' = allocated \ {next}
    BY <1>12 DEF PickNext
  <2> HIDE DEF next
  <2>2. state[next] = "KILLED" => next # InitPcb
    OBVIOUS
  <2> QED
    BY <2>1, <2>2
<1>13. CASE ResumeCurrent \/ NothingToRun
  BY <1>1, <1>13 DEF ResumeCurrent, NothingToRun
<1>14. CASE UNCHANGED vars
  BY <1>1, <1>14 DEF vars
<1> QED
  BY <1>2, <1>3, <1>5, <1>6, <1>7, <1>8, <1>9, <1>10, <1>11, <1>12, <1>13, <1>14
     DEF Next, Syscall, Kernel, GetNextSleep, Resume

\* The kernel never stops while init spins: alloc_pcb finds a block, set_priority
\* gets a priority, dispatch finds a process to run, and the assertions hold.
THEOREM NeverStops == ASSUME EnoughNodes, IdleInit PROVE Spec => []NoPanic
<1> USE ConstantsAssumption
<1>1. Init => InitReady /\ PanicInv
  BY DEF Init, InitReady, PanicInv
<1>2. TypeOK /\ HasCurrent /\ CurrentInv /\ Placement /\ NoLostProcess
      /\ InitReady /\ PanicInv /\ [Next]_vars => (InitReady /\ PanicInv)'
  <2> SUFFICES ASSUME TypeOK, HasCurrent, CurrentInv, Placement, NoLostProcess,
                      InitReady, PanicInv, [Next]_vars
               PROVE  PanicInv'
    BY InitStaysReady
  <2> USE DEF Goto, Panic, pcb_vars, sleep_vars, timer_vars
  <2>1. ASSUME \/ kpc' = kpc /\ panic' = panic
               \/ kpc' \in Stages \ {"halted"}
               \/ panic' \in InternalPanics
        PROVE  PanicInv'
    BY <2>1 DEF PanicInv
  <2>2. CASE Tick \/ TimerInterrupt \/ NonDispatchingCall
    BY <2>1, <2>2 DEF Tick, TimerInterrupt, NonDispatchingCall, Stages
  <2>3. CASE Fork
    <3>1. allocated # PCBs
      <4>1. ForkLimit \in Nat /\ ForkLimit <= Cardinality(PCBs)
        BY DEF IdleInit
      <4>2. Cardinality(allocated) < ForkLimit
        BY <2>3 DEF Fork
      <4>3. Cardinality(PCBs) \in Nat
        BY FS_CardinalityType DEF EnoughNodes
      <4> QED
        BY <4>1, <4>2, <4>3
    <3>2. kpc' = "dispatch" \/ panic' = "no_qnode"
      BY <2>3, <3>1 DEF Fork
    <3> QED
      BY <2>1, <3>2 DEF Stages, InternalPanics
  <2>4. CASE Exit
    BY <2>1, <2>4 DEF Exit, Stages
  <2>5. ASSUME NEW time \in SleepTimes, Msleep(time) PROVE PanicInv'
    BY <2>1, <2>5 DEF Msleep, Stages
  <2>6. ASSUME NEW prio \in PriorityArgs, SetPriority(prio) PROVE PanicInv'
    <3>1. prio <= IDLE
      BY DEF IdleInit, Priorities, NUM_QUEUES, IDLE
    <3> QED
      BY <2>1, <2>6, <3>1 DEF SetPriority, Stages
  <2>7. CASE Dispatch
    <3>1. CASE timer_delay < timer_count
      BY <2>1, <2>7, <3>1 DEF Dispatch, InternalPanics
    <3>2. CASE DispatchKilled \/ DispatchSleeping \/ DispatchPreempted \/ DispatchContinues
      BY <2>1, <3>2 DEF DispatchKilled, DispatchSleeping, DispatchPreempted,
                        DispatchContinues, Stages, InternalPanics
    <3> QED
      BY <2>7, <3>1, <3>2 DEF Dispatch
  <2>8. CASE EnqueuePrio
    BY <2>1, <2>8 DEF EnqueuePrio, EnqueueFirst, WalkOn, InsertBefore, InsertLast,
                      Stages, InternalPanics
  <2>9. CASE NoSleeper \/ ChargeSleeper
    BY <2>1, <2>9 DEF NoSleeper, ChargeSleeper, Stages, InternalPanics
  <2>10. CASE WakeSleeper
    <3>1. kpc' = "resume" \/ panic' = "no_qnode" \/ panic' = "null_node"
      BY <2>10 DEF WakeSleeper
    <3> QED
      BY <2>1, <3>1 DEF Stages, InternalPanics
  <2>11. ASSUME NEW i \in Priorities, PickNext(i) PROVE PanicInv'
    <3>1. kpc' = "user" \/ UNCHANGED <<kpc, panic>> \/ panic' = "bad_state"
      BY <2>11 DEF PickNext
    <3> QED
      BY <2>1, <3>1 DEF Stages, InternalPanics
  <2>12. CASE ResumeCurrent
    BY <2>1, <2>12 DEF ResumeCurrent, Stages, InternalPanics
  <2>13. CASE NothingToRun
    <3>1. kpc = "resume" /\ current_pcb = NULL
      BY <2>13 DEF NothingToRun
    <3>2. ~ \A i \in Priorities : queues[i] = <<>>
      BY <3>1, SomebodyIsReady DEF TypeOK, QueueTypes, Placement
    <3>3. panic' = "prev_ticks_assert"
      BY <2>13, <3>2 DEF NothingToRun
    <3> QED
      BY <2>1, <3>3 DEF InternalPanics
  <2>14. CASE UNCHANGED vars
    BY <2>1, <2>14 DEF vars
  <2> QED
    BY <2>2, <2>3, <2>4, <2>5, <2>6, <2>7, <2>8, <2>9, <2>10, <2>11, <2>12, <2>13, <2>14
       DEF Next, Syscall, Kernel, GetNextSleep, Resume
<1>3. MaxSleepers <= 2
  BY DEF IdleInit
<1>4. AssertionsHold /\ NodesAccounted /\ PanicInv => NoPanic
  BY DEF AssertionsHold, NodesAccounted, PanicInv, InternalPanics, NoPanic
<1>5. Spec => []AssertionsHold
  BY <1>3, NoAssertionFails
<1>6. Spec => []NoLostProcess
  BY <1>3, NothingLost
<1>7. Spec => []NodesAccounted
  BY NodesSuffice
<1> QED
  BY <1>1, <1>2, <1>4, <1>5, <1>6, <1>7, TypeCorrect, PlacementHolds, PTL DEF Spec

-----------------------------------------------------------------------------
(* The process table *)

\* A READY process that does not run is in a ready queue.  That no ready process
\* is passed over in favour of one of lower priority needs this: the search of
\* dispatch sees the queues only.
ReadyQueued ==
    kpc # "halted" =>
        \A p \in allocated :
            state[p] = "READY" /\ p # current_pcb => InReady(p)

\* The state of the abstract process table
lives == [p \in PCBs |-> Life(p)]

-----------------------------------------------------------------------------
\* Whatever becomes of the sleep queue, no READY process is forgotten.
LEMMA ReadyQueuedHolds == Spec => []ReadyQueued
<1> USE ConstantsAssumption
<1> USE DEF Goto, Panic, pcb_vars, sleep_vars, timer_vars
<1>1. Init => ReadyQueued
  BY DEF Init, ReadyQueued
<1>2. TypeOK /\ HasCurrent /\ CurrentInv /\ ReadyQueued /\ [Next]_vars => ReadyQueued'
  <2> SUFFICES ASSUME PcbTypes, QueueTypes, CpuTypes, HasCurrent, CurrentInv,
                      ReadyQueued, [Next]_vars, kpc' # "halted",
                      NEW p \in allocated', state'[p] = "READY", p # current_pcb'
               PROVE  InReady(p)'
    BY DEF TypeOK, ReadyQueued
  <2>0. sleep_queue \in Seq(PCBs) /\ queues \in [Priorities -> Seq(PCBs)]
    BY DEF QueueTypes
  <2>1. ASSUME kpc # "halted", p \in allocated, state[p] = "READY", p # current_pcb
        PROVE  InReady(p)
    BY <2>1 DEF ReadyQueued
  <2>2. ASSUME kpc # "halted", UNCHANGED <<queues, allocated>>,
               p # current_pcb => state'[p] = state[p],
               p = current_pcb => current_pcb' = current_pcb \/ state'[p] # "READY"
        PROVE  InReady(p)'
    BY <2>1, <2>2 DEF InReady
  <2>3. CASE Tick \/ TimerInterrupt \/ NonDispatchingCall
    BY <2>2, <2>3 DEF Tick, TimerInterrupt, NonDispatchingCall, Trap
  <2>4. CASE Fork
    <3>1. kpc = "user" /\ UNCHANGED current_pcb
      BY <2>4 DEF Fork, Trap
    <3>2. PICK child \in PCBs \ allocated :
              /\ allocated' = allocated \cup {child}
              /\ state' = [state EXCEPT ![child] = state[current_pcb]]
              /\ EnqueueReady(child, priority[current_pcb])
      BY <2>4 DEF Fork
    <3>3. priority[current_pcb] \in Priorities
      BY <3>1 DEF HasCurrent, CpuTypes, PcbTypes
    <3>4. \A q : q = child \/ InReady(q) => InReady(q)'
      BY <2>0, <3>2, <3>3, EnqueuedIsReady
    <3>5. p \in allocated /\ p # child => state'[p] = state[p]
      BY <3>2 DEF PcbTypes
    <3> QED
      BY <2>1, <3>1, <3>2, <3>4, <3>5
  <2>5. CASE Exit
    BY <2>2, <2>5 DEF Exit, Trap, CleanupPcb, PcbTypes
  <2>6. ASSUME NEW time \in SleepTimes, Msleep(time) PROVE InReady(p)'
    BY <2>2, <2>6 DEF Msleep, Trap, PcbTypes
  <2>7. ASSUME NEW prio \in PriorityArgs, SetPriority(prio) PROVE InReady(p)'
    BY <2>2, <2>7 DEF SetPriority, Trap
  <2>8. CASE Dispatch
    <3>1. kpc = "dispatch" /\ UNCHANGED allocated
          /\ (DispatchKilled \/ DispatchSleeping \/ DispatchPreempted \/ DispatchContinues)
      BY <2>8 DEF Dispatch, DispatchKilled, DispatchSleeping, DispatchPreempted,
                  DispatchContinues
    <3>2. current_pcb \in PCBs
      BY <3>1 DEF HasCurrent, CpuTypes
    <3>3. CASE DispatchKilled
      <4>1. state'[current_pcb] = "KILLED" /\ (p # current_pcb => state'[p] = state[p])
        BY <3>2, <3>3 DEF DispatchKilled, CleanupPcb, PcbTypes
      <4> QED
        BY <2>2, <3>1, <3>3, <4>1 DEF DispatchKilled
    <3>4. CASE DispatchSleeping \/ DispatchContinues
      BY <2>2, <3>1, <3>4 DEF DispatchSleeping, DispatchContinues
    <3>5. CASE DispatchPreempted
      <4>1. EnqueueReady(current_pcb, priority[current_pcb]) /\ UNCHANGED state
        BY <3>5 DEF DispatchPreempted
      <4>2. priority[current_pcb] \in Priorities
        BY <3>2 DEF PcbTypes
      <4>3. \A q : q = current_pcb \/ InReady(q) => InReady(q)'
        BY <2>0, <3>2, <4>1, <4>2, EnqueuedIsReady
      <4> QED
        BY <2>1, <3>1, <4>1, <4>3
    <3> QED
      BY <3>1, <3>3, <3>4, <3>5
  <2>9. CASE EnqueueFirst \/ InsertBefore \/ InsertLast
    <3>1. kpc = "enqueue_prio" /\ UNCHANGED <<queues, allocated, state>>
      BY <2>9 DEF EnqueueFirst, InsertBefore, InsertLast
    <3>2. state[current_pcb] = "SLEEPING"
      BY <3>1 DEF CurrentInv
    <3> QED
      BY <2>2, <3>1, <3>2
  <2>10. CASE WalkOn
    BY <2>2, <2>10 DEF WalkOn
  <2>11. CASE NoSleeper \/ ChargeSleeper
    BY <2>2, <2>11 DEF NoSleeper, ChargeSleeper
  <2>12. CASE WakeSleeper
    <3> DEFINE first == Head(sleep_queue)
    <3>1. /\ kpc = "get_next_sleep" /\ sleep_queue # <<>>
          /\ state' = [state EXCEPT ![first] = "READY"]
          /\ EnqueueReady(first, priority[first])
          /\ UNCHANGED <<allocated, current_pcb>>
      BY <2>12 DEF WakeSleeper
    <3>2. first \in PCBs
      BY <2>0, <3>1, HeadTailFacts
    <3> HIDE DEF first
    <3>3. priority[first] \in Priorities
      BY <3>2 DEF PcbTypes
    <3>4. \A q : q = first \/ InReady(q) => InReady(q)'
      BY <2>0, <3>1, <3>2, <3>3, EnqueuedIsReady
    <3>5. p # first => state'[p] = state[p]
      BY <3>1 DEF PcbTypes
    <3> QED
      BY <2>1, <3>1, <3>4, <3>5
  <2>13. CASE ResumeCurrent
    BY <2>2, <2>13 DEF ResumeCurrent
  <2>14. ASSUME NEW i \in Priorities, PickNext(i) PROVE InReady(p)'
    <3> DEFINE next == Head(queues[i])
    <3>1. /\ kpc = "resume" /\ current_pcb = NULL /\ queues[i] # <<>>
          /\ queues' = [queues EXCEPT ![i] = Tail(@)]
          /\ UNCHANGED state
          /\ \/ current_pcb' = next /\ UNCHANGED allocated
             \/ allocated' = allocated \ {next} /\ UNCHANGED current_pcb
      BY <2>14 DEF PickNext
    <3>2. \A q : q # next /\ InReady(q) => InReady(q)'
      BY <2>0, <3>1, DequeuedOthersReady
    <3> HIDE DEF next
    <3>3. p # next /\ p \in allocated /\ p # current_pcb
      BY <3>1 DEF PcbTypes
    <3> QED
      BY <2>1, <3>1, <3>2, <3>3
  <2>15. CASE NothingToRun
    BY <2>15 DEF NothingToRun
  <2>16. CASE UNCHANGED vars
    BY <2>2, <2>16 DEF vars
  <2> QED
    BY <2>3, <2>4, <2>5, <2>6, <2>7, <2>8, <2>9, <2>10, <2>11, <2>12, <2>13,
       <2>14, <2>15, <2>16
       DEF Next, Syscall, Kernel, EnqueuePrio, GetNextSleep, Resume
<1> QED
  BY <1>1, <1>2, TypeCorrect, PlacementHolds, PTL DEF Spec, Placement

-----------------------------------------------------------------------------
(* The refinement *)

\* No process changes its stage when the variables Life looks at do not.
LEMMA LivesKept ==
    ASSUME UNCHANGED <<state, allocated, current_pcb>> PROVE UNCHANGED lives
  BY DEF lives, Life

\* One process changes its stage and no other does.
LEMMA OneBecomes ==
    ASSUME NEW p \in PCBs, NEW from, NEW to, Life(p) = from,
           \A q \in PCBs : Life(q)' = IF q = p THEN to ELSE Life(q)
    PROVE  Table!Become(p, from, to)
<1>1. lives' = [lives EXCEPT ![p] = to]
  BY DEF lives
<1>2. lives[p] = from
  BY DEF lives
<1> QED
  BY <1>1, <1>2 DEF Table!Become, lives

\* Every step of the scheduler is a step of the process table or leaves it alone.
LEMMA StepRefines ==
    ASSUME TypeOK, HasCurrent, Placement, CurrentInv, ReadyQueued, [Next]_vars
    PROVE  Table!Next \/ UNCHANGED <<lives, priority>>
<1> USE ConstantsAssumption
<1> USE DEF Goto, Panic, pcb_vars, sleep_vars, timer_vars
<1> DEFINE Refined == Table!Next \/ UNCHANGED <<lives, priority>>
<1>0. PcbTypes /\ QueueTypes /\ CpuTypes /\ ReadyPlaced /\ SleepPlaced
  BY DEF TypeOK, Placement
<1>1. ASSUME UNCHANGED <<state, allocated, current_pcb, priority>> PROVE Refined
  BY <1>1, LivesKept
<1>2. ASSUME kpc = "user"
      PROVE  /\ current_pcb \in PCBs /\ current_pcb \in allocated
             /\ state[current_pcb] = "READY" /\ Life(current_pcb) = "running"
  <2>1. current_pcb \in PCBs /\ current_pcb \in allocated /\ state[current_pcb] = "READY"
    BY <1>0, <1>2 DEF HasCurrent, CpuTypes, CurrentInv
  <2> QED
    BY <2>1 DEF Life
<1>3. CASE Tick \/ TimerInterrupt \/ NonDispatchingCall
  BY <1>1, <1>3 DEF Tick, TimerInterrupt, NonDispatchingCall
<1>4. CASE Fork
  <2>1. kpc = "user" /\ UNCHANGED current_pcb
    BY <1>4 DEF Fork, Trap
  <2>2. CASE allocated = PCBs
    BY <1>1, <1>4, <2>1, <2>2 DEF Fork
  <2>3. CASE allocated # PCBs
    <3>1. PICK child \in PCBs \ allocated :
              /\ allocated' = allocated \cup {child}
              /\ state' = [state EXCEPT ![child] = state[current_pcb]]
              /\ priority' = [priority EXCEPT ![child] = priority[current_pcb]]
      BY <1>4, <2>3 DEF Fork
    <3>2. state'[child] = "READY" /\ \A q \in PCBs \ {child} : state'[q] = state[q]
      BY <1>0, <1>2, <2>1, <3>1 DEF PcbTypes
    <3>3. child # current_pcb /\ Life(child) = "unborn"
      BY <1>2, <2>1, <3>1 DEF Life
    <3>4. \A q \in PCBs : Life(q)' = IF q = child THEN "ready" ELSE Life(q)
      BY <2>1, <3>1, <3>2, <3>3 DEF Life
    <3>5. Table!Become(child, "unborn", "ready")
      BY <3>3, <3>4, OneBecomes
    <3>6. Table!Fork(current_pcb, child)
      BY <1>2, <2>1, <3>1, <3>5 DEF Table!Fork
    <3> QED
      BY <1>2, <2>1, <3>6 DEF Table!Next
  <2> QED
    BY <2>2, <2>3
<1>5. CASE Exit
  <2>1. /\ kpc = "user" /\ UNCHANGED <<allocated, current_pcb, priority>>
        /\ state' = [state EXCEPT ![current_pcb] = "KILLED"]
    BY <1>5 DEF Exit, Trap, CleanupPcb
  <2>2. /\ state'[current_pcb] = "KILLED"
        /\ \A q \in PCBs \ {current_pcb} : state'[q] = state[q]
    BY <1>0, <1>2, <2>1 DEF PcbTypes
  <2>3. \A q \in PCBs : Life(q)' = IF q = current_pcb THEN "dead" ELSE Life(q)
    BY <1>2, <2>1, <2>2 DEF Life
  <2>4. Table!Become(current_pcb, "running", "dead")
    BY <1>2, <2>1, <2>3, OneBecomes
  <2> QED
    BY <1>2, <2>1, <2>4 DEF Table!Next, Table!Exit
<1>6. ASSUME NEW time \in SleepTimes, Msleep(time) PROVE Refined
  <2>1. CASE time = 0
    BY <1>1, <1>6, <2>1 DEF Msleep
  <2>2. CASE time # 0
    <3>1. /\ kpc = "user" /\ UNCHANGED <<allocated, current_pcb, priority>>
          /\ state' = [state EXCEPT ![current_pcb] = "SLEEPING"]
      BY <1>6, <2>2 DEF Msleep, Trap
    <3>2. /\ state'[current_pcb] = "SLEEPING"
          /\ \A q \in PCBs \ {current_pcb} : state'[q] = state[q]
      BY <1>0, <1>2, <3>1 DEF PcbTypes
    <3>3. \A q \in PCBs : Life(q)' = IF q = current_pcb THEN "sleeping" ELSE Life(q)
      BY <1>2, <3>1, <3>2 DEF Life
    <3>4. Table!Become(current_pcb, "running", "sleeping")
      BY <1>2, <3>1, <3>3, OneBecomes
    <3> QED
      BY <1>2, <3>1, <3>4 DEF Table!Next, Table!Sleep
  <2> QED
    BY <2>1, <2>2
<1>7. ASSUME NEW prio \in PriorityArgs, SetPriority(prio) PROVE Refined
  <2>1. kpc = "user" /\ UNCHANGED <<state, allocated, current_pcb>>
    BY <1>7 DEF SetPriority, Trap
  <2>2. CASE prio <= IDLE
    <3>1. prio \in Priorities
      BY <2>2 DEF Priorities, NUM_QUEUES, IDLE
    <3>2. priority' = [priority EXCEPT ![current_pcb] = prio]
      BY <1>7, <2>2 DEF SetPriority
    <3>3. Table!SetLevel(current_pcb, prio)
      BY <1>2, <2>1, <3>2, LivesKept DEF Table!SetLevel, lives
    <3> QED
      BY <1>2, <2>1, <3>1, <3>3 DEF Table!Next
  <2>3. CASE ~(prio <= IDLE)
    BY <1>1, <1>7, <2>1, <2>3 DEF SetPriority
  <2> QED
    BY <2>2, <2>3
<1>8. CASE Dispatch
  <2>1. kpc = "dispatch" /\ current_pcb \in PCBs /\ current_pcb # NULL
    BY <1>0, <1>8 DEF Dispatch, HasCurrent, CpuTypes
  <2>2. CASE timer_delay < timer_count
    BY <1>1, <1>8, <2>2 DEF Dispatch
  <2>3. CASE DispatchKilled
    <3>1. /\ state[current_pcb] = "KILLED" /\ current_pcb' = NULL
          /\ state' = [state EXCEPT ![current_pcb] = "KILLED"]
          /\ UNCHANGED <<allocated, priority>>
      BY <2>3 DEF DispatchKilled, CleanupPcb, GiveUpCpu
    <3>2. UNCHANGED state
      BY <1>0, <3>1 DEF PcbTypes
    <3>3. \A q \in PCBs : Life(q)' = Life(q)
      BY <3>1, <3>2 DEF Life
    <3> QED
      BY <3>1, <3>3 DEF lives
  <2>4. CASE DispatchSleeping \/ DispatchContinues
    BY <1>1, <2>4 DEF DispatchSleeping, DispatchContinues
  <2>5. CASE DispatchPreempted /\ free_qnodes = 0
    BY <1>1, <2>5 DEF DispatchPreempted
  <2>6. CASE DispatchPreempted /\ free_qnodes # 0
    <3>1. /\ state[current_pcb] = "READY" /\ current_pcb' = NULL
          /\ UNCHANGED <<state, allocated, priority>>
      BY <2>6 DEF DispatchPreempted, GiveUpCpu
    <3>2. Life(current_pcb) = "running"
      BY <2>1, <3>1 DEF Life, CurrentInv
    <3>3. \A q \in PCBs : Life(q)' = IF q = current_pcb THEN "ready" ELSE Life(q)
      BY <2>1, <3>1 DEF Life, CurrentInv
    <3>4. Table!Become(current_pcb, "running", "ready")
      BY <2>1, <3>2, <3>3, OneBecomes
    <3> QED
      BY <2>1, <3>1, <3>4 DEF Table!Next, Table!Preempt
  <2> QED
    BY <1>8, <2>2, <2>3, <2>4, <2>5, <2>6 DEF Dispatch
<1>9. CASE WalkOn
  BY <1>1, <1>9 DEF WalkOn
<1>10. CASE EnqueueFirst \/ InsertBefore \/ InsertLast
  <2>1. /\ kpc = "enqueue_prio" /\ UNCHANGED <<state, allocated, priority>>
        /\ current_pcb' = NULL \/ UNCHANGED current_pcb
    BY <1>10 DEF EnqueueFirst, InsertBefore, InsertLast, GiveUpCpu
  <2>2. state[current_pcb] = "SLEEPING"
    BY <2>1 DEF CurrentInv
  <2>3. \A q \in PCBs : Life(q)' = Life(q)
    BY <2>1, <2>2 DEF Life
  <2> QED
    BY <2>1, <2>3 DEF lives
<1>11. CASE NoSleeper \/ ChargeSleeper
  BY <1>1, <1>11 DEF NoSleeper, ChargeSleeper
<1>12. CASE WakeSleeper
  <2> DEFINE first == Head(sleep_queue)
  <2>1. /\ kpc = "get_next_sleep" /\ sleep_queue # <<>>
        /\ state' = [state EXCEPT ![first] = "READY"]
        /\ UNCHANGED <<allocated, priority, current_pcb>>
    BY <1>12 DEF WakeSleeper
  <2>2. first = sleep_queue[1] /\ first \in PCBs /\ 1 \in 1 .. Len(sleep_queue)
    BY <1>0, <2>1, HeadTailFacts DEF QueueTypes
  <2> HIDE DEF first
  <2>3. first \in allocated /\ first # current_pcb /\ state[first] = "SLEEPING"
    BY <1>0, <2>1, <2>2 DEF SleepPlaced
  <2>4. state'[first] = "READY" /\ \A q \in PCBs \ {first} : state'[q] = state[q]
    BY <1>0, <2>1, <2>2 DEF PcbTypes
  <2>5. Life(first) = "sleeping"
    BY <2>3 DEF Life
  <2>6. \A q \in PCBs : Life(q)' = IF q = first THEN "ready" ELSE Life(q)
    BY <2>1, <2>3, <2>4 DEF Life
  <2>7. Table!Become(first, "sleeping", "ready")
    BY <2>2, <2>5, <2>6, OneBecomes
  <2> QED
    BY <2>1, <2>2, <2>7 DEF Table!Next, Table!Wake
<1>13. CASE ResumeCurrent
  BY <1>1, <1>13 DEF ResumeCurrent
<1>14. ASSUME NEW i \in Priorities, PickNext(i) PROVE Refined
  <2> DEFINE next == Head(queues[i])
  <2>1. /\ kpc = "resume" /\ current_pcb = NULL /\ queues[i] # <<>>
        /\ \A j \in 0 .. i - 1 : queues[j] = <<>>
        /\ UNCHANGED <<state, priority>>
    BY <1>14 DEF PickNext
  <2>2. queues[i] \in Seq(PCBs) /\ \A j \in Priorities : Len(queues[j]) \in Nat
    BY <1>0 DEF QueueTypes
  <2>3. next = queues[i][1] /\ next \in PCBs /\ 1 \in 1 .. Len(queues[i])
    BY <2>1, <2>2, HeadTailFacts
  <2>4. state[next] = "READY" => current_pcb' = next /\ UNCHANGED allocated
    BY <1>14 DEF PickNext
  <2> HIDE DEF next
  <2>5. next \in allocated /\ priority[next] = i /\ state[next] = "READY"
    BY <1>0, <2>1, <2>3 DEF ReadyPlaced
  <2>6. \A q \in PCBs : Life(q) # "running"
    BY <2>1 DEF Life
  <2>7. ASSUME NEW q \in PCBs, Life(q) = "ready" PROVE priority[next] <= priority[q]
    <3>1. q \in allocated /\ state[q] = "READY" /\ q # current_pcb
      BY <1>0, <2>7 DEF Life, PcbTypes
    <3>2. PICK j \in Priorities : \E m \in 1 .. Len(queues[j]) : queues[j][m] = q
      BY <2>1, <3>1 DEF ReadyQueued, InReady
    <3>3. priority[q] = j /\ queues[j] # <<>>
      BY <1>0, <2>2, <3>2 DEF ReadyPlaced
    <3>4. ~(j \in 0 .. i - 1)
      BY <2>1, <3>3
    <3> QED
      BY <2>5, <3>3, <3>4 DEF Priorities, NUM_QUEUES
  <2>8. Life(next) = "ready"
    BY <2>1, <2>3, <2>5 DEF Life
  <2>9. \A q \in PCBs : Life(q)' = IF q = next THEN "running" ELSE Life(q)
    BY <2>1, <2>3, <2>4, <2>5 DEF Life
  <2>10. Table!Become(next, "ready", "running")
    BY <2>3, <2>8, <2>9, OneBecomes
  <2>11. Table!Run(next)
    BY <2>1, <2>6, <2>7, <2>10 DEF Table!Run
  <2> QED
    BY <2>3, <2>11 DEF Table!Next
<1>15. CASE NothingToRun
  BY <1>1, <1>15 DEF NothingToRun
<1>16. CASE UNCHANGED vars
  BY <1>1, <1>16 DEF vars
<1> QED
  BY <1>3, <1>4, <1>5, <1>6, <1>7, <1>8, <1>9, <1>10, <1>11, <1>12, <1>13,
     <1>14, <1>15, <1>16
     DEF Next, Syscall, Kernel, EnqueuePrio, GetNextSleep, Resume

\* The scheduler implements the process table: the queues, the nodes, the sleep
\* times and the four stages of dispatch are one way to keep what it promises.
THEOREM Implements == Spec => Lifecycle
<1>1. Init => Table!Init
  BY ConstantsAssumption DEF Init, Table!Init, Life
<1>2. TypeOK /\ HasCurrent /\ Placement /\ CurrentInv /\ ReadyQueued /\ [Next]_vars
      => [Table!Next]_<<lives, priority>>
  BY StepRefines
<1> QED
  BY <1>1, <1>2, TypeCorrect, PlacementHolds, ReadyQueuedHolds, PTL
     DEF Spec, Lifecycle, Table!Spec, lives
=============================================================================
