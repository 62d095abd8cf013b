---------------------------- MODULE ProcessTable ----------------------------
(***************************************************************************)
(* What the scheduler promises, without queues, nodes, timers or address   *)
(* spaces: the lives of the processes.  At most one process runs, a        *)
(* process that has exited never comes back, only the running process can  *)
(* put itself to sleep, and the CPU is given to a ready process of the     *)
(* highest priority.                                                       *)
(***************************************************************************)
EXTENDS Naturals

CONSTANTS Processes, FirstProcess, Levels, DefaultLevel

VARIABLES
    life,       \* the stage of its life each process is at
    level       \* its priority, 0 the highest; as last set or inherited

Lives == {"unborn", "ready", "running", "sleeping", "dead"}

Init ==
    /\ life = [p \in Processes |-> IF p = FirstProcess THEN "running" ELSE "unborn"]
    /\ level = [p \in Processes |-> DefaultLevel]

Become(p, from, to) ==
    /\ life[p] = from
    /\ life' = [life EXCEPT ![p] = to]

\* A child starts ready with its parent's priority.
Fork(p, child) ==
    /\ life[p] = "running"
    /\ Become(child, "unborn", "ready")
    /\ level' = [level EXCEPT ![child] = level[p]]

SetLevel(p, n) ==
    /\ life[p] = "running"
    /\ level' = [level EXCEPT ![p] = n]
    /\ UNCHANGED life

Exit(p)    == Become(p, "running", "dead")     /\ UNCHANGED level
Sleep(p)   == Become(p, "running", "sleeping") /\ UNCHANGED level
Preempt(p) == Become(p, "running", "ready")    /\ UNCHANGED level
Wake(p)    == Become(p, "sleeping", "ready")   /\ UNCHANGED level

\* No process runs, and none that is ready has a higher priority than p.
Run(p) ==
    /\ \A q \in Processes : life[q] # "running"
    /\ \A q \in Processes : life[q] = "ready" => level[p] <= level[q]
    /\ Become(p, "ready", "running")
    /\ UNCHANGED level

Next ==
    \E p \in Processes :
        \/ \E child \in Processes : Fork(p, child)
        \/ \E n \in Levels : SetLevel(p, n)
        \/ Exit(p) \/ Sleep(p) \/ Preempt(p) \/ Wake(p) \/ Run(p)

Spec == Init /\ [][Next]_<<life, level>>
=============================================================================
