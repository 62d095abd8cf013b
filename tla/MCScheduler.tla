---------------------------- MODULE MCScheduler ----------------------------
(* Scheduler with workloads for TLC. *)
EXTENDS Scheduler

CONSTANTS p1, p2, p3, p4

\* Every process may make every call.
AnyProgram == [p \in PCBs |-> SyscallNames]

\* init forks and then spins, as the idle process of main.c does; the others
\* do everything but fork.
IdleInitProgram ==
    [p \in PCBs |-> IF p = InitPcb THEN {"fork"} ELSE SyscallNames \ {"fork"}]

\* Processes that only multiply and sleep.
SleepProgram == [p \in PCBs |-> {"fork", "msleep"}]

\* init sets its priority, as main.c does first, and then spins.
SpinProgram == [p \in PCBs |-> {"set_priority"}]
=============================================================================
