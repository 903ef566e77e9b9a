------------------------------ MODULE MCKernel ------------------------------
(***************************************************************************)
(* Instances of Kernel for TLC.  The last task is the idle one: main() has *)
(* returned and kernel_thread spins at the least urgent priority.          *)
(***************************************************************************)
EXTENDS Kernel

\* Three peers and the idle task
IpcBoot == [p \in 0 .. 1 |-> IF p = 0 THEN <<0, 1, 2>> ELSE <<3>>]
IpcCallers == 0 .. 2

\* Two urgent tasks, one that shares the idle task's priority, and that one;
\* setpriority clamps its values to 0 and to PRIORITY_LIMIT
SchedBoot == [p \in 0 .. 1 |-> IF p = 0 THEN <<0, 1>> ELSE <<2, 3>>]
SchedCallers == 0 .. 2
SchedPriorities == {-1, 5}

\* A thread, one that pthread_create made, the idle task, and a free slot
LifeBoot == [p \in 0 .. 1 |-> IF p = 0 THEN <<0, 1>> ELSE <<2>>]
LifeCallers == {0, 1, 3}
LifeMortal == {1, 3}

\* No idle task: main (1) goes on making calls, as app/snake's main does when
\* it joins the threads it made, and the threads sleep
NoIdleBoot == [p \in 0 .. 1 |-> IF p = 0 THEN <<0>> ELSE <<1>>]
NoIdleCallers == 0 .. 2
NoIdleMortal == {2}

\* A writer, a reader and the idle task
MessageBoot == [p \in 0 .. 1 |-> IF p = 0 THEN <<0, 1>> ELSE <<2>>]
MessageCallers == 0 .. 1
=============================================================================
