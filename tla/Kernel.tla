------------------------------- MODULE Kernel -------------------------------
(***************************************************************************)
(* The kernel proper: task control blocks, the ready lists, the event      *)
(* monitor, the boot-time FIFOs, the tick, the interrupt lines and         *)
(* context_switch (src/kernel.c, event-monitor.c, fifo.c, pipe.c, file.c,  *)
(* task.c).                                                                *)
(*                                                                         *)
(* A system call is SVC: syscall_handler runs, PendSV is set pending and   *)
(* tail-chains, so no thread runs between the call and context_switch, and *)
(* context_switch runs with interrupts masked.  The model has one action   *)
(* per call; context_switch is then taken in the small steps of its loops: *)
(*                                                                         *)
(*   "thread" --call, tick, irq--> "serve" --> ... --> "select" --> thread *)
(*                                                                         *)
(* task_create and task_kill are called in thread mode, without SVC, and   *)
(* can be preempted; they are one action each here.  TaskKill takes them   *)
(* step by step, and shows what a slice inside them can do: no property    *)
(* here is about task_count or about a thread half created or half killed. *)
(***************************************************************************)
EXTENDS Lists, Naturals, Integers

CONSTANTS
  TASK_LIMIT,       \* kconfig.h: number of task control blocks
  PIPE_BUF,         \* kconfig.h: bytes of a pipe's ring buffer
  PRIORITY_LIMIT,   \* kconfig.h: the least urgent priority
  INTR_LIMIT,       \* kconfig.h: number of interrupt lines
  FIFOS,            \* __rtenv_start makes FIFOs 0 .. PATHSERVER_FD
  TICKS,            \* tick_count is an int: it wraps at 2^32
  Boot,             \* the tasks created before threads run: per priority, in
                    \* the order of their creation
  Callers,          \* the tasks whose program makes system calls
  Mortal,           \* the tasks made by pthread_create: may exit, be cancelled
                    \* or joined
  Sizes,            \* sizes read() and write() are called with
  SleepTimes,       \* arguments of sleep()
  Priorities,       \* values setpriority() is called with
  SpawnPriorities   \* priorities pthread_create() gives new threads

Pids == 0 .. TASK_LIMIT - 1
Fds == 0 .. FIFOS - 1
Irqs == 0 .. INTR_LIMIT - 1

ASSUME LimitsAssumption ==
  /\ TASK_LIMIT \in Nat \ {0} /\ PIPE_BUF \in Nat \ {0}
  /\ PRIORITY_LIMIT \in Nat /\ INTR_LIMIT \in Nat
  /\ FIFOS \in Nat \ {0} /\ TICKS \in Nat \ {0}

ASSUME ProgramAssumption ==
  /\ Boot \in [0 .. PRIORITY_LIMIT -> Seq(Pids)] /\ OnePlace(Boot)
  /\ Linked(Boot, 0)
  /\ Callers \subseteq Pids
  /\ Mortal \subseteq Pids \ {0} /\ \A t \in Pids \ Mortal : Linked(Boot, t)
  /\ Sizes \subseteq Nat
  /\ SleepTimes \subseteq 0 .. TICKS - 1
  /\ Priorities \subseteq Int
  /\ SpawnPriorities \subseteq 0 .. PRIORITY_LIMIT

-----------------------------------------------------------------------------
(* Event numbers (kernel.h).  fifo_init takes the two first free numbers,  *)
(* so FIFO fd has 2*fd and 2*fd+1.  TASK_EVENT(0) IS the time event.  The   *)
(* numbers that kernel.h leaves free between FIFO and interrupt events are *)
(* left out: nothing is pending there.                                     *)

ReadEvent(fd) == 2 * fd
WriteEvent(fd) == 2 * fd + 1
INTR_EVENT(i) == 2 * FIFOS + i
TIME_EVENT == 2 * FIFOS + INTR_LIMIT
TASK_EVENT(pid) == TIME_EVENT + pid
Events == 0 .. TIME_EVENT + TASK_LIMIT - 1
None == -1

\* The list heads: one ready list per priority, one list per event.
ReadyList(p) == p
EventList(e) == PRIORITY_LIMIT + 1 + e
ListIds == 0 .. PRIORITY_LIMIT + TIME_EVENT + TASK_LIMIT

Statuses == {"READY", "WAIT_READ", "WAIT_WRITE", "WAIT_INTR", "WAIT_TIME",
             "WAIT_TASK"}

VARIABLES
  status,      \* tasks[].status
  priority,    \* tasks[].priority
  inuse,       \* tasks[].inuse
  taskCount,   \* task_count
  arg,         \* what the release handler of a blocked task looks at: the
               \* size of its file_request, its wake-up tick or a pid (0
               \* when the task is not blocked)
  q,           \* the tasks on each list
  pending,     \* events[].pending
  len,         \* PIPE_LEN of each FIFO
  enabled,     \* the interrupt lines enabled in the NVIC
  current,     \* current_task, current_tcb
  timeup,      \* the running task's time slice is over
  tick,        \* tick_count
  phase,       \* "thread", or where context_switch is
  scan,        \* event_monitor_serve: the loop restarts here
  serving,     \* the event being served, or None
  at           \* position of the next waiter to look at on its list

vars == <<status, priority, inuse, taskCount, arg, q, pending, len, enabled,
          current, timeup, tick, phase, scan, serving, at>>

tcbs == <<status, priority, inuse, taskCount>>
serveVars == <<scan, serving, at>>

-----------------------------------------------------------------------------
Init ==
  /\ status = [t \in Pids |-> "READY"]
  /\ \E p \in [Pids -> 0 .. PRIORITY_LIMIT] :
       /\ \A t \in Pids : IF Linked(Boot, t) THEN OnList(Boot, p[t], t) ELSE p[t] = 0
       /\ priority = p
  /\ inuse = [t \in Pids |-> Linked(Boot, t)]
  /\ taskCount = Cardinality({t \in Pids : Linked(Boot, t)})
  /\ arg = [t \in Pids |-> 0]
  /\ q = [l \in ListIds |-> IF l <= PRIORITY_LIMIT THEN Boot[l] ELSE <<>>]
  /\ pending = [e \in Events |-> FALSE]
  /\ len = [fd \in Fds |-> 0]
  /\ enabled = {}
  /\ current = 0
  /\ timeup = FALSE
  /\ tick = 0
  /\ phase = "thread"
  /\ scan = 0 /\ serving = None /\ at = 1

-----------------------------------------------------------------------------
(* System calls *)

\* SVC by the running task; PendSV follows the handler.
Call ==
  /\ phase = "thread"
  /\ inuse[current] /\ current \in Callers
  /\ phase' = "serve" /\ scan' = 0
  /\ UNCHANGED <<inuse, taskCount, current, timeup, tick, serving, at>>

event_monitor_release(e) == pending' = [pending EXCEPT ![e] = TRUE]

\* Only a task whose status is TASK_READY goes to the event's list.
event_monitor_block(e, a) ==
  \/ /\ status[current] = "READY"
     /\ q' = list_push(q, EventList(e), current)
     /\ arg' = [arg EXCEPT ![current] = a]
  \/ /\ status[current] # "READY"
     /\ UNCHANGED <<q, arg>>

\* tick_count + n, which wraps
TickAfter(n) == IF tick + n < TICKS THEN tick + n ELSE tick + n - TICKS

SetStatus(s) == status' = [status EXCEPT ![current] = s]

\* FILE_ACCESS_BLOCK: the status changes only from TASK_READY
BlockFile(e, size, s) ==
  /\ event_monitor_block(e, size)
  /\ SetStatus(IF status[current] = "READY" THEN s ELSE status[current])
  /\ UNCHANGED <<len, pending>>

\* mutant: the other side is not told
AcceptFile_silent(fd, newLen, e) ==
  /\ len' = [len EXCEPT ![fd] = newLen]
  /\ SetStatus("READY")
  /\ UNCHANGED <<q, arg, pending>>

\* FILE_ACCESS_ACCEPT of a request of the running task
AcceptFile(fd, newLen, e) ==
  /\ len' = [len EXCEPT ![fd] = newLen]
  /\ event_monitor_release(e)
  /\ SetStatus("READY")
  /\ UNCHANGED <<q, arg>>

\* mutant of fifo_writable: the ring may fill up
fifo_writable_full(fd, size) == size <= PIPE_BUF - len[fd]

fifo_readable(fd, size) == size <= len[fd]
fifo_writable(fd, size) == size <= PIPE_BUF - len[fd] - 1   \* a byte stays free

Read(fd, size) ==
  /\ Call
  /\ size <= PIPE_BUF
  /\ \/ /\ fifo_readable(fd, size)
        /\ AcceptFile(fd, len[fd] - size, WriteEvent(fd))
     \/ /\ ~fifo_readable(fd, size)
        /\ BlockFile(ReadEvent(fd), size, "WAIT_READ")
  /\ UNCHANGED <<priority, enabled>>

Write(fd, size) ==
  /\ Call
  /\ size <= PIPE_BUF
  /\ \/ /\ fifo_writable(fd, size)
        /\ AcceptFile(fd, len[fd] + size, ReadEvent(fd))
     \/ /\ ~fifo_writable(fd, size)
        /\ BlockFile(WriteEvent(fd), size, "WAIT_WRITE")
  /\ UNCHANGED <<priority, enabled>>

\* FILE_ACCESS_ERROR: a read or write of more than PIPE_BUF bytes, or an
\* lseek, which a FIFO has not.  The call returns -1.
FileError ==
  /\ Call
  /\ SetStatus("READY")
  /\ UNCHANGED <<priority, arg, q, pending, len, enabled>>

\* mutant: the line is not armed again
InterruptWait_deaf(i) ==
  /\ Call
  /\ event_monitor_block(INTR_EVENT(i), 0)
  /\ SetStatus("WAIT_INTR")
  /\ UNCHANGED <<priority, enabled, pending, len>>

InterruptWait(i) ==
  /\ Call
  /\ enabled' = enabled \union {i}
  /\ event_monitor_block(INTR_EVENT(i), 0)
  /\ SetStatus("WAIT_INTR")
  /\ UNCHANGED <<priority, pending, len>>

\* mutant: the wake-up tick does not wrap
Sleep_nowrap(ticks) ==
  /\ Call
  /\ ticks # 0
  /\ event_monitor_block(TIME_EVENT, tick + ticks)
  /\ SetStatus("WAIT_TIME")
  /\ UNCHANGED <<priority, pending, len, enabled>>

\* mutant: the sleeper keeps TASK_READY
Sleep_ready(ticks) ==
  /\ Call
  /\ ticks # 0
  /\ event_monitor_block(TIME_EVENT, TickAfter(ticks))
  /\ UNCHANGED <<status, priority, pending, len, enabled>>

Sleep(ticks) ==
  /\ Call
  /\ ticks # 0
  /\ event_monitor_block(TIME_EVENT, TickAfter(ticks))
  /\ SetStatus("WAIT_TIME")
  /\ UNCHANGED <<priority, pending, len, enabled>>

\* task_block(pid), the blocking half of pthread_join
TaskBlock(pid) ==
  /\ Call
  /\ event_monitor_block(TASK_EVENT(pid), pid)
  /\ SetStatus("WAIT_TASK")
  /\ UNCHANGED <<priority, pending, len, enabled>>

\* setpriority's clamp of its value
Clamp(value) ==
  IF value < 0 THEN 0
  ELSE IF value > PRIORITY_LIMIT THEN PRIORITY_LIMIT ELSE value

\* mutant: the caller stays on its old list
SetOwnPriority_unmoved(value) ==
  /\ Call
  /\ priority' = [priority EXCEPT ![current] = Clamp(value)]
  /\ UNCHANGED <<status, arg, q, pending, len, enabled>>

\* setpriority(0, value): the caller goes to the front of its new list.
SetOwnPriority(value) ==
  /\ Call
  /\ priority' = [priority EXCEPT ![current] = Clamp(value)]
  /\ q' = list_unshift(q, ReadyList(Clamp(value)), current)
  /\ UNCHANGED <<status, arg, pending, len, enabled>>

\* mutant: a ready task stays on its old list
SetPriority_unmoved(who, value) ==
  /\ Call
  /\ who # 0 /\ who < taskCount /\ inuse[who]
  /\ priority' = [priority EXCEPT ![who] = Clamp(value)]
  /\ UNCHANGED <<status, arg, q, pending, len, enabled>>

\* setpriority(who, value).  The code does not look at inuse; the model's
\* programs name live tasks only.
SetPriority(who, value) ==
  /\ Call
  /\ who # 0 /\ who < taskCount /\ inuse[who]
  /\ priority' = [priority EXCEPT ![who] = Clamp(value)]
  /\ q' = IF status[who] = "READY"
            THEN list_push(q, ReadyList(Clamp(value)), who)
            ELSE q
  /\ UNCHANGED <<status, arg, pending, len, enabled>>

\* getpid, getpriority, sleep(0), an invalid fd, pid or call number: r0 is
\* all that changes, and the thread passes through context_switch.
OtherCall ==
  /\ Call
  /\ UNCHANGED <<status, priority, arg, q, pending, len, enabled>>

-----------------------------------------------------------------------------
(* Threads come and go, in thread mode *)

\* task_create: the first free slot.  It does not set the slot's status.
Create(p) ==
  /\ phase = "thread"
  /\ inuse[current] /\ current \in Callers
  /\ taskCount # TASK_LIMIT
  /\ \E t \in Mortal :
       /\ ~inuse[t] /\ \A u \in Pids : ~inuse[u] => t <= u
       /\ priority' = [priority EXCEPT ![t] = p]
       /\ inuse' = [inuse EXCEPT ![t] = TRUE]
       /\ q' = list_push(q, ReadyList(p), t)
  /\ taskCount' = taskCount + 1
  /\ UNCHANGED <<status, arg, pending, len, enabled, current, timeup, tick,
                 phase, serveVars>>

\* mutant: the killed task stays linked, and its request with it
task_kill_linked(pid) ==
  /\ inuse[pid]
  /\ inuse' = [inuse EXCEPT ![pid] = FALSE]
  /\ taskCount' = taskCount - 1
  /\ event_monitor_release(TASK_EVENT(pid))
  /\ UNCHANGED <<status, priority, q, arg, len, enabled, current, timeup, tick, phase,
                 serveVars>>

\* task_kill(pid).  The status word keeps its value; arg is the model's.
task_kill(pid) ==
  /\ inuse[pid]
  /\ q' = list_remove(q, pid)
  /\ inuse' = [inuse EXCEPT ![pid] = FALSE]
  /\ taskCount' = taskCount - 1
  /\ event_monitor_release(TASK_EVENT(pid))
  /\ arg' = [arg EXCEPT ![pid] = 0]
  /\ UNCHANGED <<status, priority, len, enabled, current, timeup, tick, phase,
                 serveVars>>

\* task_exit: the task kills itself and spins until it is switched out.
Exit ==
  /\ phase = "thread"
  /\ current \in Mortal
  /\ task_kill(current)

\* pthread_cancel of another thread, whatever that thread is doing
Cancel(pid) ==
  /\ phase = "thread"
  /\ inuse[current] /\ current \in Callers
  /\ pid # current
  /\ task_kill(pid)

-----------------------------------------------------------------------------
(* Interrupts: the handler only marks the event, then PendSV *)

EnterPendSV ==
  /\ phase = "thread"
  /\ phase' = "serve" /\ scan' = 0
  /\ UNCHANGED <<status, priority, inuse, taskCount, arg, q, len, current,
                 serving, at>>

\* SysTick_Handler
Tick ==
  /\ EnterPendSV
  /\ timeup' = TRUE
  /\ tick' = TickAfter(1)
  /\ event_monitor_release(TIME_EVENT)
  /\ UNCHANGED enabled

\* USART1_IRQHandler, USART2_IRQHandler: one shot, interrupt_wait re-arms
Irq(i) ==
  /\ EnterPendSV
  /\ i \in enabled
  /\ enabled' = enabled \ {i}
  /\ event_monitor_release(INTR_EVENT(i))
  /\ UNCHANGED <<timeup, tick>>

-----------------------------------------------------------------------------
(* event_monitor_serve *)

Served ==
  UNCHANGED <<priority, inuse, taskCount, enabled, current, timeup, tick>>

\* The loop reaches the next pending event at or after scan ...
ServeEvent(e) ==
  /\ phase = "serve" /\ serving = None
  /\ pending[e] /\ scan <= e
  /\ \A f \in Events : pending[f] /\ scan <= f => e <= f
  /\ serving' = e /\ at' = 1
  /\ UNCHANGED <<status, arg, q, pending, len, phase, scan>>
  /\ Served

\* ... or its end.
ServeDone ==
  /\ phase = "serve" /\ serving = None
  /\ \A f \in Events : pending[f] => f < scan
  /\ phase' = "select"
  /\ UNCHANGED <<status, arg, q, pending, len, serveVars>>
  /\ Served

Waiters == q[EventList(serving)]
Waiter == Waiters[at]
Visit == phase = "serve" /\ serving # None /\ at <= Len(Waiters)

time_release(t) == arg[t] = tick
\* data is the address of the boot loop's variable: it stays at its last value
task_release == ~inuse[TASK_LIMIT - 1]

\* The handler's answer for a waiter of event e
Releases(e, t) ==
  \/ \E fd \in Fds :
       \/ e = ReadEvent(fd) /\ fifo_readable(fd, arg[t])
       \/ e = WriteEvent(fd) /\ fifo_writable(fd, arg[t])
  \/ \E i \in Irqs : e = INTR_EVENT(i)
  \/ e = TIME_EVENT /\ time_release(t)
  \/ \E pid \in Pids \ {0} : e = TASK_EVENT(pid) /\ task_release

\* The waiter leaves for the ready list of its priority; the next waiter
\* then stands where it stood.
Wake(t) ==
  /\ q' = list_push(q, ReadyList(priority[t]), t)
  /\ status' = [status EXCEPT ![t] = "READY"]
  /\ arg' = [arg EXCEPT ![t] = 0]
  /\ UNCHANGED <<phase, serveVars>>
  /\ Served

\* pipe_read_release, pipe_write_release: the handler retries the request.
WakeReader(fd) ==
  /\ Visit
  /\ serving = ReadEvent(fd) /\ fifo_readable(fd, arg[Waiter])
  /\ len' = [len EXCEPT ![fd] = @ - arg[Waiter]]
  /\ event_monitor_release(WriteEvent(fd))
  /\ Wake(Waiter)

\* mutant: the retry writes, and the writer is kept
WakeWriter_kept(fd) ==
  /\ Visit
  /\ serving = WriteEvent(fd) /\ fifo_writable(fd, arg[Waiter])
  /\ len' = [len EXCEPT ![fd] = @ + arg[Waiter]]
  /\ event_monitor_release(ReadEvent(fd))
  /\ at' = at + 1
  /\ UNCHANGED <<status, arg, q, phase, scan, serving>>
  /\ Served

WakeWriter(fd) ==
  /\ Visit
  /\ serving = WriteEvent(fd) /\ fifo_writable(fd, arg[Waiter])
  /\ len' = [len EXCEPT ![fd] = @ + arg[Waiter]]
  /\ event_monitor_release(ReadEvent(fd))
  /\ Wake(Waiter)

\* intr_release, time_release, task_release
WakeOther ==
  /\ Visit
  /\ serving >= 2 * FIFOS
  /\ Releases(serving, Waiter)
  /\ UNCHANGED <<len, pending>>
  /\ Wake(Waiter)

\* mutant: the scan ends at the first waiter it keeps
KeepWaiter_last ==
  /\ Visit
  /\ ~Releases(serving, Waiter)
  /\ at' = Len(Waiters) + 1
  /\ UNCHANGED <<status, arg, q, pending, len, phase, scan, serving>>
  /\ Served

KeepWaiter ==
  /\ Visit
  /\ ~Releases(serving, Waiter)
  /\ at' = at + 1
  /\ UNCHANGED <<status, arg, q, pending, len, phase, scan, serving>>
  /\ Served

\* mutant: the loop goes on behind the event, without a rescan
EndEvent_onward ==
  /\ phase = "serve" /\ serving # None /\ at > Len(Waiters)
  /\ pending' = [pending EXCEPT ![serving] = FALSE]
  /\ scan' = serving + 1 /\ serving' = None /\ at' = 1
  /\ UNCHANGED <<status, arg, q, len, phase>>
  /\ Served

\* All waiters were looked at.  The rescan sets i to 0, and the loop's i++
\* makes that 1.
EndEvent ==
  /\ phase = "serve" /\ serving # None /\ at > Len(Waiters)
  /\ pending' = [pending EXCEPT ![serving] = FALSE]
  /\ scan' = 1 /\ serving' = None /\ at' = 1
  /\ UNCHANGED <<status, arg, q, len, phase>>
  /\ Served

-----------------------------------------------------------------------------
(* context_switch, after event_monitor_serve *)

SliceOver == timeup /\ IsFirst(q, ReadyList(priority[current]), current)

\* mutants: nobody goes to the back of its list; who goes is lost
Rotated_kept == q
Rotated_lost == IF SliceOver THEN list_remove(q, current) ELSE q

Rotated == IF SliceOver THEN list_push(q, ReadyList(priority[current]), current)
                        ELSE q

\* The first non-empty ready list; the code's loop has no bound.
Select(p) ==
  /\ phase = "select"
  /\ p \in 0 .. PRIORITY_LIMIT
  /\ ~list_empty(Rotated, ReadyList(p))
  /\ \A r \in 0 .. p - 1 : list_empty(Rotated, ReadyList(r))
  /\ q' = Rotated
  /\ timeup' = (timeup /\ ~SliceOver)
  /\ current' = Head(Rotated[ReadyList(p)])
  /\ phase' = "thread"
  /\ UNCHANGED <<tcbs, arg, pending, len, enabled, tick, serveVars>>

-----------------------------------------------------------------------------
Syscall ==
  \/ \E fd \in Fds, size \in Sizes : Read(fd, size) \/ Write(fd, size)
  \/ FileError
  \/ \E i \in Irqs : InterruptWait(i)
  \/ \E ticks \in SleepTimes : Sleep(ticks)
  \/ \E pid \in Mortal : TaskBlock(pid)
  \/ \E value \in Priorities :
       SetOwnPriority(value) \/ \E who \in Pids : SetPriority(who, value)
  \/ OtherCall

Lifecycle ==
  \/ \E p \in SpawnPriorities : Create(p)
  \/ Exit
  \/ \E pid \in Mortal : Cancel(pid)

Serve ==
  \/ \E e \in Events : ServeEvent(e)
  \/ ServeDone
  \/ \E fd \in Fds : WakeReader(fd) \/ WakeWriter(fd)
  \/ WakeOther
  \/ KeepWaiter
  \/ EndEvent

Switch == \E p \in 0 .. PRIORITY_LIMIT : Select(p)

Next ==
  \/ Syscall
  \/ Lifecycle
  \/ Tick
  \/ \E i \in Irqs : Irq(i)
  \/ Serve
  \/ Switch

Spec == Init /\ [][Next]_vars

\* context_switch is straight-line code with interrupts masked.  SysTick is
\* never disabled; it is taken in thread mode (set_pendsv drops a tick that is
\* pending while the kernel runs, hence strong fairness: a thread cannot be
\* inside a call each time the timer fires).
Fairness == WF_vars(Serve) /\ WF_vars(Switch) /\ SF_vars(Tick)

FairSpec == Spec /\ Fairness
-----------------------------------------------------------------------------
(* Properties *)

\* Types of the state; a FIFO never holds more than PIPE_BUF - 1 bytes.
TypeOK ==
  /\ status \in [Pids -> Statuses]
  /\ priority \in [Pids -> 0 .. PRIORITY_LIMIT]
  /\ inuse \in [Pids -> BOOLEAN]
  /\ taskCount \in Int
  /\ arg \in [Pids -> Nat]
  /\ q \in [ListIds -> Seq(Pids)]
  /\ pending \in [Events -> BOOLEAN]
  /\ len \in [Fds -> 0 .. PIPE_BUF - 1]
  /\ enabled \subseteq Irqs
  /\ current \in Pids
  /\ timeup \in BOOLEAN
  /\ tick \in 0 .. TICKS - 1
  /\ phase \in {"thread", "serve", "select"}
  /\ scan \in {0, 1}
  /\ serving \in Events \union {None}
  /\ at \in Nat \ {0}

\* A live task is linked exactly once, on one ready list or one event list, and
\* a dead one nowhere: no push or kill of the kernel loses or doubles a task.
OnOneList ==
  /\ OnePlace(q)
  /\ \A t \in Pids : inuse[t] <=> Linked(q, t)

OnEventList(t) == \E e \in Events : OnList(q, EventList(e), t)
OnReadyList(t) == \E p \in 0 .. PRIORITY_LIMIT : OnList(q, ReadyList(p), t)

\* A waiter is never TASK_READY: setpriority, which moves TASK_READY tasks, does
\* not pull it off its event's list.
WaitersNotReady == \A t \in Pids : OnEventList(t) => status[t] # "READY"

\* A live TASK_READY task is on the ready list of its present priority, where
\* the time slice check of context_switch looks for it.
ReadyAtPriority ==
  \A t \in Pids :
    inuse[t] /\ status[t] = "READY" => OnList(q, ReadyList(priority[t]), t)

\* The pipe events and the time event: the ones a waiter blocks on for a
\* condition that calls and ticks may make true.
ConditionEvents ==
  {ReadEvent(fd) : fd \in Fds} \union {WriteEvent(fd) : fd \in Fds}
    \union {TIME_EVENT}

\* A waiter whose request could be completed, or whose tick has come, is on
\* the list of a pending event: the next serve looks at it.  This is what
\* every fifo_read, fifo_write and tick must signal, and what clearing
\* pending at the end of a scan must not undo.
NoLostWakeup ==
  \A e \in ConditionEvents, t \in Pids :
    OnList(q, EventList(e), t) /\ Releases(e, t) => pending[e]

\* No thread is left blocked on a pipe that could serve it, nor asleep past its
\* tick, while threads run (but for FIFO 0's readers: the rescan skips event 0).
NoneLeftBlocked ==
  phase = "thread" =>
    \A e \in ConditionEvents \ {0}, t \in Pids :
      OnList(q, EventList(e), t) => ~Releases(e, t)

\* A thread that waits for an interrupt waits on an enabled line: the one-shot
\* handler and the re-arming call never leave it deaf.
IrqArmed ==
  phase = "thread" =>
    \A i \in Irqs : q[EventList(INTR_EVENT(i))] # <<>> => i \in enabled

\* context_switch finds a ready task: the unbounded scan of ready_list ends.
SomethingReady ==
  phase = "select" => \E p \in 0 .. PRIORITY_LIMIT : ~list_empty(q, ReadyList(p))

\* A live running thread is first on the ready list of its priority, which is
\* what lets SysTick take the processor from it.
CurrentIsFirst ==
  phase = "thread" /\ inuse[current] =>
    IsFirst(q, ReadyList(priority[current]), current)

\* A read of more than there is blocks: the reader leaves the ready lists
\* (fifo.c, "Trying to read more than there is: block").
ShortReadBlocks ==
  [][\A fd \in Fds, size \in Sizes :
       Read(fd, size) /\ ~fifo_readable(fd, size) =>
         ~OnReadyList(current)']_vars

\* PIPE_BUF is the "Size of largest atomic pipe message" (kconfig.h): the writer
\* of one does not wait on an empty pipe.
LargestMessagePasses ==
  phase = "thread" =>
    \A fd \in Fds, t \in Pids :
      OnList(q, EventList(WriteEvent(fd)), t) => len[fd] > 0

Urgent(t) ==
  \E p \in 0 .. PRIORITY_LIMIT :
    OnList(q, ReadyList(p), t) /\ \A r \in 0 .. p - 1 : list_empty(q, ReadyList(r))

\* Round robin: a task of the most urgent ready priority gets the processor or
\* stops being one, whatever its peers do short of calling setpriority on it
\* for ever (which sends it to the back of its list each time).
RoundRobin ==
  \A t \in Pids :
    \/ []<>(current = t \/ ~Urgent(t))
    \/ []<><<\E value \in Priorities : SetPriority(t, value)>>_vars

\* Every sleeper wakes.
SleepersWake ==
  \A t \in Pids :
    OnList(q, EventList(TIME_EVENT), t) ~> ~OnList(q, EventList(TIME_EVENT), t)
-----------------------------------------------------------------------------
(* The inductive invariant *)

\* Only "serve" has an event in hand, and its pending flag is up until the scan
\* of its list is over.
ServingOK == serving # None => phase = "serve" /\ pending[serving]

\* The waiters the scan has passed cannot be released: no step of the scan makes
\* one of them releasable again.
VisitedKept ==
  serving # None =>
    \A j \in 1 .. at - 1 :
      j <= Len(q[EventList(serving)]) => ~Releases(serving, q[EventList(serving)][j])

\* Between two serves no pipe, time or interrupt event is pending, save event 0.
Quiet ==
  phase # "serve" =>
    \A e \in 1 .. TIME_EVENT : ~pending[e]

IrqArmedOrPending ==
  \A i \in Irqs, t \in Pids :
    OnList(q, EventList(INTR_EVENT(i)), t) => i \in enabled \/ pending[INTR_EVENT(i)]

\* The running thread was taken off no list.
CurrentReady == phase = "thread" /\ inuse[current] => OnReadyList(current)

IInv ==
  /\ TypeOK
  /\ OnOneList
  /\ WaitersNotReady
  /\ ServingOK
  /\ VisitedKept
  /\ Quiet
  /\ NoLostWakeup
  /\ IrqArmedOrPending
  /\ CurrentReady

-----------------------------------------------------------------------------
(* FIFO calls implement AtomicPipes *)

\* The FIFO call a task is blocked in; a dead task is in none.
WaitingIn(t) ==
  LET blocking == {fd \in Fds : /\ inuse[t]
                                /\ \/ OnList(q, EventList(ReadEvent(fd)), t)
                                   \/ OnList(q, EventList(WriteEvent(fd)), t)}
      fd == CHOOSE f \in blocking : TRUE
  IN IF blocking = {} THEN [op |-> "none"]
     ELSE [op |-> IF OnList(q, EventList(ReadEvent(fd)), t) THEN "read" ELSE "write",
           fd |-> fd, size |-> arg[t]]

\* The task that runs, when none of the kernel's code does
Running == IF phase = "thread" THEN current ELSE None

Pipes == INSTANCE AtomicPipes WITH
  Tasks <- Pids, Capacity <- PIPE_BUF - 1, Nobody <- None,
  call <- [t \in Pids |-> WaitingIn(t)], level <- len, running <- Running

\* Blocking, retrying and waking, split over calls, interrupts and serve scans,
\* amount to atomic reads and writes of each FIFO, and a task whose call must wait
\* does not run again before the kernel has done it.
ImplementsAtomicPipes == Pipes!Spec

\* No call that could complete waits for ever: the events that accepting and
\* releasing mark bring the monitor to every waiter they make releasable.
CallsServed == Pipes!Served
=============================================================================
