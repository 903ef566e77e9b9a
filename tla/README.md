# rtenv-plus in TLA+

rtenv-plus is a small real-time operating system for ARM Cortex-M3/M4: a
kernel with priority scheduling, FIFOs, message queues, device and regular
files, a path server, a signal server, and a pthread layer on top. This
directory holds TLA+ models of it, their TLC configurations, and theorems
checked by TLAPS.

`PROJECT.json` lists the components, the runs, the source lines each definition
stands for, the hazards and the theorems in machine-readable form.

## 1. Inventory

### How the system runs

Threads run unprivileged, one at a time. They enter the kernel by `svc`
(`syscall_handler`), and the hardware by SysTick and the USART interrupts. Each
of these ends in `set_pendsv`, so PendSV tail-chains and `context_switch` runs
before any thread does. `context_switch` first lets the event monitor move tasks
from event lists to ready lists, then picks the first task of the first
non-empty ready list. Every blocking operation of the system, files and servers
included, comes down to `event_monitor_block`, `event_monitor_release` and
`event_monitor_serve`.

`task_create`, `task_kill` and most of pthread run in *thread* mode, on the same
data, with nothing but `cpsid`/`cpsie` around them, which the processor ignores
in unprivileged mode.

### Components

| Component | State | Operations | Talks to |
|---|---|---|---|
| Lists (`list.c`) | a `prev`/`next` pair in each head and each task control block | init, empty, remove, push, unshift, shift, `list_for_each_safe` | used by all below |
| Scheduler and system calls (`kernel.c`, `context_switch.s`) | `tasks[]`, `task_count`, `ready_list[]`, `current_tcb`, `timeup`, `tick_count`, `requests[]`, `__mutex` | the 13 calls, three interrupt handlers, `context_switch` | event monitor, files |
| Event monitor (`event-monitor.c`) | `events[]`: registered, pending, handler, data, list of waiters | find_free, register, block, release, serve | handlers of files, time, interrupts, tasks, mutexes |
| Files (`file.c`) | `files[]` | read, write, lseek, mknod; `mkfile`, `open` as messages | FIFOs, queues, block and regular files, path server |
| FIFOs, message queues (`fifo.c`, `mqueue.c`, `pipe.c`, `pipe.h`) | ring: start, end, data, two events | init, readable/writable, read, write, retry from the event handler | event monitor |
| Tasks (`task.c`) | task control block and stack of each slot | create, kill, exit | ready lists, event monitor |
| pthread (`pthread.c`) | record of each thread, mutex words | create, join, detach, exit, cancel, mutex lock/unlock | tasks, `task_block`, `mutex_*` calls |
| Block devices (`block.c`) | buffer, position, request in progress, busy flag | read, write, lseek, driver requests and responses | driver's FIFO |
| Regular files (`regfile.c`) | as block devices, per open file | read, write, lseek, requests and responses | server's FIFO |
| Path server (`path.c`) | paths, file systems, mounts | mkfile, open, register_path, register_fs, mount | every task through FIFO 28 and the caller's own FIFO |
| Rom device, rom file system (`romdev.c`, `romfs.c`) | open files | read, lseek; open by walking directories | block and regular file protocol |
| Signal server (`kernel.c`, `signal.c`) | handler per signal | signal, raise | FIFO 27 and the caller's own FIFO |
| Memory (`malloc.c`, `memory-pool.c`) | free list; bump pointer | malloc, free; alloc | pthread; file init |
| Serial tasks, boot (`kernel.c`) | - | output from a queue, input to a FIFO; order of creation | path server, interrupts |
| Shell, applications, trace, string functions, host tool, platform | - | - | programs and glue; not modelled |

### What is hard, and what makes each component correct

* **Lists.** A node is unlinked through its own pointers, without being told
  which list holds it; the node being pushed may be the list's last, its
  only one, or the neighbour of the scan in progress. Correct: rings stay doubly
  linked, one node moves, a scan meets every waiter.
* **Event monitor.** The pending flag is cleared *after* the scan; handlers mark
  other events during it; the loop restarts at event 1. Correct: no wake-up is
  lost, nobody stays blocked on a condition that holds.
* **FIFOs.** Several readers and writers of different sizes wait on one ring,
  and the kernel retries their calls for them. Correct: a call moves all of its
  bytes or none, in order, framed, and does not wait for ever while it could be
  served.
* **Scheduler.** Calls, interrupts and thread-mode code all move the same
  list nodes. Correct: each live task is linked exactly once, on the list its
  status and priority say; slices rotate; the scan for a ready task ends.
* **Timer.** Wake-up ticks wrap and are compared for equality. Correct: every
  sleeper is looked at in its very tick.
* **Tasks and threads.** Killing reaches a thread anywhere; slots are reused;
  join tests, then blocks. Correct: the lists agree with the
  slots in use, and `task_count` with both; join returns when, and only when, its thread is over.
* **Mutexes.** Test and set in preemptible code. Correct: one owner, waiters
  are not stranded.
* **Drivers and servers.** Requests travel through FIFOs that may be full,
  answers come back by a shared buffer and by events. Correct: every request is
  answered to the task that made it.
* **Boot.** Seven tasks start at one priority and register with each other.
  Correct: the root file system is mounted whatever the order of their slices.

## 2. Plan and state

| Stage | Modules | Status |
|---|---|---|
| 1 | `Lists`, `Kernel`, `MCKernel` against `AtomicPipes`; `KernelProofs`, `ListProofs` | done |
| 2 | `Pipe` against `ByteQueue`; `LinkedList` against `Lists`, with `PointerProofs`; `TaskKill`, creation and exit step by step on its pointers | done |
| 3 | pthread step by step: `Mutex` with `MutexProofs`; `Threads` (create, exit, cancel, detach, join) on `Malloc` | done, but for exit values and attributes |
| 4 | `RomFiles`: block device, regular files, `romdev_driver` and `romfs_server` composed, against `SharedFiles`; `RomFilesProofs` | done |
| 5 | `PathServer`, with boot, mount and `mknod` after boot; `Signals` against `HandlerTable` | done |
| 6 | `Malloc` against `Allocator` | done |
| 7 | message queues' blocking and `fork` as actions of `Kernel` | not done, see section 7 |
| 8 | proofs: ready lists by priority for threads that do not die; `PipeProofs`; `SignalsProofs`; `PathServerProofs`; that the models implement `AtomicPipes`, `SharedFiles` and `HandlerTable` | done |
| 9 | proofs: the free list of `Malloc`, in `PointerProofs`; the descriptors of `PathServer`, in `PathServerProofs` | done |

`Kernel` composes lists, events, FIFOs, tasks, timer, interrupts and scheduler.
The models of servers and drivers use what is shown there (a call is atomic, a
FIFO takes a whole write or holds its writer, a waiter whose condition holds is
woken) rather than its whole state. `RomFiles` composes two drivers, one of which
is a client of the other; `PathServer` composes the path server with three tasks
that depend on each other through it; `Threads` composes pthread with the heap.

## 3. Modules

| Module | Stands for | Remarks |
|---|---|---|
| `Lists` | the list operations as functions on sequences | `q[l]` is the sequence on head `l`; pushing removes the node from wherever it is first, as the code does |
| `Kernel` | `kernel.c`, `event-monitor.c`, `fifo.c`, `pipe.c`, `file.c`, `task.c` | see below |
| `MCKernel` | instances of `Kernel` | programs (`Boot`, `Callers`) for each run |
| `AtomicPipes` | the promise of FIFO reads and writes, and of who runs meanwhile | abstract |
| `KernelProofs`, `ListProofs` | theorems about `Kernel`, lemmas on `Lists` | |
| `Pipe` | `pipe.h`, the copying of `fifo.c` and `mqueue.c` | each iteration of a copying loop is a step |
| `ByteQueue` | the promise of a ring buffer | abstract |
| `PipeProofs` | theorems about `Pipe` | |
| `LinkedList` | `list.c`, `list.h` on pointers | each assignment in the code's order, `list_for_each_safe` as steps |
| `PointerProofs` | theorems about `LinkedList` and `Malloc` | the two kinds of pointers the system has |
| `TaskKill`, `MCTaskKill` | `task_create`, `task_kill` and `task_exit` preempted anywhere | on the pointers of `LinkedList`, with one ready and one event list |
| `Mutex`, `MutexProofs` | `pthread_mutex_lock`, `pthread_mutex_unlock` and the `mutex_*` calls | each step a thread can be preempted at; calls are one step |
| `RomFiles`, `MCRomFiles` | `block.c`, `regfile.c`, `romdev.c`, the serving loop of `romfs.c` | see below |
| `SharedFiles` | the promise of read, write and lseek of a file behind a driver | abstract |
| `RomFilesProofs` | theorems about `RomFiles` | |
| `PathServer`, `MCPathServer` | `path.c`, `mkfile` and `open`, registration, `mount_task`, opens by `romfs_server` | see below |
| `Signals` | `signal_server`, `signal.c` | see below |
| `PathServerProofs` | theorems about `PathServer` | |
| `HandlerTable` | the promise of signal and raise | abstract |
| `SignalsProofs` | theorems about `Signals` | |
| `Malloc` | `malloc.c` | units of `sizeof(Header)`, the list and the break |
| `Allocator` | the promise of malloc and free | abstract |
| `Threads` | create, exit, cancel, detach and join of `pthread.c` | extends `Malloc` |

### Kernel

State: `status`, `priority`, `inuse` are the fields of `tasks[]`; `q` has one
sequence per ready list (`ReadyList(p)`) and per event (`EventList(e)`);
`pending` are the event flags; `len` is `PIPE_LEN` of each FIFO; `enabled` the
NVIC's lines; `current`, `timeup`, `tick`, `taskCount` as in the code; `arg` is
what a release handler reads from the blocked task's frame (request size,
wake-up tick or pid). `phase`, `scan`, `serving`, `at` are the program counter of
`context_switch` and of the loops in `event_monitor_serve`.

A system call is one action: nothing runs between `svc` and PendSV but other
handlers, which take turns. `context_switch` is then split at every step of its
loops, since the invariants are about what those loops see: `ServeEvent`,
`WakeReader`, `WakeWriter`, `WakeOther`, `KeepWaiter`, `EndEvent`, `ServeDone`,
`Select`. Event numbers follow `kernel.h`, so the lowest event is FIFO 0's
readers, the rescan skips it, and task 0's event *is* the time event. The bytes
themselves are in `Pipe`, not here.

`task_create` and `task_kill` are one action each, though they run in preemptible
thread mode: on sequences a half-linked node has no meaning. What `Kernel` claims of
tasks that are created and die therefore holds between such calls; `TaskKill` takes
both apart and shows what does not hold within them. `taskCount` is only read (by
`getpriority`, `setpriority` and `task_create`); that it counts the slots in use
would hold here by construction, and is not claimed.

Programs: any task of `Callers` may make any call with arguments from `Sizes`,
`SleepTimes`, `Priorities` and `SpawnPriorities` whenever it runs; a task that is not
in `Callers` computes for ever, like `kernel_thread` after `main` returns.
`Mortal` are the tasks that may exit or be cancelled. `setpriority` names live
tasks only: the code does not check, and what happens otherwise is listed as
a hazard.

### Pipe, LinkedList, TaskKill, Mutex

`Pipe` starts a call when its readable/writable test accepts it and keeps the
history of what was written (`msgs`) to compare with what is read. `LinkedList`
has the pointers of every node; a node whose pointers mean nothing (`loose`)
must be initialised before it is pushed, as `task_create` does. Its property
`ImplementsLists` compares each step with the operator of `Lists` it stands for.

`TaskKill` has each step of `task_create` and `task_kill` at which a slice may end,
because both run in thread mode and the `cpsid` of `task_kill` does nothing there:
`inuse`, the list, and `task_count`, whose `++` and `--` are a load and a store, change one
after the other, and `list_push` and `list_remove` in two halves. Blocking calls,
interrupts, releases and slices happen in between. `Creators` may create, `Cancellers`
may cancel others, and every thread but `Spinner` may exit. Its four properties are what
a reader of `task.c` would expect, and none of them holds of the code: the run
`kill_preempted` shows the one that a comment there promises, and four configurations
the others (section 4).

`Mutex` has the program counter of each thread in lock and unlock. Any thread
that is not waiting may run next: priorities would only remove behaviours. A
thread holds one mutex at a time and unlocks what it locked.

### RomFiles

`block.c` and `regfile.c` run one protocol: a client's call finds the file free,
sends a request into its driver's FIFO from inside the kernel and blocks; the
driver answers by a write or lseek of the same file, which marks the file's
event; the event's handler retries the calls of all who wait. `file` has the
fields of the file's record, `waiting` the list of its event, `fifo` and `hand`
the requests sent and in a driver's hands. `Submit`, `Held`, `Complete` and
`Refuse` are what the readable, writable and lseekable operations decide, used
both by a client's call (`Syscall`) and by the retry (`RetryBlocks`, `RetryEnds`).

Regular files are served by `romfs_server`, which for each read seeks and reads the
device: it is a driver and a client at once. `step` is where it is in serving
and `target` the variable it answers to. Users in `Urgent` have the priority of
the drivers and run in between their steps; the others (`PRIORITY_DEFAULT` is lower
than the boot tasks' 0) only when both drivers wait. Data are device
addresses: a read returns where its bytes begin and how many there are.

### PathServer

Every request is one write into FIFO 28 and every answer a write into the asker's
own FIFO; `requests` and `fifo` have the messages with their sizes, so a full
FIFO holds its writer as in `Kernel`. `done` counts the requests a task has made of
its program: `romdev_driver` registers its device and then makes a node for it,
`romfs_server` registers its type and then serves, `mount_task` mounts, users make
and open. Serving an open, `romfs_server` itself registers the path with the path
server and reads the answer from the FIFO where its opens arrive too: `OneAtATime` says that no
second open is on its way to it while it serves one. `pool` is the room
left in the kernel's memory, and `made` counts `mknod`s per descriptor.

### Signals

A request is a write per word, and the server's reads are one by one as well:
`todo` are the words a caller has still to write, `queue` the server's FIFO, `got`
what it has read. `handler` and `flags` are the two fields of `sig[]` in use. The
constant `Turns` says whether a task starts a request while another has not
finished writing its own.

### Malloc, Threads

`heap` has the two words of each header, the break and `freep`. Sizes are computed
in 32 bits, as in the code: `SPAN` is the number of units in the address space, so `nunits` of a
demand just below 2^32 bytes is one unit, and the break moved by such a number comes out below
where it was. `SmallDemands` keeps demands out of that range. Loops over the list
(first fit, the place of a freed block) are found by the position of the block
at which the code's loop stops. `BASE` puts the list's anchor before or behind the
heap, which the linker decides. `Threads` keeps a thread's record in that heap, with
the size `pthread_create` asks for, so that two of its fields lie in the header of
the next block.

## 4. Runs

| Run | Question | Bounds |
|---|---|---|
| `kernel_ipc` | Is a wake-up ever lost? Do blocking, retrying and waking amount to atomic calls that are eventually served? | 3 callers and an idle task, 2 FIFOs of 3 bytes, sizes 1 and 2 |
| `kernel_sched` | Do statuses, priorities, ready lists and the running thread agree; do slices rotate and sleepers wake? | 3 callers at two priorities and an idle task, one interrupt line, ticks modulo 3, sleeps of 1 and 2 |
| `kernel_life` | Are tasks lost or doubled when they are created, exit or are cancelled anywhere? Do the calls of the others stay atomic? | 4 slots, one free, two mortal, one FIFO, sleep, join |
| `pipe_ring` | Are bytes and messages whole, in order and framed over the wrap? | ring of 6 bytes, length word of 2, every payload over {0, 1} that fits |
| `list_pointer` | Do the pointer assignments implement the lists, aliases and scans included? | 2 heads, 3 nodes |
| `mutex_table` | Does the table of mutexes lose waiters, starve them, or let everyone wait? | 3 threads, 3 mutexes, 2 entries |
| `file_calls` | Is a request ever lost, doubled or answered to another task? Are calls on both layers atomic, and do they return? | 3 users of one regular file and the device; buffers of 2 bytes, a device of 4; a FIFO with room for one request |
| `path_calls` | Does every request of boot and of programs get its own answer, in any order of slices? Is `romfs_server` sent one open at a time? | 3 boot tasks, 2 users with 3 requests each, FIFOs of 63 bytes, memory for 3 nodes |
| `heap_blocks` | Do blocks ever overlap, get lost or stay apart that should be merged? | heap of 10 units, demands of 0, 4 and 16 bytes, an address space of 64 units |
| `signal_calls` | Do requests written and read in words stay in step, and amount to atomic calls that return? | 2 tasks, 2 signals, 2 handlers, a FIFO of 5 words |
| `kill_preempted` | Is every thread on a list if `task_kill` is preempted? **No** | 2 threads that may exit, one that does not |
| `join_waits` | Does `pthread_join` wait for its thread? **No** | 2 threads, heap of 8 units |

Further configurations show what the code does where a run's premises fail; TLC
finds the property violated in each of the following:

| Configuration | Property | Premise dropped |
|---|---|---|
| `KernelReuse.cfg` (`MCKernel`) | `ShortReadBlocks` | slots are not reused after a kill |
| `KernelNoIdle.cfg` (`MCKernel`) | `SomethingReady` | there is an idle task |
| `KernelFullMessage.cfg` (`MCKernel`) | `LargestMessagePasses` | writes are shorter than `PIPE_BUF` |
| `CreateSlots.cfg` (`MCTaskKill`) | `SlotsDistinct` | one thread at a time creates |
| `CreateLost.cfg` (`MCTaskKill`) | `TasksReachable` | `list_push` of a new thread is not preempted |
| `KillExit.cfg` (`MCTaskKill`) | `ExitsFinish` | `task_exit` is not preempted behind `list_remove` |
| `KillCount.cfg` (`MCTaskKill`) | `CountsAll` | `task_count++` is not preempted |
| `HeapWraps.cfg` (`Malloc`) | `ImplementsAllocator` | `SmallDemands`: `nunits` wraps to one unit |
| `HeapShrinks.cfg` (`Malloc`) | `Partition` | `SmallDemands`: `sbrk` moves the break down |
| `FileRoom.cfg` (`MCRomFiles`) | `CallsAnswered` | `RoomForRequests`: two urgent users on two files, a FIFO with room for one request |
| `MutexExclusion.cfg` (`Mutex`) | `MutualExclusion` | none: the property is of the mutex itself |
| `FileWrite.cfg` (`MCRomFiles`) | `CallsAnswered` | no program writes a regular file |
| `PathOpens.cfg` (`MCPathServer`) | `RightAnswers` | one task opens files of the rom |
| `SignalWords.cfg` (`Signals`) | `InStep` | callers take turns to write |

`FileMany.cfg` (`MCRomFiles`) finds no error: it is `file_calls` with two regular files and
users less urgent than the drivers, which the FIFO with room for one request can serve.

Why the bounds are enough. In `kernel_ipc` two waiters queue on one side of a
FIFO, one of them releasable and the other not, and a released waiter makes a
third releasable on the other side: these are the cases `event_monitor_serve`'s
rescan exists for. A ring of 3 holds 2 bytes, so both sizes can block on both
sides. Two FIFOs give an event before and one behind the event being served.
In `kernel_sched` two tasks share each priority, so a slice can go to a peer;
ticks wrap within one sleep. In `pipe_ring` the ring is longer than the length
word by more than a message, so a message straddles the wrap at each offset. Three
nodes are the fewest for which a moved node has two distinct neighbours. In
`mutex_table` there are more mutexes than entries, so entries are recycled; three
threads that hold one mutex at a time cannot fill two entries and need a third.

In `file_calls` two urgent users and a less urgent one meet on one file while
`romfs_server` and a user meet on the device, so every list has a waiter behind the
one served, of another operation than his; reads clip at the buffer and at
the end of the file, seeks fail, and the FIFO of `romfs_server` has room for one request.
In `path_calls` the memory ends on the second FIFO of the program, so both answers of
`mkfile` occur; one open is of a path twice, one of a path that is missing, and
each comes before or after the mount. `heap_blocks` has room for four smallest
blocks, so a freed block has a free neighbour on either side, on both, or on none, and
demands are met exactly, by a tail, after a turn of the list, or not at all; it was
also run with the anchor below the heap (`BASE = 0`). In `signal_calls` two requests of
four words do not fit the FIFO, so both sides wait for each other.
The theorems of section 6 lift invariants from the instances to every size.

No run has a state constraint: `tick` wraps as the counter does, and everything
else is bounded by the program.

Deadlock is checked in every run but two: in `path_calls` programs end
(`RequestsAnswered` says that they end having been answered), and in `join_waits`
main may block for ever. Elsewhere a thread can always be interrupted by a tick,
some thread never waits, or drivers and callers go on for ever.

### Fairness

`Kernel`'s `FairSpec` assumes weak fairness of the steps of `context_switch`
(straight-line code with interrupts masked) and strong fairness of `Tick`: SysTick is
never disabled, but `set_pendsv` drops a tick that becomes pending while the
kernel runs, so the claim is only that threads are not inside a call at
each single expiry. Nothing is assumed of threads: a caller may stop calling.
`RoundRobin` excepts a task that is sent to the back of its list by
`setpriority` for ever. `AtomicPipes` states its fairness without ENABLED: a
waiting call does not stay possible for ever.

`Mutex` assumes no fairness: `UnlocksReachAll` says that a thread does not stay
waiting while its mutex is unlocked again and again.

`RomFiles`: weak fairness of the retries, which the kernel runs to their end; strong
fairness of each driver, because it loops at the most urgent priority, where
round robin gets to it, but is not enabled while the kernel serves an event.
Nothing is assumed of users. `PathServer`: weak fairness of each task's steps, for the
same priority; users there do make the requests of their programs, since
`RequestsAnswered` is about their coming to an end. `Signals`: weak fairness of the
server, a boot task, and of the steps inside a call, so callers are taken to be of
a priority that is given slices; nothing makes a task begin a call. Weak is
enough because a write that waits for room, or a read that waits for a word,
stays possible once it is.

## 5. Findings

* `JoinWaits` (`join_waits`). `pthread_create` allocates the size of a pointer for a record of
  four words. `released` is then the link word in the header of the next block: with two
  threads made, `pthread_join` of the first returns `ESRCH` while it runs.
* `TasksReachable` (`kill_preempted`). A slice that ends between the two assignments
  of `list_remove` in `task_kill` leaves the ready list inconsistent; the thread
  pushed next is lost, although the code says "Never context switch here".
* `MutualExclusion` (`MutexExclusion.cfg`). The test and the assignment of the lock word
  are not atomic for unprivileged threads, and a woken waiter takes the mutex
  without looking at it again.
* `CallsAnswered` (`FileWrite.cfg`). For a write request `romfs_server` answers to the file
  of its last read or seek, or to whatever its local variable holds: the writer
  waits for ever and its file stays busy.
* `RightAnswers` (`PathOpens.cfg`). With two tasks opening rom files, the second request can be
  in `romfs_server`'s FIFO before the answer to its `path_register`, which is
  then read out of it: the first open returns a command word as its descriptor.
* `ShortReadBlocks` (`KernelReuse.cfg`). `task_create` does not set the status of the
  slot it takes. A thread cancelled while it waits leaves `TASK_WAIT_*` there,
  and the slot's next thread is not put on the event's list when its own read
  should block: it goes on with the read unfinished.
* `SomethingReady` (`KernelNoIdle.cfg`). There is no idle task beside `main`. When
  `main` blocks too, as in `app/snake`, the scan in `context_switch` leaves
  `ready_list`.
* `LargestMessagePasses` (`KernelFullMessage.cfg`). `PIPE_BUF` is documented as the size
  of the largest atomic message; one of that size is accepted by the size
  test and then blocks on an empty FIFO for ever.

Facts about the code that the properties had to state round: readers of
FIFO 0 are not looked at again in the pass that served them (`NoneLeftBlocked`
excepts event 0); `task_release` looks at the last slot, whatever thread is
being joined, because it is registered with the address of a loop variable; in some
orders of the boot tasks `mount` answers -1, which `mount_task` does not look at; and
`mkfile` of a path that exists makes a second file that `open` never finds.

## 6. Proofs

### Kernel

For every value of the constants that satisfies `LimitsAssumption` and
`ProgramAssumption`:

| Theorem of `KernelProofs` | Property |
|---|---|
| `TypeCorrect` | `TypeOK` |
| `EachOnOneList` | `OnOneList` |
| `WaitersStayPut` | `WaitersNotReady` |
| `WakeupsKept` | `NoLostWakeup` |
| `NobodyLeftBlocked` | `NoneLeftBlocked` |
| `WaitedLinesArmed` | `IrqArmed` |
| `AlwaysSomethingReady` | `SomethingReady`, given a task that makes no calls and does not die |
| `ReadyWhereLookedFor` | `ReadyAtPriority`, given `Mortal = {}` |
| `RunningIsFirst` | `CurrentIsFirst`, given `Mortal = {}` and a boot that makes task 0 first |
| `CallsAreAtomic` | `ImplementsAtomicPipes` |

The argument is one inductive invariant, `IInv` (in `Kernel`). `NoLostWakeup` is
not inductive: `EndEvent` clears the flag of the event served, so one has to
know that no waiter left on its list can be released. That is `VisitedKept`: the
waiters the scan has passed are not releasable, and no step of the scan makes
one so. Waking a reader only empties the pipe, waking a writer only fills it;
the scan of one side never helps the waiters of that side. `VisitedKept` in turn needs
`OnOneList` (a waiter pushed elsewhere leaves exactly one place, so the
positions passed keep their tasks), and `ServingOK` (the event served stays
marked until the scan ends). `Quiet` says the serve loop ends with nothing
marked but event 0, which together with `NoLostWakeup` gives `NoneLeftBlocked`.
`CurrentReady` keeps `setpriority` and the blocking calls from losing the
running task, and `IrqArmedOrPending` carries `IrqArmed` through the switch.

Lemmas on lists (`ListProofs`) reduce each operation to "which places hold which
node", from the library's definition of `RemoveFirst`; every action's effect on
`OnOneList` is one of four shapes (`Moved`, `PushFront`, `RemovedDropped`, no change).

`AlwaysSomethingReady` follows from `IInv` and a task that is outside
`Callers` and `Mortal`: it is never blocked, so it is on some ready list.

`InPlace` carries the last two: a task is on the ready list of a priority exactly
when it is `TASK_READY` and that is its priority. The way from the lists to the
status is what `IInv` cannot give when threads die, because `task_create` keeps the status
of the dead slot: TLC finds both properties violated on the instance of
`KernelReuse.cfg` with `Priorities = {0, 1}`, by a `setpriority` of a new thread whose
stale status hides that it is ready. Hence `Mortal = {}`. `CurrentIsFirst` needs it
again where `Select` takes the head of a list: the list's number is the task's priority.

For `CallsAreAtomic` the call a task is in is read off the event list that holds it
and its `arg` (`MappedCalls`): by `OnOneList` there is at most one. Every step is then
mapped: an accepted call takes effect at once, a refused one begins to wait, `WakeReader` and
`WakeWriter` complete the call of the task they release, killing drops a call, entering and
leaving the kernel change who runs, and everything else is a
stutter. A `setpriority` moves nobody out of a call because waiters are never `TASK_READY`
(`WaitersStayPut`), and the task that `Select` takes from a ready list is in no call since
it is on one list only. What is left to TLC is `CallsServed`, that a waiting call does not stay
possible for ever. A request that the code loses, because the slot's stale status keeps its
task off the event's list (`ShortReadBlocks`), is no call to `AtomicPipes`.

### Files behind drivers

| Theorem of `RomFilesProofs` | Property | Beyond the module's assumptions |
|---|---|---|
| `FileTypeCorrect` | `TypeOK` | `ReadOnlyFiles` |
| `RequestsAnsweredOnce` | `OneRequest` | `ReadOnlyFiles` |
| `WaitersServedInTurn` | `HeadIsServed` | `ReadOnlyFiles`, `RoomForRequests` |
| `CallsOnFilesAreAtomic` | `ImplementsSharedFiles` | `ReadOnlyFiles`, `RoomForRequests`, `DeviceLeftAlone` |

`ReadOnlyFiles` (no program writes a regular file) is what `FileWrite.cfg` shows to be
needed. The inductive invariant `IInv` adds to `OneRequest` that tasks on a file's
list are there once and in a call on it (`Listed`), that requests are in the
FIFO of their file's driver (`Addressed`), and that `target` is the file of the
request `romfs_server` serves (`AtRequest`), so that its answer meets a busy file.

`HeadIsServed` is not inductive while an event is served. `Retried` says what holds then:
before the first retry the file has just been answered, and its head is the task
answered or nobody's; after it the file is busy with the head's request. That the retry
after a completed call can submit again needs room in the driver's FIFO: otherwise
nobody asks for that file again, and its waiters are left behind (`FileRoom.cfg`).

`RoomForRequests` is the room it takes: a request about each file of the driver that an
urgent program uses, and about one more. In the code an `fs_request` has 56 bytes and a FIFO
holds 63, so `Room[romfs]` is 1, and the hypothesis is met by one regular file with users of any
priority, or by any number of them when only users less urgent than the
servers use them, as programs at `PRIORITY_DEFAULT` are. Those make their calls when both
drivers rest, which is when no request is in progress (`DriversRest`); so at most one of
them is in a call, with the request in progress its own (`OneLessUrgent`). Each file has at most
one request in the FIFO (`OneRequest`), so the FIFO's places inject into the files that
urgent programs use and that one, and the file about to be asked for has none (`RoomLeft`).

`CallsOnFilesAreAtomic` needs to know what requests and answers say, which `SharedIInv` (in
`RomFiles`, and checked there by TLC) adds. A request says what its task's call asks of the file
as it is *now* (`Current`): nobody else moves a busy file's position. An answer waits only
while its file's event is served and before the first retry (`Collected`, in `TurnIInv`), and is then the
right one (`RightAnswer`). `Stage` follows `romfs_server` through a request: its seek
puts the device at the bytes, and nobody moves the device before its read is over. That is
where priorities matter: the device is shared, and the two calls of the server on
it are atomic only one by one. A user less urgent than the drivers runs when both wait, which
finds `romfs_server` between requests. `DeviceLeftAlone` says that other users
leave the device alone; when one does not, TLC finds `ImplementsSharedFiles` violated.
Every step is then the beginning or the refusal of a call, its taking effect and
return (at `RetryEnds`), or a stutter; a client's call on the device made by
`romfs_server` is one like those of users.

### Rings

| Theorem of `PipeProofs` | Property |
|---|---|
| `RingInBounds` | `RingOK` |
| `AlwaysFramed` | `Framed` |
| `OldestRead` | `ReadsOldest` |
| `PipeIsQueue` | `ImplementsByteQueue` |

`Framed` is not inductive, since it speaks of the ring between calls only. `IInv` says what
holds in the midst of a copying loop: the bytes got, the bytes in the ring and the bytes still
to push are, in this order, the messages written and not yet read (`Cut`), and what
the loop has still to do is there to be done (`Within`). The contents of the ring are a
sequence of `PIPE_LEN` bytes that starts at `start` modulo `PIPE_BUF`; `PutByte` and
`TakeByte` say what one iteration does to it at any offset. A length word is turned into a
message length by `FramesFacts`: a stream of frames that is not empty begins with a whole frame. This
is proved by induction on the number of messages over the recursive function of
`FlattenSeq`.

### Signals

| Theorem of `SignalsProofs` | Property |
|---|---|
| `SignalTypes` | `TypeOK` |
| `AlwaysInStep` | `InStep` |
| `CallsOnOneTable` | `ImplementsTable` |

All three assume `Turns`; `SignalWords.cfg` shows that `InStep` fails without it. The invariant
has an order of the callers that are in a call and not yet answered: the words the server has read, those in its FIFO and
those the last caller has still to write are the requests of these callers, one behind
the other, and only the last of them (`Latest`) may have words unwritten. Reading and
writing move a word from one part to the next, and a caller that begins is put last,
where there is nothing unwritten to come between. When the server has read four words they
are therefore one caller's request, which is `InStep`, and the step that serves it is
that caller's atomic call on the table.

### Path server

| Theorem of `PathServerProofs` | States |
|---|---|
| `AnswersAreRight` | `RightAnswers` holds as long as `OneAtATime` does |
| `FilesMadeOnce` | `MadeOnce` holds as long as `OneAtATime` does |
| `OneOpenerIsRight` | `OneAtATime`, `RightAnswers` and `MadeOnce` hold, given `OneOpener` |
| `TablesHold` | `TypeOK` holds as long as `OneAtATime` does, given `RoomForPaths` |
| `TablesHoldOneOpener` | `TypeOK` holds, given `RoomForPaths` and `OneOpener` |

`BootPrograms` is what the code of the servers fixes: `romdev_driver` registers paths, only `romfs_server`
registers a type. Users may make any requests, in any number. `OneAtATime` as a hypothesis
is the exact condition that `PathOpens.cfg` shows to be needed: a run in which
`romfs_server` is sent a second open while it reads an answer takes it for that
answer. `OneOpener` (the program of one task at most opens paths under the mount point) is a
condition on programs that is enough for it; the task may open as many as it
likes, and others may make and register paths and open what is not under the mount point. It is not necessary: in
`PathCalls.cfg` the second task opens the FIFO it has made, under the mount point too, and
that open is answered without `romfs_server`. There TLC checks that `OneAtATime` holds.

The invariant gives each task's request a station (`place`): nowhere, in the path server's FIFO,
being answered, answered, in the path server's hands to forward, in `romfs_server`'s FIFO, or
opened by it. What every FIFO and the two servers' hands hold is then determined: a task's own FIFO
has the answer to its request and nothing else, except that the FIFO of `romfs_server` has
the opens forwarded to it as well. Each action moves one request by one
station. Answers stay right while they travel since paths are only ever added (`FilesGrow`).
`MadeOnce` follows from the same invariant, because a descriptor is given to one registration and that task makes the node.

`TypeOK` bounds two things that no step looks at: descriptors, which `path.c` gives out by counting without a
look at the table's end, and the bytes in each FIFO. `RoomForPaths` says that the table has a descriptor for every request
of the programs that may register a path (`Naming`: `mkfile`, `open`, `register`). The invariant (`Tables`) has four parts.
`Counted`: there is a set of requests, one fewer than the paths, that were made and for which each path was registered; a
task's own latest request is not in it while the path server still owes the decision (`Owed`: no answer is
made, on its way or read, and no registration done by `romfs_server` for it). An `open` of the rom is why this is not
simply the requests answered: its path is registered by `romfs_server`, between two messages, and counts against the
request of the task that opened. `Turn`: what a waiting task asked for is what its program has next. `Known`: mount points,
nodes and answers have descriptors that were given out. `RoomLeft`: a request is written only if it fits, and a word and an
open lie together in `romfs_server`'s FIFO only if both fit. `Held`, a sum over a FIFO, is treated as a function by its
first sums (`HeldAppend` and the lemmas before it), by induction with `NatBySets`.

### Mutexes

| Theorem of `MutexProofs` | Property | Beyond the module's assumptions |
|---|---|---|
| `NeverAllWait` | `SomeoneRuns` | none |
| `WaitersAreFound` | `WaitersFound` | `RoomInTable`: threads are no more than entries plus one |

The invariant behind both is `HeldBy`: a lock word that is set has a thread still
inside, neither waiting nor before its test. A thread waits only after it saw the
word set; were it the last to go to sleep, that word's thread would be asleep
too. So there are fewer waiters than threads, with `RoomInTable` no more than entries, and
`EntryFor` finds an entry whenever a thread needs one: `Beyond` never happens, and
an entry with waiters keeps its mutex.

### Lists on pointers

| Theorem of `PointerProofs` | Property |
|---|---|
| `RingsStayLinked` | `DoublyLinked` |
| `WalksStayOnLists` | `WalkStaysOnList` |
| `PointersAreLists` | `ImplementsLists` |

Which list a node is on, and where, is nowhere in the pointers. The invariant says that
there is a function from heads to sequences (`q`) along which they lie: `next` of each node is the
one behind it, of the last the head, and items on no list are linked to themselves (`Laid`). `list_push` and
`list_unshift` of a node that may be anywhere, even next to its destination, are
shown to be an unlinking followed by a linking (`PushLinks`, `UnshiftLinks`), and each of these
is an operation on `q` (`LaidUnlinked`, `LaidBehind`, `LaidBefore`), by the lemmas of `ListProofs`. So the
theorems of `Kernel` and `Mutex`, which are about sequences, rest on what the pointers do.

`Chain`, the list that a reader of the pointers finds, is `q` (`ChainIsList`): by induction the
walk along `next` meets the nodes of `q[l]` in order and then the head, which no list is too long for
since its nodes are distinct and there are finitely many. That a walk's `curr` is on the list it walks is
`WalkAt`; the node released by `MoveCurr` is another than the next one.

### The heap

The second half of `PointerProofs` is about `Malloc`, for every `HEAP` and `Demands`, and `base` on
either side of `heaps`, provided that no demand is so large that the 32-bit arithmetic wraps (`SmallDemands`: none
within 272 bytes of 2^32, with the 256 bytes of `heaps`). `NoWrap` and `BreakMoves` derive from it that `nunits` and
the break are what they would be without a bound; `HeapWraps.cfg` and `HeapShrinks.cfg` show that it is needed.

| Theorem | Property |
|---|---|
| `HeapIsPartition` | `Partition` |
| `HeapIsMerged` | `Merged` |
| `HeapIsAllocator` | `ImplementsAllocator` |

The invariant `HeapIInv`: nothing was asked for yet, or there is a set of addresses `F`, the headers of the
free blocks, for which `Sound` holds. `Sound` has four parts. `Words`: the types. `Ring`: from each address of `F` the word
`ptr` leads to the next higher one, from the highest to the lowest, and `base` and `freep` are among them. `Tiles`: free blocks
and blocks in use end where or before the next begins, and each unit below the break is in one of them; only `base` has
no units. `Apart`: no free block but `base` ends where another begins. None of the checked properties is inductive without the
others: a search finds a block only if the list is a ring, merging is right only if blocks do not overlap, and
the place of a freed block exists only if `F` is in order of address.

The argument has three layers. On orders: a node taken out of a ring in order of address or put in between two
neighbours leaves one (`OrderWithout`, `OrderWith`), and for each address off the list there is just one place (`PlaceFor`).
On walks: `Walk` from `freep` stays in `F` and reaches each of its members within `HEAP + 1` steps, since every step
lessens the way still to go round (`Nearer`, `WalkReaches`), so that the blocks of a turn are `F` (`TurnIsRing`, `FreeListIsRing`), a
fit is found if there is one, and the loop of `free` ends. On blocks: freeing, joining, cutting, taking and
growing keep the tiling (`TilesFreed`, `TilesJoined`, `TilesCut`, `TilesTaken`, `TilesGrown`). `TakeFacts`, `JoinHalf` with `LinkWhole`, and `GrownFacts`
put them together for what `malloc`, the two halves of `free` and `sbrk` assign. After `sbrk` has freed the new units,
the search finds room (`GrownFacts` has a free block as long as was asked for).
`free` of a block whose end is where `base` lies would join a block of no units; that `sbrk` compares with `<`
keeps the break off the end of the heap, and so off a `base` behind it.

### Assumptions

`ASSUME`s of the modules: `LimitsAssumption` (positive sizes) and `ProgramAssumption` (the boot
tasks are each on one list; arguments have their types; pid 0 and the tasks
that `Mortal` leaves out exist from boot) of `Kernel`, and the assumptions on constants of
`RomFiles`, `Mutex`, `LinkedList`, `Malloc`, `Pipe`, `Signals` and `PathServer` (distinct names, finitely many nodes, positive sizes;
a payload byte fits a byte and the largest message a byte-wide length; `FILE_LIMIT` lies
beyond the first descriptor the path server gives). TLC evaluates
them in every run of their modules. The hypotheses of single theorems (`Mortal = {}`, `ReadOnlyFiles`,
`RoomForRequests`, `DeviceLeftAlone`, `SmallDemands`, `RoomInTable`, `Turns`, `BootPrograms`, `RoomForPaths`) are met by the instance
of the run that checks the property. The inductive invariants of `Kernel`, `RomFiles` and
`Mutex` stand in those modules, where TLC can check them too; the others, which say that
something exists (an order of callers, lists, stations), stand with the proofs.

### Only model-checked

Liveness, which is beyond the prover: `RoundRobin`, `SleepersWake`, `UnlocksReachAll`,
`RequestsAnswered`, and what the abstract specifications promise besides their safety: `CallsServed` and
the two `CallsReturn`.

Induction over data is possible where a definition is a recursive function (`FlattenSeq`, `Chain`): the lemma
`NatBySets` of `ListProofs` takes the set of numbers for which a fact holds in place of the
operator that the library's induction theorems are stated with.

## 7. Not modelled, and why

* `fork`: copies stacks and the addresses in them; no program of the repository calls it.
* Message queues' blocking in `Kernel`: their framing is in `Pipe`, their events are those of FIFOs.
* `Kernel` with `task_create` and `task_kill` in steps: `TaskKill` has the steps, with one ready
  and one event list and no FIFOs. The two together are beyond the size TLC can run.
* `setpriority` on a dead pid, and cancelling oneself: what happens depends on what
  stale pointers hold.
* Exit values, thread attributes and `pthread_self`; a NULL from `malloc` in
  `pthread_create`, which is written through. A heap whose list the overlap of
  section 5 has broken is not followed further.
* More mutexes with waiters than the table has entries: `Mutex` has the step
  (`Beyond`), the theorem says when it does not happen. `data.count` and
  `__mutex.count`, which nothing reads.
* The walk of `romfs_open` over directories: `RomPaths` are the paths it finds.
  `driver_read` of device and regular file has no effect. Seeks are bounded by the
  programs given; a client cancelled inside a call leaves its file busy.
* The reads of one path request, which is there as a whole, are one step. A node
  opened between `path_register` and `mknod` has no file yet, and a read of it fails.
* What the signal server does with words out of step: it depends on the numbers that
  commands, descriptors and signals share.
* A tick that is dropped by `set_pendsv`: indistinguishable from one that
  comes later.
* Stacks, registers and buffers: `arg` keeps the one word handlers read; bytes are
  in `Pipe`.
* Shell, applications, trace, string functions, the host tool, platform set-up
  and vendored libraries. The last two are most of the repository's lines, and
  the share of lines that `map` covers is small for that reason.

## 8. Running

    tlc -config KernelIpc.cfg MCKernel      # likewise the other Kernel*.cfg
    tlc -config MCPipe.cfg Pipe
    tlc -config MCLinkedList.cfg LinkedList
    tlc -config TaskKill.cfg MCTaskKill     # and KillExit.cfg, KillCount.cfg, Create*.cfg
    tlc -config MCMutex.cfg Mutex           # and MutexExclusion.cfg
    tlc -config FileCalls.cfg MCRomFiles    # and the other File*.cfg
    tlc -config PathCalls.cfg MCPathServer  # and PathOpens.cfg
    tlc -config Heap.cfg Malloc             # and HeapWraps.cfg, HeapShrinks.cfg
    tlc -config ThreadsJoin.cfg Threads
    tlc -config SignalCalls.cfg Signals     # and SignalWords.cfg
    tlapm KernelProofs.tla                  # likewise ListProofs, PipeProofs, RomFilesProofs,
                                            # PathServerProofs, SignalsProofs, MutexProofs,
                                            # PointerProofs

Definitions marked "mutant" in the modules are faulty variants of the definition that
follows them; no specification uses them. Putting one in place of its original
breaks the property that `mutants` in `PROJECT.json` names.
