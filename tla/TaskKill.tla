------------------------------ MODULE TaskKill ------------------------------
(***************************************************************************)
(* task_create and task_kill preempted (src/task.c).  Both run in thread   *)
(* mode; the _disable_irq of task_kill is cpsid, which has no effect there *)
(* since task_start makes threads unprivileged.  So an interrupt, and with *)
(* it context_switch, can come between any two of their assignments:       *)
(*                                                                         *)
(*   task_create   Search - TakeSlot - PushNode - EndPush - Count - Counted *)
(*   task_kill     BeginKill - EndRemove - DropSlot - Uncount - Uncounted  *)
(*                                                                         *)
(* task_count is counted up and down by a load and a store.  list_push is  *)
(* taken in two halves and list_remove in its two assignments, on the      *)
(* pointers of LinkedList, with one ready list and one event list.  The    *)
(* release of the killed thread's joiners comes last; none is modelled.    *)
(***************************************************************************)
EXTENDS LinkedList

S == INSTANCE SequencesExt

CONSTANTS
  ready, event,   \* the heads
  Slots,          \* tasks[]: all of Items, in the order task_search_empty looks
  Boot,           \* the threads that exist at first, in the order of creation
  Spinner,        \* the thread that neither blocks nor dies
  Creators,       \* the threads that call task_create
  Cancellers      \* the threads that call pthread_cancel on others

TASK_LIMIT == Cardinality(Items)

VARIABLES
  current,     \* the running thread
  kernel,      \* context_switch is running
  inuse,       \* the slots that are in use
  task_count,
  step,        \* where each thread is in task_create or task_kill, or neither
  slot,        \* the slot it is creating or killing
  copy         \* what it has loaded from task_count

killVars == <<vars, current, kernel, inuse, task_count, step, slot, copy>>

KillInit ==
  /\ ptr = LET heads == [next |-> [n \in Nodes |-> IF n \in Heads THEN n ELSE Null],
                         prev |-> [n \in Nodes |-> IF n \in Heads THEN n ELSE Null]]
               create(m, n) == list_push(list_init(m, n), ready, n)
           IN S!FoldLeft(create, heads, Boot)
  /\ inuse = S!ToSet(Boot) /\ task_count = Len(Boot)
  /\ loose = Items \ inuse /\ walk = NoWalk
  /\ current = Head(Boot) /\ kernel = FALSE
  /\ step = [n \in Items |-> "program"]
  /\ slot = [n \in Items |-> n] /\ copy = [n \in Items |-> 0]

-----------------------------------------------------------------------------
(* The kernel, and the calls that block *)

\* A call that blocks, with the PendSV that follows it
Block ==
  /\ ~kernel /\ step[current] = "program" /\ current # Spinner
  /\ ptr' = list_push(ptr, event, current)
  /\ kernel' = TRUE
  /\ UNCHANGED <<loose, walk, current, inuse, task_count, step, slot, copy>>

\* A tick or another interrupt
Interrupt ==
  /\ ~kernel /\ kernel' = TRUE
  /\ UNCHANGED <<vars, current, inuse, task_count, step, slot, copy>>

\* event_monitor_serve releases a waiter.
Release(n) ==
  /\ kernel
  /\ n \in S!ToSet(Chain(event))
  /\ ptr' = list_push(ptr, ready, n)
  /\ UNCHANGED <<loose, walk, current, kernel, inuse, task_count, step, slot, copy>>

\* The rest of context_switch; the slice may be over.
Switch ==
  /\ kernel
  /\ ptr' \in {ptr} \union
       (IF ptr.next[ready] = current THEN {list_push(ptr, ready, current)} ELSE {})
  /\ ptr'.next[ready] # ready
  /\ current' = ptr'.next[ready]
  /\ kernel' = FALSE
  /\ UNCHANGED <<loose, walk, inuse, task_count, step, slot, copy>>

\* The running thread goes on from one step of task_create or task_kill to the next.
Steps(from, to) ==
  /\ ~kernel /\ step[current] = from
  /\ step' = [step EXCEPT ![current] = to]
  /\ UNCHANGED <<walk, current, kernel>>

Loads == copy' = [copy EXCEPT ![current] = task_count]

-----------------------------------------------------------------------------
(* task_create *)

\* task_search_empty: the first slot that is not in use
Search ==
  /\ Steps("program", "found")
  /\ current \in Creators
  /\ task_count # TASK_LIMIT
  /\ \E i \in DOMAIN Slots :
       /\ Slots[i] \notin inuse /\ \A j \in 1 .. i - 1 : Slots[j] \in inuse
       /\ slot' = [slot EXCEPT ![current] = Slots[i]]
  /\ UNCHANGED <<ptr, loose, inuse, task_count, copy>>

\* The stack, pid and priority, inuse = 1 and list_init
TakeSlot ==
  /\ ~kernel /\ step[current] = "found"
  /\ step' = [step EXCEPT ![slot[current]] = "program", ![current] = "taken"]
  /\ inuse' = inuse \union {slot[current]}
  /\ loose' = loose \ {slot[current]}
  /\ ptr' = list_init(ptr, slot[current])
  /\ UNCHANGED <<walk, current, kernel, task_count, slot, copy>>

\* list_push: the new node is unlinked, and the last node and its own next are set
PushNode ==
  /\ Steps("taken", "pushing")
  /\ LET n  == slot[current]
         m1 == SetNext(ptr, ptr.prev[n], ptr.next[n])
         m2 == SetPrev(m1, m1.next[n], m1.prev[n])
     IN ptr' = SetNext(SetNext(m2, m2.prev[ready], n), n, ready)
  /\ UNCHANGED <<loose, inuse, task_count, slot, copy>>

\* ... the new node's prev and the head's
EndPush ==
  /\ Steps("pushing", "pushed")
  /\ LET n == slot[current]
     IN ptr' = SetPrev(SetPrev(ptr, n, ptr.prev[ready]), ready, n)
  /\ UNCHANGED <<loose, inuse, task_count, slot, copy>>

\* task_count++: the load and the store
Count ==
  /\ Steps("pushed", "counting") /\ Loads
  /\ UNCHANGED <<ptr, loose, inuse, task_count, slot>>

Counted ==
  /\ Steps("counting", "program")
  /\ task_count' = copy[current] + 1
  /\ UNCHANGED <<ptr, loose, inuse, slot, copy>>

-----------------------------------------------------------------------------
(* task_kill, of itself (task_exit) or of another thread (pthread_cancel) *)

\* The test of inuse, and the first assignment of list_remove
BeginKill(n) ==
  /\ Steps("program", "half")
  /\ n \in inuse \ {Spinner}
  /\ n = current \/ current \in Cancellers
  /\ slot' = [slot EXCEPT ![current] = n]
  /\ ptr' = SetPrev(ptr, ptr.next[n], ptr.prev[n])
  /\ UNCHANGED <<loose, inuse, task_count, copy>>

\* The second assignment
EndRemove ==
  /\ Steps("half", "removed")
  /\ LET n == slot[current]
     IN /\ ptr' = SetNext(ptr, ptr.prev[n], ptr.next[n])
        /\ loose' = loose \union {n}
  /\ UNCHANGED <<inuse, task_count, slot, copy>>

\* inuse = 0
DropSlot ==
  /\ Steps("removed", "dropped")
  /\ inuse' = inuse \ {slot[current]}
  /\ UNCHANGED <<ptr, loose, task_count, slot, copy>>

\* --task_count: the load and the store
Uncount ==
  /\ Steps("dropped", "uncounting") /\ Loads
  /\ UNCHANGED <<ptr, loose, inuse, task_count, slot>>

\* A thread that has killed itself then spins until it is switched out.
Uncounted ==
  /\ Steps("uncounting", IF slot[current] = current THEN "spin" ELSE "program")
  /\ task_count' = copy[current] - 1
  /\ UNCHANGED <<ptr, loose, inuse, slot, copy>>

KillNext ==
  \/ Block \/ Interrupt \/ Switch
  \/ \E n \in Items : Release(n) \/ BeginKill(n)
  \/ Search \/ TakeSlot \/ PushNode \/ EndPush \/ Count \/ Counted
  \/ EndRemove \/ DropSlot \/ Uncount \/ Uncounted

KillSpec == KillInit /\ [][KillNext]_killVars

-----------------------------------------------------------------------------
(* What a reader of task.c would expect; none of it holds *)

Reachable(n) == \E l \in Heads : n \in S!ToSet(Chain(l))
Inside(t) == step[t] \notin {"program", "spin"}

\* What "Never context switch here" in task_kill is there for: while threads
\* run, every thread in use that nobody is creating or killing can be reached
\* from the head of a list.
TasksReachable ==
  ~kernel =>
    \A n \in inuse : Reachable(n) \/ \E t \in Items : Inside(t) /\ slot[t] = n

\* While no thread is in task_create or task_kill, task_count is not less than the
\* number of slots in use: setpriority takes pids below task_count for valid, and
\* a store of task_count must not undo one made since its load.
CountsAll == (\A t \in Items : ~Inside(t)) => task_count >= Cardinality(inuse)

\* A thread that has begun task_exit runs until it has ended it, its slot given
\* back and its joiners woken.
ExitsFinish ==
  \A t \in Items : Inside(t) /\ slot[t] = t => t = current \/ Reachable(t)

\* No two threads create a thread in one slot.
SlotsDistinct ==
  \A t, u \in Items :
    {step[t], step[u]} \subseteq {"taken", "pushing", "pushed"} /\ slot[t] = slot[u]
      => t = u
=============================================================================
