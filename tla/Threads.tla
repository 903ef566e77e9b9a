------------------------------- MODULE Threads -------------------------------
(***************************************************************************)
(* pthread_create, pthread_join, pthread_detach, pthread_cancel and        *)
(* pthread_exit (src/pthread.c) over the allocator of Malloc.              *)
(*                                                                         *)
(* The record of a thread is malloc(sizeof(pthread_t)), the size of a      *)
(* pointer: a header and one unit.  struct pthread_struct has two: tcb and *)
(* attr are in the block, released and value_ptr are the two words of the  *)
(* unit behind it, which is the header of the block that follows.          *)
(*                                                                         *)
(* main makes the calls, the other threads exit.  pthread_join looks at    *)
(* the thread and then blocks, in two steps; what else happens in the      *)
(* kernel is in Kernel.                                                    *)
(***************************************************************************)
EXTENDS Malloc

CONSTANTS
  Handles,   \* the variables of type pthread_t
  Pids       \* the slots of tasks[] that threads may get

RECORD == 4          \* sizeof(pthread_t)
RELEASED == -2       \* the value 1, which is no address
ESRCH == 75
OK == 0
NoThread == -1

VARIABLES
  thread,    \* the record each handle points to, or NULL
  inuse,     \* tasks[].inuse
  pending,   \* the TASK_EVENTs marked
  joining,   \* where main is in pthread_join: "no", "tested" or "blocked"
  of,        \* the handle it joins
  last       \* what the last join returned, and the slot it was about

threadVars == <<heap, used, thread, inuse, pending, joining, of, last>>

NoReturn == [error |-> OK, pid |-> NoThread]

ThreadsInit ==
  /\ HeapInit
  /\ thread = [t \in Handles |-> NULL]
  /\ inuse = [p \in Pids |-> FALSE] /\ pending = {}
  /\ joining = "no" /\ of \in Handles
  /\ last = NoReturn
-----------------------------------------------------------------------------
(* The record at unit r: tcb is a slot, attr a word that nobody sets. *)

tcb(r) == heap.ptr[r]
attr(r) == heap.size[r]
released(r) == heap.ptr[r + 1]

\* The free list can still be followed; what free and malloc do when it cannot is
\* beyond this model.
Intact(h) ==
  LET w[i \in 0 .. HEAP + 1] ==
        IF i = 0 THEN h.freep
        ELSE IF w[i - 1] \in Addresses THEN h.ptr[w[i - 1]] ELSE NULL
  IN h.freep = NULL \/ \A i \in 0 .. HEAP + 1 : w[i] \in Addresses

task_kill(p) ==
  /\ inuse' = [inuse EXCEPT ![p] = FALSE]
  /\ pending' = IF inuse[p] THEN pending \union {p} ELSE pending

\* __release_pthread: released is set, the slot given back, the record freed.
Release(t) ==
  LET r == thread[t]
  IN /\ heap' = FreeBlock([heap EXCEPT !.ptr[r + 1] = RELEASED], r - 1)
     /\ used' = {b \in used : b.header # r - 1}
     /\ thread' = [thread EXCEPT ![t] = NULL]

\* main calls nothing else while it is in pthread_join.
Calls(t) == joining = "no" /\ Intact(heap)

\* task_create, then malloc; a NULL from malloc, which is written through, is
\* beyond this model.
pthread_create(t) ==
  /\ Calls(t) /\ thread[t] = NULL
  /\ \E p \in Pids :
       /\ ~inuse[p]
       /\ LET result == Malloced(Anchored(heap), nunits(RECORD))
              r == result.header + 1
          IN /\ result.header # NULL
             /\ thread' = [thread EXCEPT ![t] = r]
             /\ used' = used \union {[header |-> result.header, units |-> nunits(RECORD)]}
             /\ heap' = [result.heap EXCEPT !.ptr[r] = p, !.ptr[r + 1] = NULL]
       /\ inuse' = [inuse EXCEPT ![p] = TRUE]
  /\ last' = NoReturn
  /\ UNCHANGED <<pending, joining, of>>

\* pthread_exit(NULL)
Exit(p) ==
  /\ inuse[p]
  /\ task_kill(p)
  /\ UNCHANGED <<heap, used, thread, joining, of, last>>

pthread_cancel(t) ==
  /\ Calls(t) /\ thread[t] # NULL
  /\ task_kill(tcb(thread[t]))
  /\ last' = NoReturn
  /\ UNCHANGED <<heap, used, thread, joining, of>>

pthread_detach(t) ==
  /\ Calls(t) /\ thread[t] # NULL /\ attr(thread[t]) = 0
  /\ task_kill(tcb(thread[t]))
  /\ Release(t)
  /\ last' = NoReturn
  /\ UNCHANGED <<joining, of>>

\* pthread_join up to task_block
JoinTests(t) ==
  /\ Calls(t) /\ thread[t] # NULL /\ attr(thread[t]) = 0
  /\ LET r == thread[t]
     IN \/ /\ released(r) # NULL   \* is_thread_not_alive
           /\ last' = [error |-> ESRCH, pid |-> tcb(r)]
           /\ UNCHANGED <<heap, used, thread, joining, of>>
        \/ /\ released(r) = NULL /\ ~inuse[tcb(r)]
           /\ Release(t)
           /\ last' = [error |-> OK, pid |-> tcb(r)]
           /\ UNCHANGED <<joining, of>>
        \/ /\ released(r) = NULL /\ inuse[tcb(r)]
           /\ joining' = "tested" /\ of' = t
           /\ last' = NoReturn
           /\ UNCHANGED <<heap, used, thread>>
  /\ UNCHANGED <<inuse, pending>>

JoinBlocks ==
  /\ joining = "tested"
  /\ joining' = "blocked"
  /\ UNCHANGED <<heap, used, thread, inuse, pending, of, last>>

\* The kernel serves the death of p: task_release looks at the last slot, which is
\* free here, so whoever waits for p returns from task_block.
Serve(p) ==
  /\ p \in pending
  /\ pending' = pending \ {p}
  /\ IF joining = "blocked" /\ tcb(thread[of]) = p /\ Intact(heap)
     THEN /\ Release(of)
          /\ inuse' = [inuse EXCEPT ![p] = FALSE]
          /\ joining' = "no"
          /\ last' = [error |-> OK, pid |-> p]
     ELSE UNCHANGED <<heap, used, thread, inuse, joining, last>>
  /\ UNCHANGED of

ThreadsNext ==
  \/ \E t \in Handles :
       pthread_create(t) \/ pthread_cancel(t) \/ pthread_detach(t) \/ JoinTests(t)
  \/ JoinBlocks
  \/ \E p \in Pids : Exit(p) \/ Serve(p)

ThreadsSpec == ThreadsInit /\ [][ThreadsNext]_threadVars
-----------------------------------------------------------------------------
\* pthread_join returns, or says "no such process", only for a thread that is over.
JoinWaits == last.pid # NoThread => ~inuse[last.pid]
=============================================================================
