---------------------------- MODULE KernelProofs ----------------------------
(***************************************************************************)
(* Kernel's safety for every number of tasks, FIFOs, interrupt lines and   *)
(* priorities, every pipe size and every program: IInv is inductive, and   *)
(* the invariants the runs check follow from it.                           *)
(***************************************************************************)
EXTENDS Kernel, ListProofs, FiniteSetTheorems

-----------------------------------------------------------------------------
(* Event numbers and list heads *)

LEMMA Numbers ==
  /\ TIME_EVENT \in Nat \ {0} /\ TIME_EVENT \in Events
  /\ \A fd \in Fds : /\ ReadEvent(fd) \in Events /\ WriteEvent(fd) \in Events
                     /\ ReadEvent(fd) < 2 * FIFOS /\ WriteEvent(fd) < 2 * FIFOS
                     /\ ReadEvent(fd) < TIME_EVENT /\ WriteEvent(fd) < TIME_EVENT
                     /\ WriteEvent(fd) # 0
  /\ \A fd, g \in Fds : /\ ReadEvent(fd) = ReadEvent(g) => fd = g
                        /\ WriteEvent(fd) = WriteEvent(g) => fd = g
                        /\ ReadEvent(fd) # WriteEvent(g)
  /\ \A i \in Irqs : /\ INTR_EVENT(i) \in Events \ {0}
                     /\ 2 * FIFOS <= INTR_EVENT(i) /\ INTR_EVENT(i) < TIME_EVENT
  /\ \A i, j \in Irqs : INTR_EVENT(i) = INTR_EVENT(j) => i = j
  /\ \A pid \in Pids \ {0} : TASK_EVENT(pid) \in Events /\ TIME_EVENT < TASK_EVENT(pid)
  /\ \A pid \in Pids : TASK_EVENT(pid) \in Events
BY LimitsAssumption
   DEF TIME_EVENT, Events, ReadEvent, WriteEvent, INTR_EVENT, TASK_EVENT, Fds, Irqs, Pids

LEMMA Heads ==
  /\ \A e \in Events : EventList(e) \in ListIds
  /\ \A p \in 0 .. PRIORITY_LIMIT : ReadyList(p) \in ListIds
  /\ \A e, f \in Events : EventList(e) = EventList(f) => e = f
  /\ \A e \in Events, p \in 0 .. PRIORITY_LIMIT : EventList(e) # ReadyList(p)
BY LimitsAssumption, Numbers DEF Events, EventList, ReadyList, ListIds

LEMMA ConditionNumbers ==
  /\ ConditionEvents \subseteq Events
  /\ \A e \in ConditionEvents : e <= TIME_EVENT
  /\ \A i \in Irqs : INTR_EVENT(i) \notin ConditionEvents
  /\ \A pid \in Pids \ {0} : TASK_EVENT(pid) \notin ConditionEvents
BY LimitsAssumption, Numbers DEF ConditionEvents, Events, Pids

\* What the handlers answer
LEMMA Handlers ==
  \A t \in Pids :
    /\ \A fd \in Fds : /\ Releases(ReadEvent(fd), t) <=> fifo_readable(fd, arg[t])
                       /\ Releases(WriteEvent(fd), t) <=> fifo_writable(fd, arg[t])
    /\ \A i \in Irqs : Releases(INTR_EVENT(i), t)
    /\ Releases(TIME_EVENT, t) <=> arg[t] = tick
BY Numbers, LimitsAssumption DEF Releases, time_release, Events

LEMMA HandlersNext ==
  \A t \in Pids :
    /\ \A fd \in Fds : /\ Releases(ReadEvent(fd), t)' <=> fifo_readable(fd, arg[t])'
                       /\ Releases(WriteEvent(fd), t)' <=> fifo_writable(fd, arg[t])'
    /\ \A i \in Irqs : Releases(INTR_EVENT(i), t)'
    /\ Releases(TIME_EVENT, t)' <=> (arg[t] = tick)'
BY Numbers, LimitsAssumption DEF Releases, time_release, Events

-----------------------------------------------------------------------------
(* Initially *)

LEMMA InitIInv == Init => IInv
<1> SUFFICES ASSUME Init
             PROVE  IInv
  OBVIOUS
<1>1. /\ Boot \in [0 .. PRIORITY_LIMIT -> Seq(Pids)] /\ OnePlace(Boot)
      /\ Linked(Boot, 0)
  BY ProgramAssumption
<1>2. q \in [ListIds -> Seq(Pids)]
  <2>1. <<>> \in Seq(Pids)
    BY EmptySeq
  <2>2. \A l \in ListIds : l <= PRIORITY_LIMIT => l \in 0 .. PRIORITY_LIMIT
    BY LimitsAssumption, Numbers DEF ListIds
  <2>3. \A l \in ListIds : (IF l <= PRIORITY_LIMIT THEN Boot[l] ELSE <<>>) \in Seq(Pids)
    BY <2>1, <2>2, <1>1
  <2> QED
    BY <2>3 DEF Init
<1>3. /\ \A p \in 0 .. PRIORITY_LIMIT : q[p] = Boot[p] /\ p \in ListIds
      /\ \A l \in ListIds \ (0 .. PRIORITY_LIMIT) : q[l] = <<>>
  BY LimitsAssumption, Heads DEF Init, ListIds, ReadyList
<1>4. \A t : Linked(q, t) <=> Linked(Boot, t)
  <2>1. \A l \in ListIds \ (0 .. PRIORITY_LIMIT) : \A t : ~OnList(q, l, t)
    BY <1>3 DEF OnList, Range
  <2>2. \A p \in 0 .. PRIORITY_LIMIT : \A t : OnList(q, p, t) <=> OnList(Boot, p, t)
    BY <1>3 DEF OnList
  <2> QED
    BY <2>1, <2>2, <1>1, <1>2, <1>3 DEF Linked
<1>5. OnePlace(q)
  <2> SUFFICES ASSUME NEW l \in ListIds, NEW k \in ListIds, NEW i \in DOMAIN q[l],
                      NEW j \in DOMAIN q[k], q[l][i] = q[k][j]
               PROVE  l = k /\ i = j
    BY <1>2 DEF OnePlace
  <2>1. l \in 0 .. PRIORITY_LIMIT /\ k \in 0 .. PRIORITY_LIMIT
    BY <1>3
  <2> QED
    BY <2>1, <1>1, <1>3 DEF OnePlace
<1>6. TypeOK
  <2>1. 0 \in Pids
    BY LimitsAssumption DEF Pids
  <2>2. Cardinality({t \in Pids : Linked(Boot, t)}) \in Int
    <3>1. IsFiniteSet(Pids)
      BY FS_Interval, LimitsAssumption DEF Pids
    <3>2. IsFiniteSet({t \in Pids : Linked(Boot, t)})
      BY <3>1, FS_Subset
    <3> QED
      BY <3>2, FS_CardinalityType
  <2> QED
    <3>1. len \in [Fds -> 0 .. PIPE_BUF - 1] /\ tick \in 0 .. TICKS - 1
      BY LimitsAssumption DEF Init, Fds
    <3>2. inuse \in [Pids -> BOOLEAN]
      BY DEF Init, Linked
    <3>3. /\ status \in [Pids -> Statuses] /\ priority \in [Pids -> 0 .. PRIORITY_LIMIT]
          /\ taskCount \in Int /\ arg \in [Pids -> Nat]
      BY <2>2 DEF Init, Statuses
    <3>4. /\ pending \in [Events -> BOOLEAN] /\ enabled \subseteq Irqs
          /\ current \in Pids /\ timeup \in BOOLEAN
      BY <2>1 DEF Init
    <3>5. /\ phase \in {"thread", "serve", "select"} /\ scan \in {0, 1}
          /\ serving \in Events \union {None} /\ at \in Nat \ {0}
      BY DEF Init
    <3> QED
      BY <1>2, <3>1, <3>2, <3>3, <3>4, <3>5 DEF TypeOK
<1>7. OnOneList
  BY <1>4, <1>5 DEF OnOneList, Init
<1>8. \A e \in Events : \A t : ~OnList(q, EventList(e), t)
  <2>1. \A e \in Events : q[EventList(e)] = <<>>
    BY Heads, <1>3, LimitsAssumption DEF EventList, Events
  <2> QED
    BY <2>1 DEF OnList, Range
<1>9. CurrentReady
  <2>1. PICK p \in 0 .. PRIORITY_LIMIT : OnList(Boot, p, 0)
    BY <1>1 DEF Linked
  <2>2. OnList(q, ReadyList(p), 0)
    BY <2>1, <1>3 DEF OnList, ReadyList
  <2> QED
    BY <2>2 DEF CurrentReady, OnReadyList, Init
<1>10. ServingOK /\ VisitedKept /\ Quiet
  <2>1. \A e \in 1 .. TIME_EVENT : e \in Events
    BY Numbers, LimitsAssumption DEF Events
  <2> QED
    BY <2>1 DEF ServingOK, VisitedKept, Quiet, Init
<1>11. WaitersNotReady /\ NoLostWakeup /\ IrqArmedOrPending
  BY <1>8, Numbers, ConditionNumbers
     DEF WaitersNotReady, NoLostWakeup, IrqArmedOrPending, OnEventList
<1> QED
  BY <1>6, <1>7, <1>9, <1>10, <1>11 DEF IInv

-----------------------------------------------------------------------------
(* Steps: which task moves *)

LEMMA FirstOnList ==
  ASSUME TypeOK, NEW l \in ListIds, q[l] # <<>>
  PROVE  Head(q[l]) \in Pids /\ OnList(q, l, Head(q[l]))
<1>1. q[l] \in Seq(Pids) /\ Len(q[l]) \in Nat /\ DOMAIN q[l] = 1 .. Len(q[l])
  BY LenProperties DEF TypeOK
<1>2. Len(q[l]) # 0
  BY <1>1, EmptySeq
<1>3. 1 \in DOMAIN q[l] /\ Head(q[l]) = q[l][1]
  BY <1>1, <1>2
<1>4. q[l][1] \in Pids
  BY <1>1, <1>3, ElementOfSeq
<1> QED
  BY <1>3, <1>4 DEF OnList, Range

LEMMA OnListInuse ==
  ASSUME TypeOK, OnOneList, NEW l \in ListIds, NEW t \in Pids, OnList(q, l, t)
  PROVE  inuse[t]
<1>1. DOMAIN q = ListIds
  BY DEF TypeOK
<1> QED
  BY <1>1 DEF OnOneList, Linked

LEMMA OneListOnly ==
  ASSUME TypeOK, OnOneList, NEW l \in ListIds, NEW k \in ListIds, NEW t,
         OnList(q, l, t), OnList(q, k, t)
  PROVE  l = k
<1>1. PICK i \in DOMAIN q[l] : q[l][i] = t
  BY DEF OnList, Range
<1>2. PICK j \in DOMAIN q[k] : q[k][j] = t
  BY DEF OnList, Range
<1>3. DOMAIN q = ListIds
  BY DEF TypeOK
<1> QED
  BY <1>1, <1>2, <1>3 DEF OnOneList, OnePlace

LEMMA VisitFacts ==
  ASSUME TypeOK, OnOneList, Visit
  PROVE  /\ serving \in Events
         /\ at \in DOMAIN Waiters /\ Waiters \in Seq(Pids)
         /\ Waiter \in Pids /\ OnList(q, EventList(serving), Waiter)
         /\ inuse[Waiter]
<1>1. serving \in Events
  BY DEF TypeOK, Visit
<1>2. EventList(serving) \in ListIds
  BY <1>1, Heads
<1>3. Waiters \in Seq(Pids)
  BY <1>2 DEF TypeOK, Waiters
<1>4. at \in DOMAIN Waiters
  BY <1>3, LenProperties DEF Visit, TypeOK
<1>5. Waiter \in Pids
  BY <1>3, <1>4, LenProperties, ElementOfSeq DEF Waiter
<1>6. OnList(q, EventList(serving), Waiter)
  BY <1>4 DEF OnList, Range, Waiter, Waiters
<1>7. inuse[Waiter]
  BY <1>2, <1>5, <1>6, OnListInuse
<1> QED
  BY <1>1, <1>3, <1>4, <1>5, <1>6, <1>7

\* A move of task n onto list l
Moves(n, l) == q' = list_push(q, l, n) \/ q' = list_unshift(q, l, n)

LEMMA Clamped == \A v \in Int : Clamp(v) \in 0 .. PRIORITY_LIMIT
BY LimitsAssumption DEF Clamp

LEMMA BlockShape ==
  ASSUME TypeOK, NEW e \in Events, NEW a, event_monitor_block(e, a)
  PROVE  q' = q \/ \E l \in ListIds : Moves(current, l)
BY Heads DEF event_monitor_block, Moves

LEMMA Shape ==
  ASSUME TypeOK, OnOneList, [Next]_vars
  PROVE  \/ q' = q /\ inuse' = inuse
         \/ \E n \in Pids, l \in ListIds : inuse[n] /\ inuse' = inuse /\ Moves(n, l)
         \/ \E n \in Pids, l \in ListIds :
              /\ ~inuse[n] /\ inuse' = [inuse EXCEPT ![n] = TRUE]
              /\ q' = list_push(q, l, n)
         \/ \E n \in Pids :
              /\ inuse[n] /\ inuse' = [inuse EXCEPT ![n] = FALSE]
              /\ q' = list_remove(q, n)
<1> DEFINE Still == q' = q /\ inuse' = inuse
           Moved == \E n \in Pids, l \in ListIds : inuse[n] /\ inuse' = inuse /\ Moves(n, l)
           Born == \E n \in Pids, l \in ListIds :
                     /\ ~inuse[n] /\ inuse' = [inuse EXCEPT ![n] = TRUE]
                     /\ q' = list_push(q, l, n)
           Dead == \E n \in Pids :
                     /\ inuse[n] /\ inuse' = [inuse EXCEPT ![n] = FALSE]
                     /\ q' = list_remove(q, n)
<1>0. current \in Pids /\ priority \in [Pids -> 0 .. PRIORITY_LIMIT]
  BY DEF TypeOK
<1>1. ASSUME NEW e \in Events, NEW a, Call, event_monitor_block(e, a)
      PROVE  Still \/ Moved
  BY <1>0, <1>1, BlockShape DEF Call
<1>2. CASE Syscall
  <2>1. ASSUME NEW fd \in Fds, NEW size \in Sizes, Read(fd, size) \/ Write(fd, size)
        PROVE  Still \/ Moved
    <3>1. Call
      BY <2>1 DEF Read, Write
    <3>2. CASE q' = q
      BY <3>1, <3>2 DEF Call
    <3>3. CASE q' # q
      <4>1. \/ event_monitor_block(ReadEvent(fd), size)
            \/ event_monitor_block(WriteEvent(fd), size)
        BY <2>1, <3>3 DEF Read, Write, AcceptFile, BlockFile
      <4> QED
        BY <4>1, <3>1, <1>1, Numbers
    <3> QED
      BY <3>2, <3>3
  <2>2. CASE FileError \/ OtherCall
    BY <2>2 DEF FileError, OtherCall, Call
  <2>3. ASSUME NEW i \in Irqs, InterruptWait(i)
        PROVE  Still \/ Moved
    BY <2>3, <1>1, Numbers DEF InterruptWait
  <2>4. ASSUME NEW ticks \in SleepTimes, Sleep(ticks)
        PROVE  Still \/ Moved
    BY <2>4, <1>1, Numbers DEF Sleep
  <2>5. ASSUME NEW pid \in Mortal, TaskBlock(pid)
        PROVE  Still \/ Moved
    BY <2>5, <1>1, Numbers, ProgramAssumption DEF TaskBlock
  <2>6. ASSUME NEW value \in Priorities, SetOwnPriority(value)
        PROVE  Still \/ Moved
    <3>1. ReadyList(Clamp(value)) \in ListIds
      BY Clamped, Heads, ProgramAssumption
    <3> QED
      BY <2>6, <3>1, <1>0 DEF SetOwnPriority, Call, Moves
  <2>7. ASSUME NEW value \in Priorities, NEW who \in Pids, SetPriority(who, value)
        PROVE  Still \/ Moved
    <3>1. ReadyList(Clamp(value)) \in ListIds
      BY Clamped, Heads, ProgramAssumption
    <3> QED
      BY <2>7, <3>1 DEF SetPriority, Call, Moves
  <2> QED
    BY <1>2, <2>1, <2>2, <2>3, <2>4, <2>5, <2>6, <2>7 DEF Syscall
<1>3. CASE Lifecycle
  <2>1. ASSUME NEW p \in SpawnPriorities, Create(p)
        PROVE  Born
    <3>1. ReadyList(p) \in ListIds
      BY Heads, ProgramAssumption
    <3> QED
      BY <2>1, <3>1, ProgramAssumption DEF Create
  <2>2. CASE Exit
    BY <2>2, <1>0 DEF Exit, task_kill
  <2>3. ASSUME NEW pid \in Mortal, Cancel(pid)
        PROVE  Dead
    BY <2>3, ProgramAssumption DEF Cancel, task_kill
  <2> QED
    BY <1>3, <2>1, <2>2, <2>3 DEF Lifecycle
<1>4. CASE Tick \/ \E i \in Irqs : Irq(i)
  BY <1>4 DEF Tick, Irq, EnterPendSV
<1>5. CASE Serve
  <2>1. ASSUME NEW t \in Pids, inuse[t], Wake(t)
        PROVE  Moved
    <3>1. ReadyList(priority[t]) \in ListIds
      BY <1>0, Heads
    <3> QED
      BY <2>1, <3>1 DEF Wake, Served, Moves
  <2>2. CASE (\E fd \in Fds : WakeReader(fd) \/ WakeWriter(fd)) \/ WakeOther
    BY <2>2, <2>1, VisitFacts DEF WakeReader, WakeWriter, WakeOther
  <2>3. CASE (\E e \in Events : ServeEvent(e)) \/ ServeDone \/ KeepWaiter \/ EndEvent
    BY <2>3 DEF ServeEvent, ServeDone, KeepWaiter, EndEvent, Served
  <2> QED
    BY <1>5, <2>2, <2>3 DEF Serve
<1>6. CASE Switch
  <2>1. PICK p \in 0 .. PRIORITY_LIMIT : Select(p)
    BY <1>6 DEF Switch
  <2>2. inuse' = inuse
    BY <2>1 DEF Select, tcbs
  <2>3. CASE SliceOver
    <3>1. ReadyList(priority[current]) \in ListIds
      BY <1>0, Heads
    <3>2. inuse[current]
      BY <2>3, <3>1, <1>0, FirstOnList, OnListInuse DEF SliceOver, IsFirst, list_empty
    <3>3. q' = list_push(q, ReadyList(priority[current]), current)
      BY <2>1, <2>3 DEF Select, Rotated
    <3> QED
      BY <3>1, <3>2, <3>3, <2>2, <1>0 DEF Moves
  <2>4. CASE ~SliceOver
    BY <2>1, <2>2, <2>4 DEF Select, Rotated
  <2> QED
    BY <2>3, <2>4
<1>7. CASE UNCHANGED vars
  BY <1>7 DEF vars
<1> QED
  BY <1>2, <1>3, <1>4, <1>5, <1>6, <1>7 DEF Next

\* Where tasks are after a move
LEMMA Moved ==
  ASSUME TypeOK, OnOneList, NEW n \in Pids, NEW l \in ListIds, Moves(n, l)
  PROVE  /\ q' \in [ListIds -> Seq(Pids)] /\ OnePlace(q')
         /\ \A k \in ListIds : \A m :
              OnList(q', k, m) <=> IF m = n THEN k = l ELSE OnList(q, k, m)
<1>1. q \in [ListIds -> Seq(Pids)] /\ OnePlace(q)
  BY DEF TypeOK, OnOneList
<1>2. CASE q' = list_push(q, l, n)
  BY <1>1, <1>2, ListPush
<1>3. CASE q' = list_unshift(q, l, n)
  BY <1>1, <1>3, ListUnshift
<1> QED
  BY <1>2, <1>3 DEF Moves

\* A push leaves the places before the one its node had where they were.
LEMMA PushFront ==
  ASSUME TypeOK, OnOneList, NEW n \in Pids, NEW l \in ListIds, q' = list_push(q, l, n),
         NEW k \in ListIds \ {l}, NEW i \in DOMAIN q[k], q[k][i] = n
  PROVE  \A j \in 1 .. i - 1 : q'[k][j] = q[k][j]
<1>1. q \in [ListIds -> Seq(Pids)] /\ OnePlace(q)
  BY DEF TypeOK, OnOneList
<1>2. LET r == list_push(q, l, n)
      IN \A x \in ListIds \ {l} : \A y \in DOMAIN q[x] :
           q[x][y] = n => \A j \in 1 .. y - 1 : r[x][j] = q[x][j]
  BY <1>1, ListPushFront
<1> QED
  BY <1>2

LEMMA OnOneListStep ==
  ASSUME TypeOK, OnOneList, [Next]_vars
  PROVE  q' \in [ListIds -> Seq(Pids)] /\ OnOneList'
<1>0. /\ q \in [ListIds -> Seq(Pids)] /\ OnePlace(q) /\ inuse \in [Pids -> BOOLEAN]
      /\ \A t \in Pids : inuse[t] <=> \E l \in ListIds : OnList(q, l, t)
  BY DEF TypeOK, OnOneList, Linked
<1> SUFFICES /\ q' \in [ListIds -> Seq(Pids)] /\ OnePlace(q')
             /\ \A t \in Pids : inuse'[t] <=> \E l \in ListIds : OnList(q', l, t)
  BY DEF OnOneList, Linked
<1>1. CASE q' = q /\ inuse' = inuse
  BY <1>0, <1>1
<1>2. ASSUME NEW n \in Pids, NEW l \in ListIds, Moves(n, l),
             inuse'[n] = TRUE, \A t \in Pids \ {n} : inuse'[t] = inuse[t]
      PROVE  /\ q' \in [ListIds -> Seq(Pids)] /\ OnePlace(q')
             /\ \A t \in Pids : inuse'[t] <=> \E k \in ListIds : OnList(q', k, t)
  BY <1>0, <1>2, Moved
<1>3. ASSUME NEW n \in Pids, NEW l \in ListIds, inuse[n], inuse' = inuse, Moves(n, l)
      PROVE  /\ q' \in [ListIds -> Seq(Pids)] /\ OnePlace(q')
             /\ \A t \in Pids : inuse'[t] <=> \E k \in ListIds : OnList(q', k, t)
  BY <1>0, <1>2, <1>3
<1>4. ASSUME NEW n \in Pids, NEW l \in ListIds, inuse' = [inuse EXCEPT ![n] = TRUE],
             q' = list_push(q, l, n)
      PROVE  /\ q' \in [ListIds -> Seq(Pids)] /\ OnePlace(q')
             /\ \A t \in Pids : inuse'[t] <=> \E k \in ListIds : OnList(q', k, t)
  BY <1>0, <1>2, <1>4 DEF Moves
<1>5. ASSUME NEW n \in Pids, inuse' = [inuse EXCEPT ![n] = FALSE], q' = list_remove(q, n)
      PROVE  /\ q' \in [ListIds -> Seq(Pids)] /\ OnePlace(q')
             /\ \A t \in Pids : inuse'[t] <=> \E k \in ListIds : OnList(q', k, t)
  <2>1. /\ q' \in [ListIds -> Seq(Pids)] /\ OnePlace(q')
        /\ \A k \in ListIds : \A m : OnList(q', k, m) <=> m # n /\ OnList(q, k, m)
    BY <1>0, <1>5, ListRemove
  <2> QED
    BY <2>1, <1>0, <1>5
<1> QED
  BY <1>1, <1>3, <1>4, <1>5, Shape

-----------------------------------------------------------------------------
(* Steps: types *)

LEMMA BlockTypes ==
  ASSUME TypeOK, NEW e, NEW a \in Nat, event_monitor_block(e, a)
  PROVE  arg' \in [Pids -> Nat]
BY DEF event_monitor_block, TypeOK

LEMMA TypeStep ==
  ASSUME TypeOK, OnOneList, [Next]_vars
  PROVE  TypeOK'
<1> USE DEF TypeOK
<1>q. q' \in [ListIds -> Seq(Pids)]
  BY OnOneListStep
<1>0. 0 \in Pids /\ TIME_EVENT \in Events /\ Mortal \subseteq Pids
  BY LimitsAssumption, ProgramAssumption, Numbers DEF Pids
<1>tick. ASSUME NEW n \in 0 .. TICKS - 1
         PROVE  TickAfter(n) \in 0 .. TICKS - 1
  BY LimitsAssumption DEF TickAfter
<1>tick1. TickAfter(1) \in 0 .. TICKS - 1
  BY LimitsAssumption DEF TickAfter
<1>release. ASSUME NEW e \in Events, event_monitor_release(e)
            PROVE  pending' \in [Events -> BOOLEAN]
  BY <1>release DEF event_monitor_release
<1>call. ASSUME Call
         PROVE  /\ inuse' \in [Pids -> BOOLEAN] /\ taskCount' \in Int
                /\ current' \in Pids /\ timeup' \in BOOLEAN /\ tick' \in 0 .. TICKS - 1
                /\ phase' \in {"thread", "serve", "select"} /\ scan' \in {0, 1}
                /\ serving' \in Events \union {None} /\ at' \in Nat \ {0}
  BY <1>call DEF Call
<1>1. CASE Syscall
  <2>1. ASSUME NEW fd \in Fds, NEW size \in Sizes, Read(fd, size)
        PROVE  TypeOK'
    <3>1. size \in Nat /\ ReadEvent(fd) \in Events /\ WriteEvent(fd) \in Events
      BY ProgramAssumption, Numbers
    <3>2. CASE fifo_readable(fd, size) /\ AcceptFile(fd, len[fd] - size, WriteEvent(fd))
      <4>1. len' \in [Fds -> 0 .. PIPE_BUF - 1]
        BY <3>1, <3>2, LimitsAssumption DEF AcceptFile, fifo_readable
      <4>2. /\ status' \in [Pids -> Statuses] /\ arg' \in [Pids -> Nat]
            /\ pending' \in [Events -> BOOLEAN]
        BY <3>1, <3>2, <1>release DEF AcceptFile, SetStatus, Statuses
      <4> QED
        BY <2>1, <1>q, <1>call, <4>1, <4>2 DEF Read
    <3>3. CASE BlockFile(ReadEvent(fd), size, "WAIT_READ")
      BY <2>1, <3>1, <3>3, <1>q, <1>call, BlockTypes
         DEF Read, BlockFile, SetStatus, Statuses
    <3> QED
      BY <2>1, <3>2, <3>3 DEF Read
  <2>2. ASSUME NEW fd \in Fds, NEW size \in Sizes, Write(fd, size)
        PROVE  TypeOK'
    <3>1. size \in Nat /\ ReadEvent(fd) \in Events /\ WriteEvent(fd) \in Events
      BY ProgramAssumption, Numbers
    <3>2. CASE fifo_writable(fd, size) /\ AcceptFile(fd, len[fd] + size, ReadEvent(fd))
      <4>1. len' \in [Fds -> 0 .. PIPE_BUF - 1]
        BY <3>1, <3>2, LimitsAssumption DEF AcceptFile, fifo_writable
      <4>2. /\ status' \in [Pids -> Statuses] /\ arg' \in [Pids -> Nat]
            /\ pending' \in [Events -> BOOLEAN]
        BY <3>1, <3>2, <1>release DEF AcceptFile, SetStatus, Statuses
      <4> QED
        BY <2>2, <1>q, <1>call, <4>1, <4>2 DEF Write
    <3>3. CASE BlockFile(WriteEvent(fd), size, "WAIT_WRITE")
      BY <2>2, <3>1, <3>3, <1>q, <1>call, BlockTypes
         DEF Write, BlockFile, SetStatus, Statuses
    <3> QED
      BY <2>2, <3>2, <3>3 DEF Write
  <2>3. CASE FileError \/ OtherCall
    BY <2>3, <1>q, <1>call DEF FileError, OtherCall, SetStatus, Statuses
  <2>4. ASSUME NEW i \in Irqs, InterruptWait(i)
        PROVE  TypeOK'
    BY <2>4, <1>q, <1>call, BlockTypes DEF InterruptWait, SetStatus, Statuses
  <2>5. ASSUME NEW ticks \in SleepTimes, Sleep(ticks)
        PROVE  TypeOK'
    <3>1. TickAfter(ticks) \in Nat
      BY <1>tick, ProgramAssumption
    <3> QED
      BY <2>5, <3>1, <1>q, <1>call, BlockTypes DEF Sleep, SetStatus, Statuses
  <2>6. ASSUME NEW pid \in Mortal, TaskBlock(pid)
        PROVE  TypeOK'
    <3>1. pid \in Nat
      BY <1>0, LimitsAssumption DEF Pids
    <3> QED
      BY <2>6, <3>1, <1>q, <1>call, BlockTypes DEF TaskBlock, SetStatus, Statuses
  <2>7. ASSUME NEW value \in Priorities, SetOwnPriority(value)
        PROVE  TypeOK'
    BY <2>7, <1>q, <1>call, Clamped, ProgramAssumption DEF SetOwnPriority
  <2>8. ASSUME NEW value \in Priorities, NEW who \in Pids, SetPriority(who, value)
        PROVE  TypeOK'
    BY <2>8, <1>q, <1>call, Clamped, ProgramAssumption DEF SetPriority
  <2> QED
    BY <1>1, <2>1, <2>2, <2>3, <2>4, <2>5, <2>6, <2>7, <2>8 DEF Syscall
<1>2. CASE Lifecycle
  <2>1. ASSUME NEW p \in SpawnPriorities, Create(p)
        PROVE  TypeOK'
    BY <2>1, <1>q, <1>0, ProgramAssumption DEF Create, serveVars
  <2>2. ASSUME NEW pid \in Pids, task_kill(pid)
        PROVE  TypeOK'
    <3>1. pending' \in [Events -> BOOLEAN]
      BY <2>2, <1>release, Numbers DEF task_kill
    <3>2. /\ inuse' \in [Pids -> BOOLEAN] /\ taskCount' \in Int
          /\ arg' \in [Pids -> Nat]
      BY <2>2 DEF task_kill
    <3> QED
      BY <2>2, <1>q, <3>1, <3>2 DEF task_kill, serveVars
  <2> QED
    BY <1>2, <1>0, <2>1, <2>2 DEF Lifecycle, Exit, Cancel
<1>3. CASE Tick
  BY <1>3, <1>q, <1>0, <1>tick1, <1>release DEF Tick, EnterPendSV
<1>4. ASSUME NEW i \in Irqs, Irq(i)
      PROVE  TypeOK'
  BY <1>4, <1>q, <1>release, Numbers DEF Irq, EnterPendSV
<1>5. CASE Serve
  <2>1. ASSUME NEW t \in Pids, Wake(t), pending' \in [Events -> BOOLEAN],
               len' \in [Fds -> 0 .. PIPE_BUF - 1]
        PROVE  TypeOK'
    BY <2>1, <1>q DEF Wake, Served, serveVars, Statuses
  <2>2. ASSUME NEW fd \in Fds, WakeReader(fd)
        PROVE  TypeOK'
    <3>1. Waiter \in Pids
      BY <2>2, VisitFacts DEF WakeReader
    <3>2. len' \in [Fds -> 0 .. PIPE_BUF - 1]
      BY <2>2, <3>1, LimitsAssumption DEF WakeReader, fifo_readable
    <3> QED
      BY <2>2, <3>1, <3>2, <2>1, <1>release, Numbers DEF WakeReader
  <2>3. ASSUME NEW fd \in Fds, WakeWriter(fd)
        PROVE  TypeOK'
    <3>1. Waiter \in Pids
      BY <2>3, VisitFacts DEF WakeWriter
    <3>2. len' \in [Fds -> 0 .. PIPE_BUF - 1]
      BY <2>3, <3>1, LimitsAssumption DEF WakeWriter, fifo_writable
    <3> QED
      BY <2>3, <3>1, <3>2, <2>1, <1>release, Numbers DEF WakeWriter
  <2>4. CASE WakeOther
    BY <2>4, <2>1, VisitFacts DEF WakeOther
  <2>5. CASE (\E e \in Events : ServeEvent(e)) \/ ServeDone
    BY <2>5, <1>q DEF ServeEvent, ServeDone, Served, serveVars
  <2>6. CASE KeepWaiter
    BY <2>6, <1>q DEF KeepWaiter, Served
  <2>7. CASE EndEvent
    BY <2>7, <1>q DEF EndEvent, Served
  <2> QED
    BY <1>5, <2>2, <2>3, <2>4, <2>5, <2>6, <2>7 DEF Serve
<1>6. ASSUME NEW p \in 0 .. PRIORITY_LIMIT, Select(p)
      PROVE  TypeOK'
  <2>1. q'[ReadyList(p)] # <<>> /\ ReadyList(p) \in ListIds
    BY <1>6, Heads DEF Select, list_empty
  <2>2. current' \in Pids
    <3>1. current' = Head(q'[ReadyList(p)]) /\ q'[ReadyList(p)] \in Seq(Pids)
      BY <1>6, <1>q, <2>1 DEF Select
    <3> QED
      BY <3>1, <2>1, HeadTailProperties
  <2> QED
    BY <1>6, <1>q, <2>2 DEF Select, tcbs, serveVars
<1>7. CASE UNCHANGED vars
  BY <1>7 DEF vars
<1> QED
  BY <1>1, <1>2, <1>3, <1>4, <1>5, <1>6, <1>7 DEF Next, Switch

-----------------------------------------------------------------------------
(* Steps: the waiters and the events *)

\* A waiter that can be released after a step could be before it, unless the
\* step changed the waiter's request or moved its event's quantity its way.
LEMMA ReleasesStable ==
  ASSUME TypeOK, TypeOK', NEW e \in ConditionEvents, NEW t \in Pids,
         arg'[t] = arg[t], Releases(e, t)',
         \A fd \in Fds : e = ReadEvent(fd) => len'[fd] <= len[fd],
         \A fd \in Fds : e = WriteEvent(fd) => len[fd] <= len'[fd],
         e = TIME_EVENT => tick' = tick
  PROVE  Releases(e, t)
<1>1. /\ arg[t] \in Nat /\ \A fd \in Fds : len[fd] \in Int /\ len'[fd] \in Int
  BY DEF TypeOK
<1>2. ASSUME NEW fd \in Fds, e = ReadEvent(fd)
      PROVE  Releases(e, t)
  <2>1. arg'[t] <= len'[fd] /\ len'[fd] <= len[fd]
    BY <1>2, HandlersNext DEF fifo_readable
  <2>2. arg[t] <= len[fd]
    BY <1>1, <2>1
  <2> QED
    BY <1>2, <2>2, Handlers DEF fifo_readable
<1>3. ASSUME NEW fd \in Fds, e = WriteEvent(fd)
      PROVE  Releases(e, t)
  <2>1. arg'[t] <= PIPE_BUF - len'[fd] - 1 /\ len[fd] <= len'[fd]
    BY <1>3, HandlersNext DEF fifo_writable
  <2>2. arg[t] <= PIPE_BUF - len[fd] - 1
    BY <1>1, <2>1, LimitsAssumption
  <2> QED
    BY <1>3, <2>2, Handlers DEF fifo_writable
<1>4. ASSUME e = TIME_EVENT
      PROVE  Releases(e, t)
  BY <1>4, HandlersNext, Handlers
<1> QED
  BY <1>2, <1>3, <1>4 DEF ConditionEvents

\* The waiters after a step that moves n to a ready list, or links it nowhere
Dropped(n) ==
  \A e \in Events, t \in Pids :
    OnList(q', EventList(e), t) => t # n /\ OnList(q, EventList(e), t)

LEMMA ReadyDropped ==
  ASSUME TypeOK, OnOneList, NEW n \in Pids, NEW p \in 0 .. PRIORITY_LIMIT,
         Moves(n, ReadyList(p))
  PROVE  Dropped(n)
BY Moved, Heads DEF Dropped

LEMMA RemovedDropped ==
  ASSUME TypeOK, OnOneList, NEW n \in Pids, q' = list_remove(q, n)
  PROVE  Dropped(n)
<1>1. \A k \in ListIds : \A m : OnList(q', k, m) <=> m # n /\ OnList(q, k, m)
  BY ListRemove DEF TypeOK, OnOneList
<1> QED
  BY <1>1, Heads DEF Dropped

\* No new waiter, and no flag cleared
Fewer ==
  \A e \in Events, t \in Pids :
    OnList(q', EventList(e), t) => OnList(q, EventList(e), t) /\ arg'[t] = arg[t]

Raised == \A e \in Events : pending[e] => pending'[e]

LEMMA FewerQuiet ==
  ASSUME TypeOK, TypeOK', NoLostWakeup, Fewer, Raised, len' = len, tick' = tick
  PROVE  NoLostWakeup'
<1>1. ASSUME NEW e \in ConditionEvents, NEW t \in Pids,
             OnList(q', EventList(e), t), Releases(e, t)'
      PROVE  pending'[e]
  <2>1. e \in Events
    BY ConditionNumbers
  <2>2. OnList(q, EventList(e), t) /\ arg'[t] = arg[t]
    BY <1>1, <2>1 DEF Fewer
  <2>3. Releases(e, t)
    <3>1. \A fd \in Fds : len'[fd] <= len[fd] /\ len[fd] <= len'[fd]
      BY DEF TypeOK
    <3> QED
      BY <1>1, <2>2, <3>1, ReleasesStable
  <2> QED
    BY <2>1, <2>2, <2>3 DEF NoLostWakeup, Raised
<1> QED
  BY <1>1 DEF NoLostWakeup

LEMMA FewerArmed ==
  ASSUME IrqArmedOrPending, Fewer, Raised, enabled \subseteq enabled'
  PROVE  IrqArmedOrPending'
BY Numbers DEF IrqArmedOrPending, Fewer, Raised

\* A transfer: FIFO fd's level moves, and the event of the other side is up
LEMMA TransferQuiet ==
  ASSUME TypeOK, TypeOK', NoLostWakeup, Fewer, tick' = tick, NEW fd \in Fds,
         \A g \in Fds \ {fd} : len'[g] = len[g],
         \/ len'[fd] <= len[fd] /\ event_monitor_release(WriteEvent(fd))
         \/ len[fd] <= len'[fd] /\ event_monitor_release(ReadEvent(fd))
  PROVE  NoLostWakeup'
<1>1. ASSUME NEW e \in ConditionEvents, NEW t \in Pids,
             OnList(q', EventList(e), t), Releases(e, t)'
      PROVE  pending'[e]
  <2>1. e \in Events /\ WriteEvent(fd) \in Events /\ ReadEvent(fd) \in Events
    BY ConditionNumbers, Numbers
  <2>2. OnList(q, EventList(e), t) /\ arg'[t] = arg[t]
    BY <1>1, <2>1 DEF Fewer
  <2>3. CASE pending'[e] = TRUE
    BY <2>3
  <2>4. CASE pending'[e] # TRUE
    <3>1. \A g \in Fds : /\ e = ReadEvent(g) => len'[g] <= len[g]
                         /\ e = WriteEvent(g) => len[g] <= len'[g]
      <4>1. \A g \in Fds : len[g] \in Int
        BY DEF TypeOK
      <4>2. \A x \in Events : event_monitor_release(x) => pending'[x] = TRUE
        BY DEF event_monitor_release, TypeOK
      <4>3. /\ e = WriteEvent(fd) => len[fd] <= len'[fd]
            /\ e = ReadEvent(fd) => len'[fd] <= len[fd]
        BY <4>2, <2>1, <2>4
      <4> QED
        BY <4>1, <4>3
    <3>2. Releases(e, t)
      BY <1>1, <2>2, <3>1, ReleasesStable
    <3>3. pending[e]
      BY <2>2, <3>2 DEF NoLostWakeup
    <3> QED
      BY <2>1, <3>3 DEF event_monitor_release, TypeOK
  <2> QED
    BY <2>3, <2>4
<1> QED
  BY <1>1 DEF NoLostWakeup

\* A step that is no part of serve leaves no event in hand, and one that is no
\* end of a scan clears nothing.
OutOfServe == phase # "serve" /\ serving' = serving

LEMMA OutOfServeOK ==
  ASSUME ServingOK, OutOfServe
  PROVE  ServingOK' /\ VisitedKept'
<1>1. serving' = None
  BY DEF OutOfServe, ServingOK
<1> QED
  BY <1>1 DEF ServingOK, VisitedKept

\* What IInv says besides TypeOK and OnOneList
Rest ==
  /\ WaitersNotReady
  /\ ServingOK
  /\ VisitedKept
  /\ Quiet
  /\ NoLostWakeup
  /\ IrqArmedOrPending
  /\ CurrentReady

\* A running thread waits for nothing
LEMMA CurrentNoWaiter ==
  ASSUME TypeOK, OnOneList, CurrentReady, phase = "thread", inuse[current]
  PROVE  \A e \in Events : ~OnList(q, EventList(e), current)
<1>1. PICK p \in 0 .. PRIORITY_LIMIT : OnList(q, ReadyList(p), current)
  BY DEF CurrentReady, OnReadyList
<1> QED
  BY <1>1, OneListOnly, Heads

\* A call that blocks its caller, if its status was TASK_READY
LEMMA BlockStep ==
  ASSUME IInv, TypeOK', NEW e \in Events, NEW a, Call, event_monitor_block(e, a),
         status' \in [Pids -> Statuses], status'[current] # "READY",
         \A t \in Pids \ {current} : status'[t] = status[t],
         pending' = pending, len' = len, enabled \subseteq enabled',
         e \in ConditionEvents =>
           \A t \in Pids : t = current /\ arg'[t] = a => ~Releases(e, t)',
         \A i \in Irqs : e = INTR_EVENT(i) => i \in enabled'
  PROVE  Rest'
<1> USE DEF IInv
<1>0. /\ current \in Pids /\ inuse[current] /\ phase = "thread" /\ phase' = "serve"
      /\ tick' = tick /\ serving' = serving /\ EventList(e) \in ListIds
  BY Heads DEF Call, TypeOK
<1>1. ServingOK' /\ VisitedKept'
  BY <1>0, OutOfServeOK DEF OutOfServe
<1>2. Quiet' /\ CurrentReady'
  BY <1>0 DEF Quiet, CurrentReady
<1>3. CASE q' = q /\ arg' = arg
  <2>1. Fewer /\ Raised
    BY <1>3 DEF Fewer, Raised
  <2>2. WaitersNotReady'
    BY <1>3 DEF WaitersNotReady, OnEventList
  <2> QED
    BY <1>0, <1>1, <1>2, <2>1, <2>2, FewerQuiet, FewerArmed DEF Rest
<1>4. CASE q' = list_push(q, EventList(e), current) /\ arg' = [arg EXCEPT ![current] = a]
  <2>1. \A k \in ListIds : \A m :
          OnList(q', k, m) <=> IF m = current THEN k = EventList(e) ELSE OnList(q, k, m)
    BY <1>0, <1>4, Moved DEF Moves
  <2>2. \A f \in Events, t \in Pids :
          OnList(q', EventList(f), t) =>
            IF t = current THEN f = e
            ELSE OnList(q, EventList(f), t) /\ arg'[t] = arg[t]
    <3>1. ASSUME NEW f \in Events, NEW t \in Pids, OnList(q', EventList(f), t)
          PROVE  IF t = current THEN f = e ELSE OnList(q, EventList(f), t)
      BY <3>1, <2>1, Heads
    <3>2. \A t \in Pids \ {current} : arg'[t] = arg[t]
      BY <1>4 DEF TypeOK
    <3> QED
      BY <3>1, <3>2
  <2>3. WaitersNotReady'
    BY <2>2 DEF WaitersNotReady, OnEventList
  <2>4. IrqArmedOrPending'
    BY <2>2, Numbers DEF IrqArmedOrPending
  <2>5. ASSUME NEW f \in ConditionEvents, NEW t \in Pids,
               OnList(q', EventList(f), t), Releases(f, t)'
        PROVE  pending'[f]
    <3>1. f \in Events
      BY ConditionNumbers
    <3>2. t # current
      <4> SUFFICES ASSUME t = current
                   PROVE  FALSE
        OBVIOUS
      <4>1. arg'[t] = a
        BY <1>0, <1>4 DEF TypeOK
      <4>2. f = e
        BY <3>1, <2>2, <2>5
      <4>3. ~Releases(e, t)'
        BY <4>1, <4>2
      <4> QED
        BY <4>2, <4>3, <2>5
    <3>3. Releases(f, t)
      <4>1. \A fd \in Fds : len'[fd] <= len[fd] /\ len[fd] <= len'[fd]
        BY DEF TypeOK
      <4> QED
        BY <4>1, <3>1, <3>2, <2>2, <2>5, <1>0, ReleasesStable
    <3> QED
      BY <3>1, <3>2, <3>3, <2>2, <2>5 DEF NoLostWakeup
  <2>6. NoLostWakeup'
    BY <2>5 DEF NoLostWakeup
  <2> QED
    BY <1>1, <1>2, <2>3, <2>4, <2>6 DEF Rest
<1> QED
  BY <1>3, <1>4 DEF event_monitor_block

LEMMA SyscallStep ==
  ASSUME IInv, TypeOK', Syscall
  PROVE  Rest'
<1> USE DEF IInv
<1>1. /\ current \in Pids /\ inuse[current] /\ phase = "thread"
      /\ phase' = "serve" /\ tick' = tick /\ serving' = serving
      /\ current' = current
  BY DEF Syscall, Read, Write, FileError, InterruptWait, Sleep, TaskBlock,
         SetOwnPriority, SetPriority, OtherCall, Call, TypeOK
<1>2. ServingOK' /\ VisitedKept' /\ Quiet' /\ CurrentReady'
  BY <1>1, OutOfServeOK DEF OutOfServe, Quiet, CurrentReady
<1>3. \A e \in Events : ~OnList(q, EventList(e), current)
  BY <1>1, CurrentNoWaiter
\* Calls that link nobody on an event's list
<1>4. ASSUME Fewer, Raised, len' = len, enabled' = enabled,
             \A t \in Pids : status'[t] # status[t] => t = current,
             \A e \in Events, t \in Pids : OnList(q', EventList(e), t) => t # current
      PROVE  Rest'
  <2>1. WaitersNotReady'
    BY <1>4 DEF WaitersNotReady, OnEventList, Fewer
  <2> QED
    BY <1>1, <1>2, <1>4, <2>1, FewerQuiet, FewerArmed DEF Rest
\* Accepted transfers
<1>5. ASSUME NEW fd \in Fds, NEW n, NEW e \in Events, AcceptFile(fd, n, e),
             n \in Int, enabled' = enabled,
             \/ n <= len[fd] /\ e = WriteEvent(fd)
             \/ len[fd] <= n /\ e = ReadEvent(fd)
      PROVE  Rest'
  <2>1. /\ q' = q /\ arg' = arg /\ len' = [len EXCEPT ![fd] = n]
        /\ event_monitor_release(e) /\ status' = [status EXCEPT ![current] = "READY"]
    BY <1>5 DEF AcceptFile, SetStatus
  <2>2. Fewer /\ Raised
    BY <2>1 DEF Fewer, Raised, event_monitor_release, TypeOK
  <2>3. WaitersNotReady'
    BY <2>1, <1>3 DEF WaitersNotReady, OnEventList, TypeOK
  <2>4. NoLostWakeup'
    <3>1. (\A g \in Fds \ {fd} : len'[g] = len[g]) /\ len'[fd] = n
      BY <2>1 DEF TypeOK
    <3> QED
      BY <1>1, <1>5, <2>1, <2>2, <3>1, TransferQuiet
  <2> QED
    BY <1>2, <1>5, <2>2, <2>3, <2>4, FewerArmed DEF Rest
<1>6. ASSUME NEW fd \in Fds, NEW size \in Sizes, Read(fd, size)
      PROVE  Rest'
  <2>1. /\ size \in Nat /\ ReadEvent(fd) \in Events /\ WriteEvent(fd) \in Events
        /\ len[fd] \in Int /\ enabled' = enabled /\ Call
    BY <1>6, ProgramAssumption, Numbers DEF Read, TypeOK
  <2>2. CASE AcceptFile(fd, len[fd] - size, WriteEvent(fd))
    <3>1. len[fd] - size \in Int /\ len[fd] - size <= len[fd]
      BY <2>1
    <3> QED
      BY <2>1, <2>2, <3>1, <1>5
  <2>3. CASE ~fifo_readable(fd, size) /\ BlockFile(ReadEvent(fd), size, "WAIT_READ")
    <3>1. /\ event_monitor_block(ReadEvent(fd), size) /\ len' = len /\ pending' = pending
          /\ SetStatus(IF status[current] = "READY" THEN "WAIT_READ" ELSE status[current])
      BY <2>3 DEF BlockFile
    <3>2. /\ status' \in [Pids -> Statuses] /\ status'[current] # "READY"
          /\ \A t \in Pids \ {current} : status'[t] = status[t]
      BY <3>1, <1>1 DEF SetStatus, TypeOK
    <3>3. \A t \in Pids : t = current /\ arg'[t] = size => ~Releases(ReadEvent(fd), t)'
      BY <2>3, <3>1, HandlersNext DEF fifo_readable
    <3>4. \A i \in Irqs : ReadEvent(fd) # INTR_EVENT(i)
      BY LimitsAssumption DEF ReadEvent, INTR_EVENT, Fds, Irqs
    <3> QED
      BY <2>1, <3>1, <3>2, <3>3, <3>4, BlockStep
  <2> QED
    BY <1>6, <2>2, <2>3 DEF Read
<1>7. ASSUME NEW fd \in Fds, NEW size \in Sizes, Write(fd, size)
      PROVE  Rest'
  <2>1. /\ size \in Nat /\ ReadEvent(fd) \in Events /\ WriteEvent(fd) \in Events
        /\ len[fd] \in Int /\ enabled' = enabled /\ Call
    BY <1>7, ProgramAssumption, Numbers DEF Write, TypeOK
  <2>2. CASE AcceptFile(fd, len[fd] + size, ReadEvent(fd))
    BY <2>1, <2>2, <1>5
  <2>3. CASE ~fifo_writable(fd, size) /\ BlockFile(WriteEvent(fd), size, "WAIT_WRITE")
    <3>1. /\ event_monitor_block(WriteEvent(fd), size) /\ len' = len /\ pending' = pending
          /\ SetStatus(IF status[current] = "READY" THEN "WAIT_WRITE" ELSE status[current])
      BY <2>3 DEF BlockFile
    <3>2. /\ status' \in [Pids -> Statuses] /\ status'[current] # "READY"
          /\ \A t \in Pids \ {current} : status'[t] = status[t]
      BY <3>1, <1>1 DEF SetStatus, TypeOK
    <3>3. \A t \in Pids : t = current /\ arg'[t] = size => ~Releases(WriteEvent(fd), t)'
      BY <2>3, <3>1, HandlersNext DEF fifo_writable
    <3>4. \A i \in Irqs : WriteEvent(fd) # INTR_EVENT(i)
      BY LimitsAssumption DEF WriteEvent, INTR_EVENT, Fds, Irqs
    <3> QED
      BY <2>1, <3>1, <3>2, <3>3, <3>4, BlockStep
  <2> QED
    BY <1>7, <2>2, <2>3 DEF Write
<1>8. CASE FileError \/ OtherCall
  <2>1. /\ q' = q /\ arg' = arg /\ len' = len /\ pending' = pending /\ enabled' = enabled
        /\ \A t \in Pids : status'[t] # status[t] => t = current
    BY <1>8 DEF FileError, OtherCall, SetStatus, TypeOK
  <2> QED
    BY <2>1, <1>3, <1>4 DEF Fewer, Raised
<1>9. ASSUME NEW i \in Irqs, InterruptWait(i)
      PROVE  Rest'
  <2>1. /\ event_monitor_block(INTR_EVENT(i), 0) /\ len' = len /\ pending' = pending
        /\ status' = [status EXCEPT ![current] = "WAIT_INTR"] /\ Call
        /\ enabled' = enabled \union {i} /\ INTR_EVENT(i) \in Events
    BY <1>9, Numbers DEF InterruptWait, SetStatus
  <2>2. /\ status' \in [Pids -> Statuses] /\ status'[current] # "READY"
        /\ \A t \in Pids \ {current} : status'[t] = status[t]
    BY <2>1, <1>1 DEF TypeOK, Statuses
  <2>3. \A j \in Irqs : INTR_EVENT(i) = INTR_EVENT(j) => j \in enabled'
    BY <2>1, Numbers
  <2> QED
    BY <2>1, <2>2, <2>3, ConditionNumbers, BlockStep
<1>10. ASSUME NEW ticks \in SleepTimes, Sleep(ticks)
       PROVE  Rest'
  <2>1. /\ event_monitor_block(TIME_EVENT, TickAfter(ticks)) /\ len' = len
        /\ pending' = pending /\ status' = [status EXCEPT ![current] = "WAIT_TIME"]
        /\ Call /\ enabled' = enabled /\ TIME_EVENT \in Events
    BY <1>10, Numbers DEF Sleep, SetStatus
  <2>2. /\ status' \in [Pids -> Statuses] /\ status'[current] # "READY"
        /\ \A t \in Pids \ {current} : status'[t] = status[t]
    BY <2>1, <1>1 DEF TypeOK, Statuses
  <2>3. TickAfter(ticks) # tick
    <3>1. ticks \in 1 .. TICKS - 1 /\ tick \in 0 .. TICKS - 1
      BY <1>10, ProgramAssumption, LimitsAssumption DEF Sleep, TypeOK
    <3> QED
      BY <3>1, LimitsAssumption DEF TickAfter
  <2>4. \A t \in Pids :
          t = current /\ arg'[t] = TickAfter(ticks) => ~Releases(TIME_EVENT, t)'
    BY <1>1, <2>3, HandlersNext
  <2>5. \A i \in Irqs : TIME_EVENT # INTR_EVENT(i)
    BY Numbers, LimitsAssumption
  <2> QED
    BY <2>1, <2>2, <2>4, <2>5, BlockStep
<1>11. ASSUME NEW pid \in Mortal, TaskBlock(pid)
       PROVE  Rest'
  <2>0. pid \in Pids \ {0}
    BY ProgramAssumption
  <2>1. /\ event_monitor_block(TASK_EVENT(pid), pid) /\ len' = len
        /\ pending' = pending /\ status' = [status EXCEPT ![current] = "WAIT_TASK"]
        /\ Call /\ enabled' = enabled /\ TASK_EVENT(pid) \in Events
    BY <1>11, <2>0, Numbers DEF TaskBlock, SetStatus
  <2>2. /\ status' \in [Pids -> Statuses] /\ status'[current] # "READY"
        /\ \A t \in Pids \ {current} : status'[t] = status[t]
    BY <2>1, <1>1 DEF TypeOK, Statuses
  <2>3. \A i \in Irqs : TASK_EVENT(pid) # INTR_EVENT(i)
    BY <2>0, Numbers, LimitsAssumption DEF Events
  <2> QED
    BY <2>0, <2>1, <2>2, <2>3, ConditionNumbers, BlockStep
<1>12. ASSUME NEW value \in Priorities, SetOwnPriority(value)
       PROVE  Rest'
  <2>1. Moves(current, ReadyList(Clamp(value))) /\ Clamp(value) \in 0 .. PRIORITY_LIMIT
    BY <1>12, Clamped, ProgramAssumption DEF SetOwnPriority, Moves
  <2>2. Dropped(current)
    BY <1>1, <2>1, ReadyDropped
  <2> QED
    BY <1>4, <1>12, <2>2 DEF SetOwnPriority, Dropped, Fewer, Raised
<1>13. ASSUME NEW value \in Priorities, NEW who \in Pids, SetPriority(who, value)
       PROVE  Rest'
  <2>1. Clamp(value) \in 0 .. PRIORITY_LIMIT
    BY Clamped, ProgramAssumption
  <2>2. Dropped(who) \/ q' = q
    BY <1>13, <2>1, ReadyDropped DEF SetPriority, Moves
  <2> QED
    BY <1>3, <1>4, <1>13, <2>2 DEF SetPriority, Dropped, Fewer, Raised
<1> QED
  BY <1>6, <1>7, <1>8, <1>9, <1>10, <1>11, <1>12, <1>13 DEF Syscall

LEMMA LifecycleStep ==
  ASSUME IInv, TypeOK', Lifecycle
  PROVE  Rest'
<1> USE DEF IInv
<1>0. current \in Pids /\ Mortal \subseteq Pids \ {0}
  BY ProgramAssumption DEF TypeOK
<1>1. /\ phase = "thread" /\ phase' = "thread" /\ serving' = serving /\ current' = current
      /\ tick' = tick /\ len' = len /\ enabled' = enabled /\ status' = status
  BY DEF Lifecycle, Create, Exit, Cancel, task_kill, serveVars
<1>2. ServingOK' /\ VisitedKept'
  BY <1>1, OutOfServeOK DEF OutOfServe
<1>3. ASSUME NEW n \in Pids, Dropped(n), Raised, \A t \in Pids \ {n} : arg'[t] = arg[t]
      PROVE  WaitersNotReady' /\ NoLostWakeup' /\ IrqArmedOrPending'
  <2>1. Fewer
    BY <1>3 DEF Dropped, Fewer
  <2>2. WaitersNotReady'
    BY <1>1, <2>1 DEF WaitersNotReady, OnEventList, Fewer
  <2> QED
    BY <1>1, <1>3, <2>1, <2>2, FewerQuiet, FewerArmed
<1>4. ASSUME NEW p \in SpawnPriorities, Create(p)
      PROVE  Rest'
  <2>1. PICK n \in Mortal : ~inuse[n] /\ q' = list_push(q, ReadyList(p), n)
    BY <1>4 DEF Create
  <2>2. /\ n \in Pids /\ p \in 0 .. PRIORITY_LIMIT /\ Moves(n, ReadyList(p))
        /\ pending' = pending /\ arg' = arg /\ inuse[current]
    BY <1>0, <1>4, <2>1, ProgramAssumption DEF Create, Moves
  <2>3. Dropped(n)
    BY <2>2, ReadyDropped
  <2>4. Quiet'
    BY <1>1, <2>2 DEF Quiet
  <2>5. CurrentReady'
    <3>1. PICK r \in 0 .. PRIORITY_LIMIT : OnList(q, ReadyList(r), current)
      BY <1>1, <2>2 DEF CurrentReady, OnReadyList
    <3>2. OnList(q', ReadyList(r), current)
      BY <2>1, <2>2, <3>1, Moved, Heads
    <3> QED
      BY <1>1, <3>2 DEF CurrentReady, OnReadyList
  <2> QED
    BY <1>2, <1>3, <2>2, <2>3, <2>4, <2>5 DEF Rest, Raised
<1>5. ASSUME NEW n \in Mortal, task_kill(n)
      PROVE  Rest'
  <2>1. /\ n \in Pids /\ q' = list_remove(q, n) /\ inuse' = [inuse EXCEPT ![n] = FALSE]
        /\ event_monitor_release(TASK_EVENT(n)) /\ arg' = [arg EXCEPT ![n] = 0]
    BY <1>0, <1>5 DEF task_kill
  <2>2. Dropped(n)
    BY <2>1, RemovedDropped
  <2>3. Raised /\ \A t \in Pids \ {n} : arg'[t] = arg[t]
    BY <2>1, <1>0, Numbers DEF Raised, event_monitor_release, TypeOK
  <2>4. Quiet'
    <3>1. ASSUME NEW e \in 1 .. TIME_EVENT
          PROVE  ~pending'[e]
      <4>1. TASK_EVENT(n) \in Events /\ TIME_EVENT < TASK_EVENT(n)
        BY <1>0, Numbers
      <4>2. e \in Events /\ e # TASK_EVENT(n)
        BY <3>1, <4>1, Numbers, LimitsAssumption DEF Events
      <4> QED
        BY <1>1, <2>1, <4>1, <4>2, <3>1 DEF Quiet, event_monitor_release, TypeOK
    <3> QED
      BY <3>1 DEF Quiet
  <2>5. CurrentReady'
    <3>1. CASE inuse'[current]
      <4>1. inuse[current] /\ current # n
        BY <2>1, <3>1, <1>0 DEF TypeOK
      <4>2. PICK r \in 0 .. PRIORITY_LIMIT : OnList(q, ReadyList(r), current)
        BY <1>1, <4>1 DEF CurrentReady, OnReadyList
      <4>3. \A k \in ListIds : \A m : OnList(q', k, m) <=> m # n /\ OnList(q, k, m)
        BY <2>1, ListRemove DEF TypeOK, OnOneList
      <4>4. OnList(q', ReadyList(r), current)
        BY <4>1, <4>2, <4>3, Heads
      <4> QED
        BY <1>1, <4>4 DEF CurrentReady, OnReadyList
    <3>2. CASE ~inuse'[current]
      BY <1>1, <3>2 DEF CurrentReady
    <3> QED
      BY <3>1, <3>2
  <2> QED
    BY <1>2, <1>3, <2>1, <2>2, <2>3, <2>4, <2>5 DEF Rest
<1> QED
  BY <1>4, <1>5 DEF Lifecycle, Exit, Cancel

LEMMA InterruptStep ==
  ASSUME IInv, TypeOK', Tick \/ \E i \in Irqs : Irq(i)
  PROVE  Rest'
<1> USE DEF IInv
<1>1. /\ phase = "thread" /\ phase' = "serve" /\ serving' = serving /\ q' = q
      /\ status' = status /\ arg' = arg /\ len' = len /\ TIME_EVENT \in Events
  BY Numbers DEF Tick, Irq, EnterPendSV
<1>2. ServingOK' /\ VisitedKept' /\ Quiet' /\ CurrentReady'
  BY <1>1, OutOfServeOK DEF OutOfServe, Quiet, CurrentReady
<1>3. WaitersNotReady' /\ Fewer
  BY <1>1 DEF WaitersNotReady, OnEventList, Fewer
<1>4. Raised
  BY Numbers DEF Tick, Irq, event_monitor_release, Raised, TypeOK
<1>5. CASE Tick
  <2>1. pending'[TIME_EVENT] /\ enabled' = enabled
    BY <1>1, <1>5 DEF Tick, event_monitor_release, TypeOK
  <2>2. ASSUME NEW e \in ConditionEvents, NEW t \in Pids,
               OnList(q', EventList(e), t), Releases(e, t)', e # TIME_EVENT
        PROVE  pending'[e]
    <3>1. \A fd \in Fds : len'[fd] <= len[fd] /\ len[fd] <= len'[fd]
      BY <1>1 DEF TypeOK
    <3>2. Releases(e, t)
      BY <1>1, <2>2, <3>1, ReleasesStable
    <3> QED
      BY <1>1, <1>4, <2>2, <3>2, ConditionNumbers DEF NoLostWakeup, Raised
  <2>3. NoLostWakeup'
    BY <2>1, <2>2 DEF NoLostWakeup
  <2> QED
    BY <1>2, <1>3, <1>4, <2>1, <2>3, FewerArmed DEF Rest
<1>6. ASSUME NEW i \in Irqs, Irq(i)
      PROVE  Rest'
  <2>1. /\ INTR_EVENT(i) \in Events /\ pending'[INTR_EVENT(i)] /\ tick' = tick
        /\ enabled' = enabled \ {i}
    BY <1>6, Numbers DEF Irq, event_monitor_release, TypeOK
  <2>2. IrqArmedOrPending'
    BY <1>1, <1>4, <2>1, Numbers DEF IrqArmedOrPending, Raised
  <2> QED
    BY <1>1, <1>2, <1>3, <1>4, <2>1, <2>2, FewerQuiet DEF Rest
<1> QED
  BY <1>5, <1>6

LEMMA ServeStep ==
  ASSUME IInv, TypeOK', Serve
  PROVE  Rest'
<1> USE DEF IInv
\* A waiter leaves for its ready list
<1>1. ASSUME Visit, Wake(Waiter), len' \in [Fds -> Int], NoLostWakeup',
             Releases(serving, Waiter), Raised,
             \A fd \in Fds : /\ serving = ReadEvent(fd) => len'[fd] <= len[fd]
                             /\ serving = WriteEvent(fd) => len[fd] <= len'[fd]
      PROVE  Rest'
  <2> DEFINE w == Waiter
             k == EventList(serving)
  <2>1. /\ serving \in Events /\ at \in DOMAIN q[k] /\ q[k] \in Seq(Pids) /\ w \in Pids
        /\ w = q[k][at] /\ k \in ListIds /\ phase = "serve" /\ inuse[w]
    BY <1>1, VisitFacts, Heads DEF Waiters, Waiter, Visit
  <2>2. /\ q' = list_push(q, ReadyList(priority[w]), w)
        /\ priority[w] \in 0 .. PRIORITY_LIMIT
        /\ status' = [status EXCEPT ![w] = "READY"] /\ arg' = [arg EXCEPT ![w] = 0]
        /\ serving' = serving /\ at' = at /\ phase' = phase /\ scan' = scan
        /\ tick' = tick /\ inuse' = inuse /\ enabled' = enabled
    BY <1>1, <2>1 DEF Wake, Served, serveVars, TypeOK
  <2> HIDE DEF w, k
  <2>3. Dropped(w)
    BY <2>1, <2>2, ReadyDropped DEF Moves
  <2>4. Fewer
    BY <2>2, <2>3 DEF Fewer, Dropped, TypeOK
  <2>5. WaitersNotReady'
    BY <2>2, <2>3 DEF WaitersNotReady, OnEventList, Dropped, TypeOK
  <2>6. IrqArmedOrPending'
    BY <1>1, <2>2, <2>4, FewerArmed
  <2>7. ServingOK'
    BY <1>1, <2>1, <2>2 DEF ServingOK, Raised
  <2>8. Quiet' /\ CurrentReady'
    BY <2>1, <2>2 DEF Quiet, CurrentReady
  <2>9. VisitedKept'
    <3>1. ASSUME NEW j \in 1 .. at - 1
          PROVE  /\ j \in DOMAIN q[k] /\ q'[k][j] = q[k][j] /\ q[k][j] \in Pids
                 /\ q[k][j] # w /\ ~Releases(serving, q[k][j])
      <4>1. j \in DOMAIN q[k] /\ j # at /\ j <= Len(q[k])
        BY <2>1, LenProperties
      <4>2. q[k][j] \in Pids
        BY <2>1, <4>1, ElementOfSeq, LenProperties
      <4>3. q[k][j] # w
        BY <2>1, <4>1 DEF OnePlace, OnOneList, TypeOK
      <4>4. q'[k][j] = q[k][j]
        <5>1. ReadyList(priority[w]) \in ListIds /\ k # ReadyList(priority[w])
          BY <2>1, <2>2, Heads DEF k
        <5>2. /\ q \in [ListIds -> Seq(Pids)] /\ OnePlace(q)
          BY DEF TypeOK, OnOneList
        <5>3. \A i \in DOMAIN q[k] : q[k][i] = w => \A y \in 1 .. i - 1 : q'[k][y] = q[k][y]
          BY <2>1, <2>2, <5>1, PushFront
        <5> QED
          BY <2>1, <3>1, <5>3
      <4>5. ~Releases(serving, q[k][j])
        BY <1>1, <4>1 DEF VisitedKept, Visit, k
      <4> QED
        BY <4>1, <4>2, <4>3, <4>4, <4>5
    <3>2. ASSUME NEW j \in 1 .. at - 1, NEW t \in Pids, t = q[k][j], NEW e \in Events,
                 e = serving, Releases(e, t)'
          PROVE  FALSE
      <4>1. arg'[t] = arg[t] /\ ~Releases(e, t)
        BY <2>2, <3>1, <3>2 DEF TypeOK
      <4>2. CASE e \in ConditionEvents
        BY <1>1, <2>2, <3>2, <4>1, <4>2, ReleasesStable
      <4>3. CASE e \notin ConditionEvents
        <5>1. \A fd \in Fds : e # ReadEvent(fd) /\ e # WriteEvent(fd)
          BY <4>3 DEF ConditionEvents
        <5>2. e # TIME_EVENT
          BY <4>3 DEF ConditionEvents
        <5> QED
          BY <3>2, <4>1, <5>1, <5>2, <2>2 DEF Releases, task_release
      <4> QED
        BY <4>2, <4>3
    <3>3. ASSUME NEW j \in 1 .. at' - 1
          PROVE  ~Releases(serving, q[EventList(serving)][j])'
      <4>1. PICK e \in Events : e = serving
        BY <2>1
      <4>2. PICK t \in Pids : t = q[k][j]
        BY <2>2, <3>1, <3>3
      <4>3. e = serving' /\ t = q'[EventList(serving')][j]
        BY <2>2, <3>1, <3>3, <4>1, <4>2 DEF k
      <4>4. ~Releases(e, t)'
        BY <2>2, <3>2, <3>3, <4>1, <4>2
      <4> QED
        BY <4>3, <4>4 DEF Releases, fifo_readable, fifo_writable, time_release, task_release
    <3> QED
      BY <3>3 DEF VisitedKept
  <2> QED
    BY <1>1, <2>5, <2>6, <2>7, <2>8, <2>9 DEF Rest

\* The event is not looked at again, or its scan goes on
<1>2. ASSUME NEW fd \in Fds, WakeReader(fd)
      PROVE  Rest'
  <2>1. /\ Visit /\ Wake(Waiter) /\ serving = ReadEvent(fd)
        /\ fifo_readable(fd, arg[Waiter]) /\ len' = [len EXCEPT ![fd] = @ - arg[Waiter]]
        /\ event_monitor_release(WriteEvent(fd)) /\ Waiter \in Pids
    BY <1>2, VisitFacts DEF WakeReader
  <2>2. /\ len' \in [Fds -> Int] /\ len'[fd] <= len[fd]
        /\ \A g \in Fds \ {fd} : len'[g] = len[g]
    BY <2>1 DEF TypeOK
  <2>3. Releases(serving, Waiter)
    BY <2>1, Handlers
  <2>4. Raised /\ tick' = tick /\ priority[Waiter] \in 0 .. PRIORITY_LIMIT
    BY <2>1, Numbers DEF Raised, event_monitor_release, Wake, Served, TypeOK
  <2>5. Dropped(Waiter)
    BY <2>1, <2>4, ReadyDropped DEF Wake, Moves
  <2>6. Fewer
    BY <2>1, <2>5 DEF Wake, Fewer, Dropped, TypeOK
  <2>7. NoLostWakeup'
    BY <2>1, <2>2, <2>4, <2>6, TransferQuiet
  <2>8. \A g \in Fds : /\ serving = ReadEvent(g) => len'[g] <= len[g]
                       /\ serving = WriteEvent(g) => len[g] <= len'[g]
    BY <2>1, <2>2, Numbers DEF TypeOK
  <2> QED
    BY <1>1, <2>1, <2>2, <2>3, <2>4, <2>7, <2>8
<1>3. ASSUME NEW fd \in Fds, WakeWriter(fd)
      PROVE  Rest'
  <2>1. /\ Visit /\ Wake(Waiter) /\ serving = WriteEvent(fd)
        /\ fifo_writable(fd, arg[Waiter]) /\ len' = [len EXCEPT ![fd] = @ + arg[Waiter]]
        /\ event_monitor_release(ReadEvent(fd)) /\ Waiter \in Pids
    BY <1>3, VisitFacts DEF WakeWriter
  <2>2. /\ len' \in [Fds -> Int] /\ len[fd] <= len'[fd]
        /\ \A g \in Fds \ {fd} : len'[g] = len[g]
    BY <2>1 DEF TypeOK
  <2>3. Releases(serving, Waiter)
    BY <2>1, Handlers
  <2>4. Raised /\ tick' = tick /\ priority[Waiter] \in 0 .. PRIORITY_LIMIT
    BY <2>1, Numbers DEF Raised, event_monitor_release, Wake, Served, TypeOK
  <2>5. Dropped(Waiter)
    BY <2>1, <2>4, ReadyDropped DEF Wake, Moves
  <2>6. Fewer
    BY <2>1, <2>5 DEF Wake, Fewer, Dropped, TypeOK
  <2>7. NoLostWakeup'
    BY <2>1, <2>2, <2>4, <2>6, TransferQuiet
  <2>8. \A g \in Fds : /\ serving = ReadEvent(g) => len'[g] <= len[g]
                       /\ serving = WriteEvent(g) => len[g] <= len'[g]
    BY <2>1, <2>2, Numbers DEF TypeOK
  <2> QED
    BY <1>1, <2>1, <2>2, <2>3, <2>4, <2>7, <2>8
<1>4. CASE WakeOther
  <2>1. /\ Visit /\ Wake(Waiter) /\ Releases(serving, Waiter) /\ Waiter \in Pids
        /\ len' = len /\ pending' = pending
    BY <1>4, VisitFacts DEF WakeOther
  <2>2. /\ len' \in [Fds -> Int] /\ tick' = tick /\ Raised
        /\ \A g \in Fds : len'[g] <= len[g] /\ len[g] <= len'[g]
        /\ priority[Waiter] \in 0 .. PRIORITY_LIMIT
    BY <2>1 DEF Wake, Served, Raised, TypeOK
  <2>3. Dropped(Waiter)
    BY <2>1, <2>2, ReadyDropped DEF Wake, Moves
  <2>4. Fewer
    BY <2>1, <2>3 DEF Wake, Fewer, Dropped, TypeOK
  <2>5. NoLostWakeup'
    BY <2>1, <2>2, <2>4, FewerQuiet
  <2> QED
    BY <1>1, <2>1, <2>2, <2>5
\* The steps that move no task
<1>5. ASSUME q' = q, arg' = arg, status' = status, len' = len, tick' = tick,
             inuse' = inuse, enabled' = enabled
      PROVE  /\ WaitersNotReady' /\ Fewer
             /\ (Raised => NoLostWakeup' /\ IrqArmedOrPending')
             /\ \A e \in Events : \A t \in Pids : Releases(e, t)' <=> Releases(e, t)
  <2>1. WaitersNotReady' /\ Fewer
    BY <1>5 DEF WaitersNotReady, OnEventList, Fewer
  <2>2. \A e \in Events : \A t \in Pids : Releases(e, t)' <=> Releases(e, t)
    BY <1>5 DEF Releases, fifo_readable, fifo_writable, time_release, task_release
  <2> QED
    BY <1>5, <2>1, <2>2, FewerQuiet, FewerArmed
<1>6. ASSUME NEW e \in Events, ServeEvent(e)
      PROVE  Rest'
  <2>1. /\ WaitersNotReady' /\ NoLostWakeup' /\ IrqArmedOrPending'
    BY <1>5, <1>6 DEF ServeEvent, Served, Raised
  <2>2. /\ serving' = e /\ pending'[e] /\ phase' = "serve" /\ at' = 1
    BY <1>6 DEF ServeEvent
  <2>3. ServingOK' /\ VisitedKept' /\ Quiet' /\ CurrentReady'
    BY <2>2 DEF ServingOK, VisitedKept, Quiet, CurrentReady
  <2> QED
    BY <2>1, <2>3 DEF Rest
<1>7. CASE ServeDone
  <2>1. /\ WaitersNotReady' /\ NoLostWakeup' /\ IrqArmedOrPending'
    BY <1>5, <1>7 DEF ServeDone, Served, Raised
  <2>2. serving' = None /\ phase' = "select" /\ pending' = pending
    BY <1>7 DEF ServeDone, serveVars
  <2>3. ServingOK' /\ VisitedKept' /\ CurrentReady'
    BY <2>2 DEF ServingOK, VisitedKept, CurrentReady
  <2>4. Quiet'
    <3>1. ASSUME NEW e \in 1 .. TIME_EVENT
          PROVE  ~pending'[e]
      <4>1. e \in Events /\ ~(e < scan)
        BY LimitsAssumption, Numbers DEF Events, TypeOK
      <4> QED
        BY <1>7, <2>2, <4>1 DEF ServeDone
    <3> QED
      BY <3>1 DEF Quiet
  <2> QED
    BY <2>1, <2>3, <2>4 DEF Rest
<1>8. CASE KeepWaiter
  <2>1. /\ WaitersNotReady' /\ NoLostWakeup' /\ IrqArmedOrPending'
        /\ \A e \in Events : \A t \in Pids : Releases(e, t)' <=> Releases(e, t)
    BY <1>5, <1>8 DEF KeepWaiter, Served, Raised
  <2>2. /\ serving' = serving /\ phase' = phase /\ pending' = pending /\ phase = "serve"
        /\ at' = at + 1 /\ q' = q /\ Visit /\ ~Releases(serving, Waiter)
    BY <1>8 DEF KeepWaiter, Visit
  <2>3. ServingOK' /\ Quiet' /\ CurrentReady'
    BY <2>2 DEF ServingOK, Quiet, CurrentReady
  <2>4. VisitedKept'
    <3>1. serving \in Events /\ Waiters \in Seq(Pids) /\ at \in DOMAIN Waiters
      BY <2>2, VisitFacts
    <3>2. ASSUME NEW j \in 1 .. at' - 1
          PROVE  ~Releases(serving, q[EventList(serving)][j])'
      <4>1. j \in DOMAIN Waiters /\ Waiters[j] \in Pids
        BY <2>2, <3>1, LenProperties, ElementOfSeq
      <4>2. ~Releases(serving, Waiters[j])
        <5>1. CASE j = at
          BY <2>2, <5>1 DEF Waiter
        <5>2. CASE j # at
          <6>1. j \in 1 .. at - 1 /\ j <= Len(Waiters)
            BY <2>2, <3>1, <4>1, <5>2, LenProperties
          <6> QED
            BY <2>2, <6>1 DEF VisitedKept, Visit, Waiters
        <5> QED
          BY <5>1, <5>2
      <4>3. PICK e \in Events, t \in Pids : e = serving /\ t = Waiters[j]
        BY <3>1, <4>1
      <4>4. ~Releases(e, t)'
        BY <2>1, <4>2, <4>3
      <4>5. e = serving' /\ t = q'[EventList(serving')][j]
        BY <2>2, <4>3 DEF Waiters
      <4> QED
        BY <4>4, <4>5 DEF Releases, fifo_readable, fifo_writable, time_release, task_release
    <3> QED
      BY <3>2 DEF VisitedKept
  <2> QED
    BY <2>1, <2>3, <2>4 DEF Rest
<1>9. CASE EndEvent
  <2>1. /\ serving \in Events /\ at > Len(q[EventList(serving)])
        /\ pending' = [pending EXCEPT ![serving] = FALSE] /\ serving' = None
        /\ phase = "serve" /\ phase' = "serve" /\ q' = q /\ serving # None
    BY <1>9 DEF EndEvent, Waiters, TypeOK
  <2>2. /\ WaitersNotReady' /\ Fewer
        /\ \A e \in Events : \A t \in Pids : Releases(e, t)' <=> Releases(e, t)
    BY <1>5, <1>9 DEF EndEvent, Served
  <2>3. ServingOK' /\ VisitedKept' /\ Quiet' /\ CurrentReady'
    BY <2>1 DEF ServingOK, VisitedKept, Quiet, CurrentReady
  <2>4. \A t \in Pids : OnList(q, EventList(serving), t) => ~Releases(serving, t)
    <3>1. q[EventList(serving)] \in Seq(Pids)
      BY <2>1, Heads DEF TypeOK
    <3>2. ASSUME NEW j \in DOMAIN q[EventList(serving)]
          PROVE  ~Releases(serving, q[EventList(serving)][j])
      <4>0. at \in Nat
        BY DEF TypeOK
      <4>1. j \in 1 .. at - 1 /\ j <= Len(q[EventList(serving)])
        BY ONLY <2>1, <3>1, <3>2, <4>0, LenProperties
      <4> QED
        BY <2>1, <4>1 DEF VisitedKept
    <3> QED
      BY <3>2 DEF OnList, Range
  <2>5. \A e \in Events \ {serving} : pending'[e] = pending[e]
    BY <2>1 DEF TypeOK
  <2>6. NoLostWakeup'
    <3>1. ASSUME NEW e \in ConditionEvents, NEW t \in Pids,
                 OnList(q', EventList(e), t), Releases(e, t)'
          PROVE  pending'[e]
      <4>1. e \in Events /\ OnList(q, EventList(e), t) /\ Releases(e, t)
        BY <2>1, <2>2, <3>1, ConditionNumbers
      <4>2. e # serving
        BY <2>4, <4>1
      <4> QED
        BY <2>5, <4>1, <4>2 DEF NoLostWakeup
    <3> QED
      BY <3>1 DEF NoLostWakeup
  <2>7. IrqArmedOrPending'
    <3>1. ASSUME NEW i \in Irqs, NEW t \in Pids, OnList(q', EventList(INTR_EVENT(i)), t)
          PROVE  i \in enabled' \/ pending'[INTR_EVENT(i)]
      <4>1. INTR_EVENT(i) \in Events /\ Releases(INTR_EVENT(i), t)
        BY Handlers, Numbers
      <4>2. INTR_EVENT(i) # serving
        BY <2>1, <2>4, <3>1, <4>1
      <4>3. i \in enabled \/ pending[INTR_EVENT(i)]
        BY <2>1, <3>1 DEF IrqArmedOrPending
      <4> QED
        BY <1>9, <2>5, <4>1, <4>2, <4>3 DEF EndEvent, Served
    <3> QED
      BY <3>1 DEF IrqArmedOrPending
  <2> QED
    BY <2>2, <2>3, <2>6, <2>7 DEF Rest
<1> QED
  BY <1>2, <1>3, <1>4, <1>6, <1>7, <1>8, <1>9 DEF Serve

LEMMA SwitchStep ==
  ASSUME IInv, TypeOK', Switch
  PROVE  Rest'
<1> USE DEF IInv
<1>1. PICK p \in 0 .. PRIORITY_LIMIT : Select(p)
  BY DEF Switch
<1>2. /\ phase = "select" /\ phase' = "thread" /\ serving' = serving /\ status' = status
      /\ arg' = arg /\ pending' = pending /\ len' = len /\ enabled' = enabled
      /\ tick' = tick /\ q' = Rotated /\ inuse' = inuse
  BY <1>1 DEF Select, serveVars, tcbs
<1>3. ServingOK' /\ VisitedKept' /\ Quiet'
  BY <1>2, OutOfServeOK DEF OutOfServe, Quiet
<1>4. Fewer /\ Raised
  <2>1. CASE SliceOver
    <3>1. current \in Pids /\ priority[current] \in 0 .. PRIORITY_LIMIT
      BY DEF TypeOK
    <3>2. Moves(current, ReadyList(priority[current]))
      BY <1>2, <2>1 DEF Rotated, Moves
    <3> QED
      BY <1>2, <3>1, <3>2, ReadyDropped DEF Dropped, Fewer, Raised
  <2>2. CASE ~SliceOver
    BY <1>2, <2>2 DEF Rotated, Fewer, Raised
  <2> QED
    BY <2>1, <2>2
<1>5. WaitersNotReady' /\ NoLostWakeup' /\ IrqArmedOrPending'
  <2>1. WaitersNotReady'
    BY <1>2, <1>4 DEF WaitersNotReady, OnEventList, Fewer
  <2> QED
    BY <1>2, <1>4, <2>1, FewerQuiet, FewerArmed
<1>6. CurrentReady'
  <2>1. /\ q'[ReadyList(p)] # <<>> /\ current' = Head(q'[ReadyList(p)])
        /\ ReadyList(p) \in ListIds
    BY <1>1, Heads DEF Select, list_empty
  <2>2. OnList(q', ReadyList(p), current')
    <3>1. q'[ReadyList(p)] \in Seq(Pids)
      BY <2>1 DEF TypeOK
    <3>2. 1 \in DOMAIN q'[ReadyList(p)] /\ current' = q'[ReadyList(p)][1]
      BY <2>1, <3>1, EmptySeq, LenProperties
    <3> QED
      BY <3>2 DEF OnList, Range
  <2> QED
    BY <2>2 DEF CurrentReady, OnReadyList
<1> QED
  BY <1>3, <1>5, <1>6 DEF Rest

-----------------------------------------------------------------------------
(* The theorems *)

LEMMA NextIInv == IInv /\ [Next]_vars => IInv'
<1> SUFFICES ASSUME IInv, [Next]_vars
             PROVE  IInv'
  OBVIOUS
<1>1. TypeOK /\ OnOneList
  BY DEF IInv
<1>2. TypeOK'
  BY <1>1, TypeStep
<1>3. OnOneList'
  BY <1>1, OnOneListStep
<1>4. Rest'
  <2>1. CASE UNCHANGED vars
    BY <2>1 DEF vars, IInv, Rest, WaitersNotReady, ServingOK, VisitedKept, Quiet,
                NoLostWakeup, IrqArmedOrPending, CurrentReady, OnEventList, OnReadyList,
                Releases, fifo_readable, fifo_writable, time_release, task_release
  <2> QED
    BY <2>1, <1>2, SyscallStep, LifecycleStep, InterruptStep, ServeStep, SwitchStep
       DEF Next
<1> QED
  BY <1>2, <1>3, <1>4 DEF IInv, Rest

LEMMA Invariance == Spec => []IInv
<1>1. IInv /\ [Next]_vars => IInv'
  BY NextIInv
<1> QED
  BY InitIInv, <1>1, PTL DEF Spec

\* The state keeps its types; a pipe never holds more than PIPE_BUF - 1 bytes.
THEOREM TypeCorrect == Spec => []TypeOK
<1>1. IInv => TypeOK
  BY DEF IInv
<1> QED
  BY Invariance, <1>1, PTL

\* Every live task is on exactly one list of the kernel, every dead one on none.
THEOREM EachOnOneList == Spec => []OnOneList
<1>1. IInv => OnOneList
  BY DEF IInv
<1> QED
  BY Invariance, <1>1, PTL

\* setpriority never pulls a waiter off its event's list.
THEOREM WaitersStayPut == Spec => []WaitersNotReady
<1>1. IInv => WaitersNotReady
  BY DEF IInv
<1> QED
  BY Invariance, <1>1, PTL

\* A waiter that could go on is on the list of an event the next serve will
\* look at, however calls, ticks and scans interleave.
THEOREM WakeupsKept == Spec => []NoLostWakeup
<1>1. IInv => NoLostWakeup
  BY DEF IInv
<1> QED
  BY Invariance, <1>1, PTL

\* While threads run, nobody is blocked on a pipe that could serve it, event 0
\* excepted, nor asleep past its tick.
THEOREM NobodyLeftBlocked == Spec => []NoneLeftBlocked
<1>1. IInv => NoneLeftBlocked
  <2> SUFFICES ASSUME IInv, phase = "thread", NEW e \in ConditionEvents \ {0},
                      NEW t \in Pids, OnList(q, EventList(e), t), Releases(e, t)
               PROVE  FALSE
    BY DEF NoneLeftBlocked
  <2>1. pending[e]
    BY DEF IInv, NoLostWakeup
  <2>2. e \in 1 .. TIME_EVENT
    BY ConditionNumbers, Numbers, LimitsAssumption DEF Events
  <2> QED
    BY <2>1, <2>2 DEF IInv, Quiet
<1> QED
  BY Invariance, <1>1, PTL

\* A thread that waits for an interrupt waits on a line that is enabled.
THEOREM WaitedLinesArmed == Spec => []IrqArmed
<1>1. IInv => IrqArmed
  <2> SUFFICES ASSUME IInv, phase = "thread", NEW i \in Irqs,
                      q[EventList(INTR_EVENT(i))] # <<>>
               PROVE  i \in enabled
    BY DEF IrqArmed
  <2>1. INTR_EVENT(i) \in Events /\ INTR_EVENT(i) \in 1 .. TIME_EVENT
    BY Numbers, LimitsAssumption DEF Events
  <2>2. EventList(INTR_EVENT(i)) \in ListIds
    BY <2>1, Heads
  <2>3. \E t \in Pids : OnList(q, EventList(INTR_EVENT(i)), t)
    BY <2>2, FirstOnList DEF IInv
  <2>4. ~pending[INTR_EVENT(i)]
    BY <2>1 DEF IInv, Quiet
  <2> QED
    BY <2>3, <2>4 DEF IInv, IrqArmedOrPending
<1> QED
  BY Invariance, <1>1, PTL

-----------------------------------------------------------------------------
(* The idle task *)

LEMMA IdleStep ==
  ASSUME NEW i \in Pids \ (Callers \union Mortal), TypeOK, OnOneList,
         OnReadyList(i), [Next]_vars
  PROVE  OnReadyList(i)'
<1>0. PICK r \in 0 .. PRIORITY_LIMIT : OnList(q, ReadyList(r), i)
  BY DEF OnReadyList
<1>1. /\ ReadyList(r) \in ListIds /\ current \in Pids /\ Mortal \subseteq Pids
      /\ priority \in [Pids -> 0 .. PRIORITY_LIMIT]
  BY Heads, ProgramAssumption DEF TypeOK
<1> SUFFICES \E p \in 0 .. PRIORITY_LIMIT : OnList(q', ReadyList(p), i)
  BY DEF OnReadyList
<1>2. CASE q' = q
  BY <1>0, <1>2
<1>3. ASSUME NEW n \in Pids, NEW l \in ListIds, Moves(n, l), n # i
      PROVE  OnList(q', ReadyList(r), i)
  BY <1>0, <1>1, <1>3, Moved
<1>4. ASSUME NEW n \in Pids, NEW p \in 0 .. PRIORITY_LIMIT, Moves(n, ReadyList(p))
      PROVE  \E s \in 0 .. PRIORITY_LIMIT : OnList(q', ReadyList(s), i)
  <2>1. ReadyList(p) \in ListIds
    BY Heads
  <2> QED
    BY <1>3, <1>4, <2>1, Moved
<1>5. ASSUME NEW n \in Mortal, task_kill(n)
      PROVE  OnList(q', ReadyList(r), i)
  <2>1. n \in Pids /\ n # i /\ q' = list_remove(q, n)
    BY <1>1, <1>5 DEF task_kill
  <2>2. \A k \in ListIds : \A m : OnList(q', k, m) <=> m # n /\ OnList(q, k, m)
    BY <2>1, ListRemove DEF TypeOK, OnOneList
  <2> QED
    BY <1>0, <1>1, <2>1, <2>2
<1>6. ASSUME NEW e \in Events, NEW a, Call, event_monitor_block(e, a)
      PROVE  \E p \in 0 .. PRIORITY_LIMIT : OnList(q', ReadyList(p), i)
  <2>1. current # i
    BY <1>6 DEF Call
  <2>2. q' = q \/ \E l \in ListIds : Moves(current, l)
    BY <1>6, BlockShape
  <2> QED
    BY <1>1, <1>2, <1>3, <2>1, <2>2
<1>7. CASE Syscall
  <2>1. ASSUME NEW fd \in Fds, NEW size \in Sizes, Read(fd, size) \/ Write(fd, size)
        PROVE  \E p \in 0 .. PRIORITY_LIMIT : OnList(q', ReadyList(p), i)
    <3>1. \/ q' = q
          \/ Call /\ event_monitor_block(ReadEvent(fd), size)
          \/ Call /\ event_monitor_block(WriteEvent(fd), size)
      BY <2>1 DEF Read, Write, AcceptFile, BlockFile
    <3> QED
      BY <3>1, <1>2, <1>6, Numbers
  <2>2. CASE FileError \/ OtherCall
    BY <2>2, <1>2 DEF FileError, OtherCall
  <2>3. ASSUME NEW j \in Irqs, InterruptWait(j)
        PROVE  \E p \in 0 .. PRIORITY_LIMIT : OnList(q', ReadyList(p), i)
    BY <2>3, <1>6, Numbers DEF InterruptWait
  <2>4. ASSUME NEW ticks \in SleepTimes, Sleep(ticks)
        PROVE  \E p \in 0 .. PRIORITY_LIMIT : OnList(q', ReadyList(p), i)
    BY <2>4, <1>6, Numbers DEF Sleep
  <2>5. ASSUME NEW pid \in Mortal, TaskBlock(pid)
        PROVE  \E p \in 0 .. PRIORITY_LIMIT : OnList(q', ReadyList(p), i)
    BY <2>5, <1>1, <1>6, Numbers DEF TaskBlock
  <2>6. ASSUME NEW value \in Priorities, SetOwnPriority(value)
        PROVE  \E p \in 0 .. PRIORITY_LIMIT : OnList(q', ReadyList(p), i)
    <3>1. Moves(current, ReadyList(Clamp(value))) /\ Clamp(value) \in 0 .. PRIORITY_LIMIT
      BY <2>6, Clamped, ProgramAssumption DEF SetOwnPriority, Moves
    <3> QED
      BY <1>1, <1>4, <3>1
  <2>7. ASSUME NEW value \in Priorities, NEW who \in Pids, SetPriority(who, value)
        PROVE  \E p \in 0 .. PRIORITY_LIMIT : OnList(q', ReadyList(p), i)
    <3>1. q' = q \/ Moves(who, ReadyList(Clamp(value)))
      BY <2>7 DEF SetPriority, Moves
    <3>2. Clamp(value) \in 0 .. PRIORITY_LIMIT
      BY Clamped, ProgramAssumption
    <3> QED
      BY <1>2, <1>4, <3>1, <3>2
  <2> QED
    BY <1>7, <2>1, <2>2, <2>3, <2>4, <2>5, <2>6, <2>7 DEF Syscall
<1>8. CASE Lifecycle
  <2>1. ASSUME NEW p \in SpawnPriorities, Create(p)
        PROVE  \E s \in 0 .. PRIORITY_LIMIT : OnList(q', ReadyList(s), i)
    <3>1. PICK n \in Pids : Moves(n, ReadyList(p))
      BY <1>1, <2>1 DEF Create, Moves
    <3> QED
      BY <1>4, <3>1, ProgramAssumption
  <2> QED
    BY <1>5, <1>8, <2>1 DEF Lifecycle, Exit, Cancel
<1>9. CASE Tick \/ \E j \in Irqs : Irq(j)
  BY <1>2, <1>9 DEF Tick, Irq, EnterPendSV
<1>10. CASE Serve
  <2>1. ASSUME Visit, Wake(Waiter)
        PROVE  \E p \in 0 .. PRIORITY_LIMIT : OnList(q', ReadyList(p), i)
    BY <2>1, <1>1, <1>4, VisitFacts DEF Wake, Moves
  <2>2. CASE (\E fd \in Fds : WakeReader(fd) \/ WakeWriter(fd)) \/ WakeOther
    BY <2>1, <2>2 DEF WakeReader, WakeWriter, WakeOther
  <2>3. CASE (\E e \in Events : ServeEvent(e)) \/ ServeDone \/ KeepWaiter \/ EndEvent
    BY <1>2, <2>3 DEF ServeEvent, ServeDone, KeepWaiter, EndEvent
  <2> QED
    BY <1>10, <2>2, <2>3 DEF Serve
<1>11. CASE Switch
  <2>1. q' = q \/ Moves(current, ReadyList(priority[current]))
    BY <1>11 DEF Switch, Select, Rotated, Moves
  <2> QED
    BY <1>1, <1>2, <1>4, <2>1
<1>12. CASE UNCHANGED vars
  BY <1>2, <1>12 DEF vars
<1> QED
  BY <1>7, <1>8, <1>9, <1>10, <1>11, <1>12 DEF Next

\* With one task that the boot makes and whose program makes no system call
\* and is no pthread, context_switch always finds a task to run: its
\* scan of ready_list, which has no bound, ends inside the array.
THEOREM AlwaysSomethingReady ==
  ASSUME NEW i \in Pids \ (Callers \union Mortal)
  PROVE  Spec => []SomethingReady
<1>1. Init => OnReadyList(i)
  <2> SUFFICES ASSUME Init
               PROVE  OnReadyList(i)
    OBVIOUS
  <2>1. PICK p \in 0 .. PRIORITY_LIMIT : OnList(Boot, p, i)
    BY ProgramAssumption DEF Linked
  <2>2. q[ReadyList(p)] = Boot[p]
    BY Heads, LimitsAssumption DEF Init, ReadyList, ListIds
  <2> QED
    BY <2>1, <2>2 DEF OnReadyList, OnList
<1>2. TypeOK /\ OnOneList /\ OnReadyList(i) /\ [Next]_vars => OnReadyList(i)'
  BY IdleStep
<1>3. OnReadyList(i) => SomethingReady
  BY DEF OnReadyList, SomethingReady, OnList, list_empty, Range
<1> QED
  BY <1>1, <1>2, <1>3, TypeCorrect, EachOnOneList, PTL DEF Spec

-----------------------------------------------------------------------------
(* Which ready list a task is on, and the running task's place there.  A    *)
(* slot given to a new thread keeps the status of the dead one: here no     *)
(* thread dies.                                                             *)

InPlace ==
  \A t \in Pids, p \in 0 .. PRIORITY_LIMIT :
    OnList(q, ReadyList(p), t) <=> status[t] = "READY" /\ priority[t] = p

LEMMA ReadyHeads ==
  \A p, r \in 0 .. PRIORITY_LIMIT : ReadyList(p) = ReadyList(r) => p = r
BY DEF ReadyList

\* Nothing but n changed, and n is where its status says.
LEMMA PlaceOfOne ==
  ASSUME TypeOK, OnOneList, InPlace, NEW n \in Pids, NEW l \in ListIds, Moves(n, l),
         \A t \in Pids \ {n} : status'[t] = status[t] /\ priority'[t] = priority[t],
         \A p \in 0 .. PRIORITY_LIMIT :
           ReadyList(p) = l <=> status'[n] = "READY" /\ priority'[n] = p
  PROVE  InPlace'
<1> SUFFICES ASSUME NEW t \in Pids, NEW p \in 0 .. PRIORITY_LIMIT
             PROVE  OnList(q', ReadyList(p), t) <=> status'[t] = "READY" /\ priority'[t] = p
  BY DEF InPlace
<1>1. OnList(q', ReadyList(p), t) <=> IF t = n THEN ReadyList(p) = l
                                              ELSE OnList(q, ReadyList(p), t)
  BY Heads, Moved
<1> QED
  BY <1>1 DEF InPlace

LEMMA PlaceReady ==
  ASSUME TypeOK, OnOneList, InPlace, NEW n \in Pids, NEW p \in 0 .. PRIORITY_LIMIT,
         Moves(n, ReadyList(p)),
         status' = [status EXCEPT ![n] = "READY"],
         priority' = [priority EXCEPT ![n] = p]
  PROVE  InPlace'
<1>1. \A t \in Pids \ {n} : status'[t] = status[t] /\ priority'[t] = priority[t]
  BY DEF TypeOK
<1>2. status'[n] = "READY" /\ priority'[n] = p /\ ReadyList(p) \in ListIds
  BY Heads DEF TypeOK
<1> QED
  BY <1>1, <1>2, ReadyHeads, PlaceOfOne

LEMMA PlaceBlocked ==
  ASSUME TypeOK, OnOneList, InPlace, status[current] = "READY",
         NEW e \in Events, NEW a, event_monitor_block(e, a), UNCHANGED priority,
         NEW s \in Statuses \ {"READY"}, SetStatus(s)
  PROVE  InPlace'
<1>1. current \in Pids /\ status \in [Pids -> Statuses]
  BY DEF TypeOK
<1>2. Moves(current, EventList(e)) /\ EventList(e) \in ListIds
  BY Heads DEF event_monitor_block, Moves
<1>3. \A t \in Pids \ {current} : status'[t] = status[t]
  BY <1>1 DEF SetStatus
<1>4. status'[current] # "READY"
  BY <1>1 DEF SetStatus
<1> QED
  BY <1>1, <1>2, <1>3, <1>4, Heads, PlaceOfOne

LEMMA InPlaceStep ==
  ASSUME IInv, InPlace, Mortal = {}, [Next]_vars
  PROVE  InPlace'
<1>1. TypeOK /\ OnOneList /\ current \in Pids
  BY DEF IInv, TypeOK
<1>2. ASSUME UNCHANGED <<q, status, priority>>
      PROVE  InPlace'
  BY <1>2 DEF InPlace
<1>3. phase = "thread" /\ inuse[current] => status[current] = "READY"
  BY <1>1 DEF IInv, CurrentReady, OnReadyList, InPlace
<1>4. CASE Syscall
  <2>0. phase = "thread" /\ status[current] = "READY"
    BY <1>3, <1>4 DEF Syscall, Read, Write, FileError, InterruptWait, Sleep, TaskBlock,
       SetOwnPriority, SetPriority, OtherCall, Call
  <2>1. ASSUME SetStatus("READY")
        PROVE  status' = status
    BY <2>0, <2>1, <1>1 DEF SetStatus, TypeOK
  <2>2. ASSUME NEW fd \in Fds, NEW size \in Sizes, Read(fd, size)
        PROVE  InPlace'
    <3>1. CASE UNCHANGED q /\ SetStatus("READY") /\ UNCHANGED priority
      BY <3>1, <2>1, <1>2
    <3>2. CASE /\ event_monitor_block(ReadEvent(fd), size) /\ UNCHANGED priority
               /\ SetStatus("WAIT_READ")
      BY <3>2, <2>0, <1>1, Numbers, PlaceBlocked DEF Statuses
    <3> QED
      BY <2>0, <2>2, <3>1, <3>2 DEF Read, AcceptFile, BlockFile
  <2>3. ASSUME NEW fd \in Fds, NEW size \in Sizes, Write(fd, size)
        PROVE  InPlace'
    <3>1. CASE UNCHANGED q /\ SetStatus("READY") /\ UNCHANGED priority
      BY <3>1, <2>1, <1>2
    <3>2. CASE /\ event_monitor_block(WriteEvent(fd), size) /\ UNCHANGED priority
               /\ SetStatus("WAIT_WRITE")
      BY <3>2, <2>0, <1>1, Numbers, PlaceBlocked DEF Statuses
    <3> QED
      BY <2>0, <2>3, <3>1, <3>2 DEF Write, AcceptFile, BlockFile
  <2>4. CASE FileError
    BY <2>4, <2>1, <1>2 DEF FileError
  <2>5. ASSUME NEW i \in Irqs, InterruptWait(i)
        PROVE  InPlace'
    BY <2>5, <2>0, <1>1, Numbers, PlaceBlocked DEF InterruptWait, Statuses
  <2>6. ASSUME NEW ticks \in SleepTimes, Sleep(ticks)
        PROVE  InPlace'
    BY <2>6, <2>0, <1>1, Numbers, PlaceBlocked DEF Sleep, Statuses
  <2>7. ASSUME NEW value \in Priorities, SetOwnPriority(value)
        PROVE  InPlace'
    <3>1. /\ Moves(current, ReadyList(Clamp(value)))
          /\ Clamp(value) \in 0 .. PRIORITY_LIMIT
      BY <2>7, Clamped, ProgramAssumption DEF SetOwnPriority, Moves
    <3>2. status' = [status EXCEPT ![current] = "READY"]
      BY <2>7, <2>0, <1>1 DEF SetOwnPriority, TypeOK
    <3> QED
      BY <2>7, <3>1, <3>2, <1>1, PlaceReady DEF SetOwnPriority
  <2>8. ASSUME NEW value \in Priorities, NEW who \in Pids, SetPriority(who, value)
        PROVE  InPlace'
    <3>1. /\ Clamp(value) \in 0 .. PRIORITY_LIMIT
          /\ priority' = [priority EXCEPT ![who] = Clamp(value)] /\ status' = status
      BY <2>8, Clamped, ProgramAssumption DEF SetPriority
    <3>2. CASE status[who] = "READY"
      <4>1. status' = [status EXCEPT ![who] = "READY"] /\ Moves(who, ReadyList(Clamp(value)))
        BY <2>8, <3>1, <3>2, <1>1 DEF SetPriority, Moves, TypeOK
      <4> QED
        BY <4>1, <3>1, <1>1, PlaceReady
    <3>3. CASE status[who] # "READY"
      <4>1. q' = q /\ \A t \in Pids \ {who} : priority'[t] = priority[t]
        BY <2>8, <3>1, <3>3, <1>1 DEF SetPriority, TypeOK
      <4> QED
        BY <4>1, <3>1, <3>3 DEF InPlace
    <3> QED
      BY <3>2, <3>3
  <2>9. CASE OtherCall
    BY <2>9, <1>2 DEF OtherCall
  <2> QED
    BY <1>4, <2>2, <2>3, <2>4, <2>5, <2>6, <2>7, <2>8, <2>9 DEF Syscall
<1>5. ~Lifecycle
  BY <1>1, ProgramAssumption DEF Lifecycle, Create, Exit, Cancel
<1>6. CASE Tick \/ \E i \in Irqs : Irq(i)
  BY <1>6, <1>2 DEF Tick, Irq, EnterPendSV
<1>7. CASE Serve
  <2>1. ASSUME Visit, Wake(Waiter)
        PROVE  InPlace'
    <3>1. Waiter \in Pids /\ priority[Waiter] \in 0 .. PRIORITY_LIMIT
      BY <2>1, <1>1, VisitFacts DEF TypeOK
    <3>2. priority' = [priority EXCEPT ![Waiter] = priority[Waiter]]
      BY <2>1, <1>1, <3>1 DEF Wake, Served, TypeOK
    <3> QED
      BY <2>1, <3>1, <3>2, <1>1, PlaceReady DEF Wake, Moves
  <2>2. CASE (\E fd \in Fds : WakeReader(fd) \/ WakeWriter(fd)) \/ WakeOther
    BY <2>1, <2>2 DEF WakeReader, WakeWriter, WakeOther
  <2>3. CASE (\E e \in Events : ServeEvent(e)) \/ ServeDone \/ KeepWaiter \/ EndEvent
    BY <2>3, <1>2 DEF ServeEvent, ServeDone, KeepWaiter, EndEvent, Served
  <2> QED
    BY <1>7, <2>2, <2>3 DEF Serve
<1>8. CASE Switch
  <2>1. status' = status /\ priority' = priority /\ q' = Rotated
    BY <1>8 DEF Switch, Select, tcbs
  <2>2. CASE SliceOver
    <3>1. priority[current] \in 0 .. PRIORITY_LIMIT
      BY <1>1 DEF TypeOK
    <3>2. OnList(q, ReadyList(priority[current]), current)
      BY <2>2, <3>1, <1>1, Heads, FirstOnList DEF SliceOver, IsFirst, list_empty
    <3>3. /\ status' = [status EXCEPT ![current] = "READY"]
          /\ priority' = [priority EXCEPT ![current] = priority[current]]
      BY <2>1, <3>1, <3>2, <1>1 DEF InPlace, TypeOK
    <3>4. Moves(current, ReadyList(priority[current]))
      BY <2>1, <2>2 DEF Rotated, Moves
    <3> QED
      BY <3>1, <3>3, <3>4, <1>1, PlaceReady
  <2>3. CASE ~SliceOver
    BY <2>1, <2>3, <1>2 DEF Rotated
  <2> QED
    BY <2>2, <2>3
<1>9. CASE UNCHANGED vars
  BY <1>9, <1>2 DEF vars
<1> QED
  BY <1>4, <1>5, <1>6, <1>7, <1>8, <1>9 DEF Next

LEMMA InitInPlace ==
  ASSUME Mortal = {}, Init
  PROVE  InPlace
<1>1. /\ OnePlace(Boot) /\ DOMAIN Boot = 0 .. PRIORITY_LIMIT
      /\ \A t \in Pids : Linked(Boot, t)
  BY ProgramAssumption
<1>2. \A t \in Pids : /\ status[t] = "READY" /\ priority[t] \in 0 .. PRIORITY_LIMIT
                      /\ OnList(Boot, priority[t], t)
  BY <1>1 DEF Init
<1>3. \A p \in 0 .. PRIORITY_LIMIT : q[ReadyList(p)] = Boot[p]
  BY Heads, LimitsAssumption DEF Init, ReadyList, ListIds
<1> SUFFICES ASSUME NEW t \in Pids, NEW p \in 0 .. PRIORITY_LIMIT
             PROVE  OnList(Boot, p, t) <=> priority[t] = p
  BY <1>2, <1>3 DEF InPlace, OnList
<1>4. ASSUME OnList(Boot, p, t)
      PROVE  priority[t] = p
  BY <1>1, <1>2, <1>4 DEF OnePlace, OnList, Range
<1> QED
  BY <1>2, <1>4

LEMMA PlacesInvariance ==
  ASSUME Mortal = {}
  PROVE  Spec => []InPlace
<1>1. Init => InPlace
  BY InitInPlace
<1>2. IInv /\ InPlace /\ [Next]_vars => InPlace'
  BY InPlaceStep
<1> QED
  BY <1>1, <1>2, Invariance, PTL DEF Spec

\* If no thread ever dies, a task that is TASK_READY is on the ready list of its
\* present priority, whichever calls, releases and setpriority moved it there.
THEOREM ReadyWhereLookedFor ==
  ASSUME Mortal = {}
  PROVE  Spec => []ReadyAtPriority
<1>1. TypeOK /\ InPlace => ReadyAtPriority
  BY DEF TypeOK, InPlace, ReadyAtPriority
<1> QED
  BY <1>1, PlacesInvariance, TypeCorrect, PTL

LEMMA HeadInRange ==
  ASSUME NEW S, NEW s \in Seq(S), s # <<>>
  PROVE  Head(s) \in Range(s)
<1>1. 1 \in DOMAIN s /\ Head(s) = s[1]
  BY EmptySeq, LenProperties
<1> QED
  BY <1>1 DEF Range

\* Only context_switch returns to a thread.
LEMMA FirstStep ==
  ASSUME Mortal = {}, TypeOK, OnOneList, InPlace, CurrentIsFirst, [Next]_vars
  PROVE  TypeOK' /\ InPlace' => CurrentIsFirst'
<1> SUFFICES ASSUME TypeOK', InPlace', phase' = "thread", (inuse[current])'
             PROVE  IsFirst(q, ReadyList(priority[current]), current)'
  BY DEF CurrentIsFirst
<1>1. CASE Switch
  <2>1. PICK p \in 0 .. PRIORITY_LIMIT : Select(p)
    BY <1>1 DEF Switch
  <2>2. q'[ReadyList(p)] # <<>> /\ Head(q'[ReadyList(p)]) = current'
    BY <2>1 DEF Select, list_empty
  <2>3. q'[ReadyList(p)] \in Seq(Pids) /\ current' \in Pids
    BY Heads DEF TypeOK
  <2>4. OnList(q', ReadyList(p), current')
    BY <2>2, <2>3, HeadInRange DEF OnList
  <2>5. (priority[current])' = p
    BY <2>3, <2>4 DEF InPlace
  <2> QED
    BY <2>2, <2>5 DEF IsFirst, list_empty
<1>2. CASE UNCHANGED vars
  <2>1. UNCHANGED <<q, priority, current>> /\ phase = "thread" /\ inuse[current]
    BY <1>2 DEF vars
  <2> QED
    BY <2>1 DEF CurrentIsFirst
<1>3. ~Lifecycle
  BY ProgramAssumption DEF Lifecycle, Create, Exit, Cancel, TypeOK
<1>4. ~Syscall
  BY DEF Syscall, Read, Write, FileError, InterruptWait, Sleep, TaskBlock,
     SetOwnPriority, SetPriority, OtherCall, Call
<1>5. ~Tick /\ ~\E i \in Irqs : Irq(i)
  BY DEF Tick, Irq, EnterPendSV
<1>6. ~Serve
  BY DEF Serve, ServeEvent, ServeDone, WakeReader, WakeWriter, WakeOther, KeepWaiter,
     EndEvent, Visit, Wake
<1> QED
  BY <1>1, <1>2, <1>3, <1>4, <1>5, <1>6 DEF Next

\* If no thread ever dies, and task 0 is the first of its priority that the boot
\* makes, the thread that runs is the first on the ready list of its priority:
\* a tick takes the processor from it.
THEOREM RunningIsFirst ==
  ASSUME Mortal = {}, \E p \in 0 .. PRIORITY_LIMIT : IsFirst(Boot, p, 0)
  PROVE  Spec => []CurrentIsFirst
<1>1. TypeOK /\ OnOneList /\ InPlace /\ CurrentIsFirst /\ [Next]_vars
        /\ TypeOK' /\ InPlace' => CurrentIsFirst'
  BY FirstStep
<1>2. Init => CurrentIsFirst
  <2> SUFFICES ASSUME Init
               PROVE  CurrentIsFirst
    OBVIOUS
  <2>1. PICK p \in 0 .. PRIORITY_LIMIT : IsFirst(Boot, p, 0)
    OBVIOUS
  <2>2. q[ReadyList(p)] = Boot[p] /\ current = 0 /\ 0 \in Pids
    <3>1. q[ReadyList(p)] = Boot[p]
      BY Heads, LimitsAssumption DEF Init, ReadyList, ListIds
    <3> QED
      BY <3>1, LimitsAssumption DEF Init, Pids
  <2>3. Boot[p] \in Seq(Pids) /\ Boot[p] # <<>> /\ Head(Boot[p]) = 0
    BY <2>1, ProgramAssumption DEF IsFirst, list_empty
  <2>4. OnList(q, ReadyList(p), 0)
    BY <2>2, <2>3, HeadInRange DEF OnList
  <2>5. priority[0] = p
    BY <2>2, <2>4, InitInPlace DEF InPlace
  <2> QED
    BY <2>2, <2>3, <2>5 DEF CurrentIsFirst, IsFirst, list_empty
<1> QED
  BY <1>1, <1>2, PlacesInvariance, TypeCorrect, EachOnOneList, PTL DEF Spec

-----------------------------------------------------------------------------
(* FIFO calls implement AtomicPipes *)

InRead(fd, t) == OnList(q, EventList(ReadEvent(fd)), t)
InWrite(fd, t) == OnList(q, EventList(WriteEvent(fd)), t)
InCall(t) == \E fd \in Fds : InRead(fd, t) \/ InWrite(fd, t)

ReadCall(fd, size) == [op |-> "read", fd |-> fd, size |-> size]
WriteCall(fd, size) == [op |-> "write", fd |-> fd, size |-> size]

\* A task is on one list only, so the mapping reads its call off that list.
MappedCalls ==
  \A t \in Pids :
    /\ \A fd \in Fds : /\ InRead(fd, t) => WaitingIn(t) = ReadCall(fd, arg[t])
                       /\ InWrite(fd, t) => WaitingIn(t) = WriteCall(fd, arg[t])
    /\ ~InCall(t) => WaitingIn(t) = Pipes!NoCall

LEMMA CallsMapped == TypeOK /\ OnOneList => MappedCalls
<1> SUFFICES ASSUME TypeOK, OnOneList, NEW t \in Pids
             PROVE  /\ \A fd \in Fds : /\ InRead(fd, t) => WaitingIn(t) = ReadCall(fd, arg[t])
                                       /\ InWrite(fd, t) => WaitingIn(t) = WriteCall(fd, arg[t])
                    /\ ~InCall(t) => WaitingIn(t) = Pipes!NoCall
  BY DEF MappedCalls
<1> DEFINE blocking == {fd \in Fds : InRead(fd, t) \/ InWrite(fd, t)}
<1>0. (\E fd \in Fds : InRead(fd, t) \/ InWrite(fd, t)) => inuse[t]
  <2>1. DOMAIN q = ListIds /\ \A fd \in Fds : /\ EventList(ReadEvent(fd)) \in ListIds
                                            /\ EventList(WriteEvent(fd)) \in ListIds
    BY Numbers, Heads DEF TypeOK
  <2> QED
    BY <2>1 DEF OnOneList, Linked, InRead, InWrite
<1>1. /\ blocking = {} => WaitingIn(t) = [op |-> "none"]
      /\ blocking # {} =>
           WaitingIn(t) = [op |-> IF InRead(CHOOSE f \in blocking : TRUE, t)
                                  THEN "read" ELSE "write",
                           fd |-> CHOOSE f \in blocking : TRUE, size |-> arg[t]]
  BY <1>0 DEF WaitingIn, InRead, InWrite
<1>2. ASSUME NEW fd \in Fds, NEW g \in Fds, InRead(fd, t)
      PROVE  ~InWrite(g, t) /\ (InRead(g, t) => g = fd)
  BY <1>2, OneListOnly, Numbers, Heads DEF InRead, InWrite
<1>3. ASSUME NEW fd \in Fds, NEW g \in Fds, InWrite(fd, t)
      PROVE  ~InRead(g, t) /\ (InWrite(g, t) => g = fd)
  BY <1>3, OneListOnly, Numbers, Heads DEF InRead, InWrite
<1>4. ASSUME NEW fd \in Fds, InRead(fd, t)
      PROVE  WaitingIn(t) = ReadCall(fd, arg[t])
  <2>1. blocking = {fd}
    BY <1>2, <1>4
  <2>2. (CHOOSE f \in blocking : TRUE) = fd
    BY <2>1
  <2> QED
    BY <1>1, <1>4, <2>1, <2>2 DEF ReadCall
<1>5. ASSUME NEW fd \in Fds, InWrite(fd, t)
      PROVE  WaitingIn(t) = WriteCall(fd, arg[t])
  <2>1. blocking = {fd} /\ ~InRead(fd, t)
    BY <1>3, <1>5
  <2>2. (CHOOSE f \in blocking : TRUE) = fd
    BY <2>1
  <2> QED
    BY <1>1, <1>5, <2>1, <2>2 DEF WriteCall
<1>6. ASSUME ~InCall(t)
      PROVE  WaitingIn(t) = Pipes!NoCall
  BY <1>1, <1>6 DEF InCall, Pipes!NoCall
<1> QED
  BY <1>4, <1>5, <1>6

LEMMA CallsMappedNext == TypeOK' /\ OnOneList' => MappedCalls'
BY CallsMapped, PTL

\* Every task but n is in the call it was in
OthersStay(n) ==
  \A t \in Pids \ {n} :
    /\ arg'[t] = arg[t]
    /\ \A fd \in Fds : /\ InRead(fd, t)' <=> InRead(fd, t)
                       /\ InWrite(fd, t)' <=> InWrite(fd, t)

LEMMA OthersKeepCalls ==
  ASSUME MappedCalls, MappedCalls', NEW n, OthersStay(n), NEW t \in Pids \ {n}
  PROVE  WaitingIn(t)' = WaitingIn(t)
<1>1. InCall(t)' <=> InCall(t)
  BY DEF OthersStay, InCall
<1>2. CASE ~InCall(t)
  BY <1>1, <1>2 DEF MappedCalls, Pipes!NoCall
<1>3. CASE InCall(t)
  <2>1. PICK fd \in Fds : InRead(fd, t) \/ InWrite(fd, t)
    BY <1>3 DEF InCall
  <2>2. arg'[t] = arg[t]
    BY DEF OthersStay
  <2>3. CASE InRead(fd, t)
    <3>1. InRead(fd, t)'
      BY <2>3 DEF OthersStay
    <3>2. WaitingIn(t) = ReadCall(fd, arg[t]) /\ WaitingIn(t)' = ReadCall(fd, arg'[t])
      BY <2>3, <3>1 DEF MappedCalls, ReadCall
    <3> QED
      BY <3>2, <2>2
  <2>4. CASE InWrite(fd, t)
    <3>1. InWrite(fd, t)'
      BY <2>4 DEF OthersStay
    <3>2. WaitingIn(t) = WriteCall(fd, arg[t]) /\ WaitingIn(t)' = WriteCall(fd, arg'[t])
      BY <2>4, <3>1 DEF MappedCalls, WriteCall
    <3> QED
      BY <3>2, <2>2
  <2> QED
    BY <2>1, <2>3, <2>4
<1> QED
  BY <1>2, <1>3

\* How the mapped call of a task that moves changes
LEMMA MovedCalls ==
  ASSUME TypeOK, OnOneList, NEW n \in Pids, NEW l \in ListIds, Moves(n, l),
         \A t \in Pids \ {n} : arg'[t] = arg[t]
  PROVE  /\ OthersStay(n)
         /\ \A fd \in Fds : /\ InRead(fd, n)' <=> l = EventList(ReadEvent(fd))
                            /\ InWrite(fd, n)' <=> l = EventList(WriteEvent(fd))
<1>1. \A fd \in Fds : /\ EventList(ReadEvent(fd)) \in ListIds
                      /\ EventList(WriteEvent(fd)) \in ListIds
  BY Numbers, Heads
<1>2. \A k \in ListIds : \A m :
        OnList(q', k, m) <=> IF m = n THEN k = l ELSE OnList(q, k, m)
  BY Moved
<1> QED
  BY <1>1, <1>2 DEF OthersStay, InRead, InWrite

\* What the steps mean to AtomicPipes
NoStep == \A t \in Pids : WaitingIn(t)' = WaitingIn(t)
CallStep(n, c) == /\ \A t \in Pids \ {n} : WaitingIn(t)' = WaitingIn(t)
                  /\ WaitingIn(n)' = c

CallsAlone == /\ UNCHANGED [t \in Pids |-> WaitingIn(t)]
              /\ UNCHANGED len

LEMMA NoStepAlone ==
  ASSUME NoStep, len' = len
  PROVE  CallsAlone
BY DEF NoStep, CallsAlone

LEMMA EnterStep ==
  ASSUME TypeOK, CallsAlone, phase = "thread", phase' = "serve"
  PROVE  Pipes!Next
<1>1. Running \in Pids /\ Running # None /\ Running' = None
  BY Numbers DEF TypeOK, Running, None, Pids
<1> QED
  BY <1>1 DEF CallsAlone, Pipes!Next, Pipes!Enter

LEMMA AloneStutters ==
  ASSUME CallsAlone, Running' = Running
  PROVE  UNCHANGED Pipes!vars
BY DEF CallsAlone, Pipes!vars

LEMMA CallStepUpdates ==
  ASSUME NEW n \in Pids, NEW c, CallStep(n, c)
  PROVE  [t \in Pids |-> WaitingIn(t)]' = [[t \in Pids |-> WaitingIn(t)] EXCEPT ![n] = c]
BY DEF CallStep

\* A task in no FIFO call goes to a list of no FIFO: nothing happens to the calls.
LEMMA AsideStutters ==
  ASSUME TypeOK, OnOneList, TypeOK', OnOneList', NEW n \in Pids, NEW l \in ListIds,
         Moves(n, l), \A t \in Pids \ {n} : arg'[t] = arg[t], ~InCall(n),
         \A fd \in Fds : l # EventList(ReadEvent(fd)) /\ l # EventList(WriteEvent(fd))
  PROVE  NoStep
<1>1. MappedCalls /\ MappedCalls'
  BY CallsMapped, CallsMappedNext
<1>2. OthersStay(n) /\ ~InCall(n)'
  BY MovedCalls DEF InCall
<1>3. WaitingIn(n)' = Pipes!NoCall /\ WaitingIn(n) = Pipes!NoCall
  BY <1>1, <1>2 DEF MappedCalls, Pipes!NoCall
<1> QED
  BY <1>1, <1>2, <1>3, OthersKeepCalls DEF NoStep

\* A task leaves its call for a ready list, or for none.
LEMMA LeaverFree ==
  ASSUME TypeOK, OnOneList, TypeOK', OnOneList', NEW n \in Pids,
         \A t \in Pids \ {n} : arg'[t] = arg[t],
         \/ \E p \in 0 .. PRIORITY_LIMIT : Moves(n, ReadyList(p))
         \/ q' = list_remove(q, n)
  PROVE  CallStep(n, Pipes!NoCall)
<1>1. MappedCalls /\ MappedCalls'
  BY CallsMapped, CallsMappedNext
<1>2. OthersStay(n) /\ ~InCall(n)'
  <2>1. ASSUME NEW p \in 0 .. PRIORITY_LIMIT, Moves(n, ReadyList(p))
        PROVE  OthersStay(n) /\ ~InCall(n)'
    <3>1. ReadyList(p) \in ListIds
      BY Heads
    <3>2. \A fd \in Fds : /\ ReadyList(p) # EventList(ReadEvent(fd))
                          /\ ReadyList(p) # EventList(WriteEvent(fd))
      BY Numbers, Heads
    <3> QED
      BY <2>1, <3>1, <3>2, MovedCalls DEF InCall
  <2>2. CASE q' = list_remove(q, n)
    <3>1. \A k \in ListIds : \A m : OnList(q', k, m) <=> m # n /\ OnList(q, k, m)
      BY <2>2, ListRemove DEF TypeOK, OnOneList
    <3>2. \A fd \in Fds : /\ EventList(ReadEvent(fd)) \in ListIds
                          /\ EventList(WriteEvent(fd)) \in ListIds
      BY Numbers, Heads
    <3> QED
      BY <3>1, <3>2 DEF OthersStay, InCall, InRead, InWrite
  <2> QED
    BY <2>1, <2>2
<1>3. WaitingIn(n)' = Pipes!NoCall
  BY <1>1, <1>2 DEF MappedCalls, Pipes!NoCall
<1> QED
  BY <1>1, <1>2, <1>3, OthersKeepCalls DEF CallStep

LEMMA ReadingStep ==
  ASSUME IInv, IInv', NEW fd \in Fds, NEW size \in Sizes, Read(fd, size)
  PROVE  Pipes!Next
<1> DEFINE c == ReadCall(fd, size)
<1>0. PICK n \in Pids : n = current
  BY DEF IInv, TypeOK
<1>1. /\ TypeOK /\ OnOneList /\ TypeOK' /\ OnOneList' /\ MappedCalls /\ MappedCalls'
      /\ current \in Pids /\ len \in [Fds -> 0 .. PIPE_BUF - 1] /\ size \in Nat
      /\ EventList(ReadEvent(fd)) \in ListIds
  BY CallsMapped, CallsMappedNext, ProgramAssumption, Numbers, Heads DEF IInv, TypeOK
<1>8. /\ phase = "thread" /\ phase' = "serve"
      /\ Running = current /\ Running' = None /\ current # None
  BY <1>1, Numbers DEF Read, Call, Running, None, Pids
<1>2. ~InCall(current) /\ WaitingIn(current) = Pipes!NoCall
  <2>1. \A e \in Events : ~OnList(q, EventList(e), current)
    BY CurrentNoWaiter DEF IInv, Read, Call
  <2> QED
    BY <2>1, <1>1, Numbers DEF InCall, InRead, InWrite, MappedCalls
<1>3. c \in Pipes!Calls /\ c.op = "read" /\ c.fd = fd /\ c.size = size
  BY DEF Pipes!Calls, ReadCall
<1>4. Pipes!After(c) = len[fd] - size
  BY <1>1, <1>3 DEF Pipes!After
<1>5. CASE fifo_readable(fd, size) /\ AcceptFile(fd, len[fd] - size, WriteEvent(fd))
  <2>1. UNCHANGED [t \in Pids |-> WaitingIn(t)]
    BY <1>5 DEF AcceptFile, Read, Call, tcbs, WaitingIn
  <2>2. Pipes!Possible(c)
    BY <1>1, <1>4, <1>5, LimitsAssumption DEF Pipes!Possible, fifo_readable
  <2>3. Pipes!Effect(c)
    BY <1>3, <1>4, <1>5 DEF AcceptFile, Pipes!Effect
  <2>4. Pipes!Serve(current, c)
    BY <1>1, <1>2, <1>8, <2>1, <2>2, <2>3 DEF Pipes!Serve, Pipes!Enter
  <2> QED
    BY <1>1, <1>3, <2>4 DEF Pipes!Next
<1>6. CASE /\ ~fifo_readable(fd, size) /\ BlockFile(ReadEvent(fd), size, "WAIT_READ")
           /\ status[current] # "READY"
  <2>1. NoStep /\ len' = len
    BY <1>6 DEF BlockFile, event_monitor_block, NoStep, Read, Call, tcbs, WaitingIn
  <2> QED
    BY <1>1, <1>8, <2>1, NoStepAlone, EnterStep
<1>7. CASE /\ ~fifo_readable(fd, size) /\ BlockFile(ReadEvent(fd), size, "WAIT_READ")
           /\ status[current] = "READY"
  <2>1. /\ Moves(n, EventList(ReadEvent(fd)))
        /\ arg' = [arg EXCEPT ![n] = size] /\ len' = len
    BY <1>0, <1>7 DEF BlockFile, event_monitor_block, Moves
  <2>2. (\A t \in Pids \ {n} : arg'[t] = arg[t]) /\ arg'[n] = size
    BY <1>0, <1>1, <2>1 DEF TypeOK
  <2>3. OthersStay(n) /\ InRead(fd, n)'
    BY <1>0, <1>1, <2>1, <2>2, MovedCalls
  <2>4. WaitingIn(n)' = c
    BY <1>0, <1>1, <2>2, <2>3 DEF MappedCalls, ReadCall
  <2>5. CallStep(n, c)
    BY <1>0, <1>1, <2>3, <2>4, OthersKeepCalls DEF CallStep
  <2>6. ~Pipes!Possible(c)
    BY <1>0, <1>1, <1>4, <1>7 DEF Pipes!Possible, fifo_readable
  <2>7. [t \in Pids |-> WaitingIn(t)]' = [[t \in Pids |-> WaitingIn(t)] EXCEPT ![n] = c]
    BY <1>0, <1>1, <2>5, CallStepUpdates
  <2>8. Pipes!Wait(n, c)
    BY <1>0, <1>1, <1>2, <1>8, <2>1, <2>6, <2>7 DEF Pipes!Wait, Pipes!Enter
  <2> QED
    BY <1>0, <1>1, <1>3, <2>8 DEF Pipes!Next
<1> QED
  BY <1>5, <1>6, <1>7 DEF Read

LEMMA WritingStep ==
  ASSUME IInv, IInv', NEW fd \in Fds, NEW size \in Sizes, Write(fd, size)
  PROVE  Pipes!Next
<1> DEFINE c == WriteCall(fd, size)
<1>0. PICK n \in Pids : n = current
  BY DEF IInv, TypeOK
<1>1. /\ TypeOK /\ OnOneList /\ TypeOK' /\ OnOneList' /\ MappedCalls /\ MappedCalls'
      /\ current \in Pids /\ len \in [Fds -> 0 .. PIPE_BUF - 1] /\ size \in Nat
      /\ EventList(WriteEvent(fd)) \in ListIds
  BY CallsMapped, CallsMappedNext, ProgramAssumption, Numbers, Heads DEF IInv, TypeOK
<1>8. /\ phase = "thread" /\ phase' = "serve"
      /\ Running = current /\ Running' = None /\ current # None
  BY <1>1, Numbers DEF Write, Call, Running, None, Pids
<1>2. ~InCall(current) /\ WaitingIn(current) = Pipes!NoCall
  <2>1. \A e \in Events : ~OnList(q, EventList(e), current)
    BY CurrentNoWaiter DEF IInv, Write, Call
  <2> QED
    BY <2>1, <1>1, Numbers DEF InCall, InRead, InWrite, MappedCalls
<1>3. c \in Pipes!Calls /\ c.op = "write" /\ c.fd = fd /\ c.size = size
  BY DEF Pipes!Calls, WriteCall
<1>4. Pipes!After(c) = len[fd] + size
  BY <1>1, <1>3 DEF Pipes!After
<1>5. CASE fifo_writable(fd, size) /\ AcceptFile(fd, len[fd] + size, ReadEvent(fd))
  <2>1. UNCHANGED [t \in Pids |-> WaitingIn(t)]
    BY <1>5 DEF AcceptFile, Write, Call, tcbs, WaitingIn
  <2>2. Pipes!Possible(c)
    BY <1>1, <1>4, <1>5, LimitsAssumption DEF Pipes!Possible, fifo_writable
  <2>3. Pipes!Effect(c)
    BY <1>3, <1>4, <1>5 DEF AcceptFile, Pipes!Effect
  <2>4. Pipes!Serve(current, c)
    BY <1>1, <1>2, <1>8, <2>1, <2>2, <2>3 DEF Pipes!Serve, Pipes!Enter
  <2> QED
    BY <1>1, <1>3, <2>4 DEF Pipes!Next
<1>6. CASE /\ ~fifo_writable(fd, size) /\ BlockFile(WriteEvent(fd), size, "WAIT_WRITE")
           /\ status[current] # "READY"
  <2>1. NoStep /\ len' = len
    BY <1>6 DEF BlockFile, event_monitor_block, NoStep, Write, Call, tcbs, WaitingIn
  <2> QED
    BY <1>1, <1>8, <2>1, NoStepAlone, EnterStep
<1>7. CASE /\ ~fifo_writable(fd, size) /\ BlockFile(WriteEvent(fd), size, "WAIT_WRITE")
           /\ status[current] = "READY"
  <2>1. /\ Moves(n, EventList(WriteEvent(fd)))
        /\ arg' = [arg EXCEPT ![n] = size] /\ len' = len
    BY <1>0, <1>7 DEF BlockFile, event_monitor_block, Moves
  <2>2. (\A t \in Pids \ {n} : arg'[t] = arg[t]) /\ arg'[n] = size
    BY <1>0, <1>1, <2>1 DEF TypeOK
  <2>3. OthersStay(n) /\ InWrite(fd, n)'
    BY <1>0, <1>1, <2>1, <2>2, MovedCalls
  <2>4. WaitingIn(n)' = c
    BY <1>0, <1>1, <2>2, <2>3 DEF MappedCalls, WriteCall
  <2>5. CallStep(n, c)
    BY <1>0, <1>1, <2>3, <2>4, OthersKeepCalls DEF CallStep
  <2>6. ~Pipes!Possible(c)
    BY <1>0, <1>1, <1>4, <1>7, LimitsAssumption DEF Pipes!Possible, fifo_writable
  <2>7. [t \in Pids |-> WaitingIn(t)]' = [[t \in Pids |-> WaitingIn(t)] EXCEPT ![n] = c]
    BY <1>0, <1>1, <2>5, CallStepUpdates
  <2>8. Pipes!Wait(n, c)
    BY <1>0, <1>1, <1>2, <1>8, <2>1, <2>6, <2>7 DEF Pipes!Wait, Pipes!Enter
  <2> QED
    BY <1>0, <1>1, <1>3, <2>8 DEF Pipes!Next
<1> QED
  BY <1>5, <1>6, <1>7 DEF Write

\* A call that blocks its caller on an event of no FIFO
LEMMA AsideStep ==
  ASSUME IInv, IInv', NEW e \in Events, NEW a, Call, event_monitor_block(e, a), len' = len,
         \A fd \in Fds : e # ReadEvent(fd) /\ e # WriteEvent(fd)
  PROVE  CallsAlone
<1>1. /\ TypeOK /\ OnOneList /\ TypeOK' /\ OnOneList' /\ current \in Pids
      /\ EventList(e) \in ListIds
  BY Heads DEF IInv, TypeOK
<1>2. \A fd \in Fds : /\ EventList(e) # EventList(ReadEvent(fd))
                      /\ EventList(e) # EventList(WriteEvent(fd))
  BY Numbers, Heads
<1>3. ~InCall(current)
  <2>1. \A f \in Events : ~OnList(q, EventList(f), current)
    BY CurrentNoWaiter DEF IInv, Call
  <2> QED
    BY <2>1, Numbers DEF InCall, InRead, InWrite
<1>4. CASE status[current] # "READY"
  <2>1. NoStep
    BY <1>4 DEF event_monitor_block, NoStep, Call, WaitingIn
  <2> QED
    BY <2>1, NoStepAlone
<1>5. CASE status[current] = "READY"
  <2>1. /\ Moves(current, EventList(e))
        /\ \A t \in Pids \ {current} : arg'[t] = arg[t]
    BY <1>1, <1>5 DEF event_monitor_block, Moves, TypeOK
  <2>2. NoStep
    BY <1>1, <1>2, <1>3, <2>1, AsideStutters
  <2> QED
    BY <2>2, NoStepAlone
<1> QED
  BY <1>4, <1>5

\* A task in no call goes to a ready list.
LEMMA ReadiedStep ==
  ASSUME IInv, IInv', NEW n \in Pids, NEW p \in 0 .. PRIORITY_LIMIT,
         Moves(n, ReadyList(p)), \A t \in Pids \ {n} : arg'[t] = arg[t],
         ~InCall(n), len' = len
  PROVE  CallsAlone
<1>1. /\ TypeOK /\ OnOneList /\ TypeOK' /\ OnOneList' /\ ReadyList(p) \in ListIds
  BY Heads DEF IInv
<1>2. \A fd \in Fds : /\ ReadyList(p) # EventList(ReadEvent(fd))
                      /\ ReadyList(p) # EventList(WriteEvent(fd))
  BY Numbers, Heads
<1> QED
  BY <1>1, <1>2, AsideStutters, NoStepAlone

LEMMA NotWaiting ==
  ASSUME IInv, NEW n \in Pids,
         \/ status[n] = "READY" \/ ~inuse[n]
         \/ \E l \in ListIds : OnList(q, l, n) /\ \A fd \in Fds :
              l # EventList(ReadEvent(fd)) /\ l # EventList(WriteEvent(fd))
  PROVE  ~InCall(n)
<1>1. TypeOK /\ OnOneList /\ WaitersNotReady
  BY DEF IInv
<1>2. ASSUME NEW e \in Events, OnList(q, EventList(e), n), NEW fd \in Fds,
             e = ReadEvent(fd) \/ e = WriteEvent(fd)
      PROVE  FALSE
  <2>1. status[n] # "READY"
    BY <1>1, <1>2 DEF WaitersNotReady, OnEventList
  <2>2. inuse[n] /\ EventList(e) \in ListIds
    BY <1>1, <1>2, Heads, OnListInuse
  <2>3. \A l \in ListIds : OnList(q, l, n) => l = EventList(e)
    BY <1>1, <1>2, <2>2, OneListOnly
  <2> QED
    BY <1>2, <2>1, <2>2, <2>3
<1> QED
  BY <1>2, Numbers DEF InCall, InRead, InWrite

ReadyNotInCall ==
  \A t \in Pids : \A p \in 0 .. PRIORITY_LIMIT : OnList(q, ReadyList(p), t) => ~InCall(t)

LEMMA ReadyOutOfCalls == TypeOK /\ OnOneList => ReadyNotInCall
<1> SUFFICES ASSUME TypeOK, OnOneList, NEW t \in Pids, NEW p \in 0 .. PRIORITY_LIMIT,
                    OnList(q, ReadyList(p), t)
             PROVE  ~InCall(t)
  BY DEF ReadyNotInCall
<1>1. ReadyList(p) \in ListIds
  BY Heads
<1>2. \A fd \in Fds : /\ ReadyList(p) # EventList(ReadEvent(fd))
                      /\ ReadyList(p) # EventList(WriteEvent(fd))
                      /\ EventList(ReadEvent(fd)) \in ListIds
                      /\ EventList(WriteEvent(fd)) \in ListIds
  BY Numbers, Heads
<1> QED
  BY <1>1, <1>2, OneListOnly DEF InCall, InRead, InWrite

LEMMA ReadyOutOfCallsNext == TypeOK' /\ OnOneList' => ReadyNotInCall'
BY ReadyOutOfCalls, PTL

\* The serve scan completes a call.
LEMMA FinishStep ==
  ASSUME IInv, IInv', NEW fd \in Fds, WakeReader(fd) \/ WakeWriter(fd)
  PROVE  Pipes!Next
<1> DEFINE calls == [t \in Pids |-> WaitingIn(t)]
<1>0. PICK w \in Pids : w = Waiter
  BY VisitFacts DEF IInv, WakeReader, WakeWriter
<1>1. /\ TypeOK /\ OnOneList /\ TypeOK' /\ OnOneList' /\ MappedCalls /\ Visit
      /\ len \in [Fds -> 0 .. PIPE_BUF - 1]
      /\ q' = list_push(q, ReadyList(priority[w]), w) /\ arg' = [arg EXCEPT ![w] = 0]
  BY <1>0, CallsMapped DEF IInv, TypeOK, WakeReader, WakeWriter, Wake
<1>2. /\ OnList(q, EventList(serving), w) /\ arg[w] \in Nat
      /\ priority[w] \in 0 .. PRIORITY_LIMIT
  BY <1>0, <1>1, VisitFacts DEF TypeOK
<1>3. CallStep(w, Pipes!NoCall)
  <2>1. Moves(w, ReadyList(priority[w])) /\ \A t \in Pids \ {w} : arg'[t] = arg[t]
    BY <1>1, <1>2 DEF Moves, TypeOK
  <2> QED
    BY <1>1, <1>2, <2>1, LeaverFree
<1>4. calls' = [calls EXCEPT ![w] = Pipes!NoCall]
  BY <1>2, <1>3, CallStepUpdates
<1>6. Running = None /\ Running' = Running
  BY DEF WakeReader, WakeWriter, Visit, Wake, Running
<1>5. Pipes!Finish(w)
  <2>1. CASE WakeReader(fd)
    <3>1. WaitingIn(w) = ReadCall(fd, arg[w])
      BY <1>1, <1>2, <2>1 DEF MappedCalls, InRead, WakeReader
    <3>2. calls[w] = ReadCall(fd, arg[w]) /\ ReadCall(fd, arg[w]) # Pipes!NoCall
      BY <1>2, <3>1 DEF ReadCall, Pipes!NoCall
    <3>3. Pipes!After(ReadCall(fd, arg[w])) = len[fd] - arg[w]
      BY <1>1, <1>2 DEF Pipes!After, ReadCall
    <3>4. Pipes!Possible(ReadCall(fd, arg[w]))
      BY <1>0, <1>1, <1>2, <2>1, <3>3, LimitsAssumption DEF Pipes!Possible, WakeReader, fifo_readable
    <3>5. Pipes!Effect(ReadCall(fd, arg[w]))
      BY <1>0, <2>1, <3>3 DEF Pipes!Effect, WakeReader, ReadCall
    <3> QED
      BY <1>4, <1>6, <3>2, <3>4, <3>5 DEF Pipes!Finish
  <2>2. CASE WakeWriter(fd)
    <3>1. WaitingIn(w) = WriteCall(fd, arg[w])
      BY <1>1, <1>2, <2>2 DEF MappedCalls, InWrite, WakeWriter
    <3>2. calls[w] = WriteCall(fd, arg[w]) /\ WriteCall(fd, arg[w]) # Pipes!NoCall
      BY <1>2, <3>1 DEF WriteCall, Pipes!NoCall
    <3>3. Pipes!After(WriteCall(fd, arg[w])) = len[fd] + arg[w]
      BY <1>1, <1>2 DEF Pipes!After, WriteCall
    <3>4. Pipes!Possible(WriteCall(fd, arg[w]))
      BY <1>0, <1>1, <1>2, <2>2, <3>3, LimitsAssumption DEF Pipes!Possible, WakeWriter, fifo_writable
    <3>5. Pipes!Effect(WriteCall(fd, arg[w]))
      BY <1>0, <2>2, <3>3 DEF Pipes!Effect, WakeWriter, WriteCall
    <3> QED
      BY <1>4, <1>6, <3>2, <3>4, <3>5 DEF Pipes!Finish
  <2> QED
    BY <2>1, <2>2
<1> QED
  BY <1>2, <1>5 DEF Pipes!Next

LEMMA PipesStep ==
  ASSUME IInv, IInv', [Next]_vars
  PROVE  [Pipes!Next]_(Pipes!vars)
<1>0. PICK cur \in Pids : cur = current
  BY DEF IInv, TypeOK
<1>1. /\ TypeOK /\ OnOneList /\ TypeOK' /\ OnOneList'
      /\ priority \in [Pids -> 0 .. PRIORITY_LIMIT]
  BY DEF IInv, TypeOK
<1>2. ASSUME UNCHANGED <<q, arg, len, inuse>>
      PROVE  CallsAlone
  <2>1. NoStep
    BY <1>2 DEF NoStep, WaitingIn
  <2> QED
    BY <1>2, <2>1, NoStepAlone
<1>3. CASE Syscall
  <2>1. ASSUME NEW fd \in Fds, NEW size \in Sizes, Read(fd, size) \/ Write(fd, size)
        PROVE  Pipes!Next
    BY <2>1, ReadingStep, WritingStep
  <2>2. ASSUME FileError \/ OtherCall
        PROVE  CallsAlone
    BY <2>2, <1>2 DEF FileError, OtherCall, Call
  <2>3. ASSUME NEW i \in Irqs, InterruptWait(i)
        PROVE  CallsAlone
    <3>1. INTR_EVENT(i) \in Events /\ \A fd \in Fds : /\ INTR_EVENT(i) # ReadEvent(fd)
                                                      /\ INTR_EVENT(i) # WriteEvent(fd)
      BY ConditionNumbers, Numbers DEF ConditionEvents
    <3> QED
      BY <2>3, <3>1, AsideStep DEF InterruptWait
  <2>4. ASSUME NEW ticks \in SleepTimes, Sleep(ticks)
        PROVE  CallsAlone
    <3>1. TIME_EVENT \in Events /\ \A fd \in Fds : /\ TIME_EVENT # ReadEvent(fd)
                                                   /\ TIME_EVENT # WriteEvent(fd)
      BY Numbers DEF Events
    <3> QED
      BY <2>4, <3>1, AsideStep DEF Sleep
  <2>5. ASSUME NEW pid \in Mortal, TaskBlock(pid)
        PROVE  CallsAlone
    <3>1. pid \in Pids \ {0}
      BY ProgramAssumption
    <3>2. TASK_EVENT(pid) \in Events /\ \A fd \in Fds : /\ TASK_EVENT(pid) # ReadEvent(fd)
                                                        /\ TASK_EVENT(pid) # WriteEvent(fd)
      BY <3>1, ConditionNumbers, Numbers DEF ConditionEvents
    <3> QED
      BY <2>5, <3>2, AsideStep DEF TaskBlock
  <2>6. ASSUME NEW value \in Priorities, SetOwnPriority(value)
        PROVE  CallsAlone
    <3>1. /\ Moves(cur, ReadyList(Clamp(value))) /\ Clamp(value) \in 0 .. PRIORITY_LIMIT
          /\ arg' = arg /\ len' = len
      BY <2>6, <1>0, Clamped, ProgramAssumption DEF SetOwnPriority, Moves
    <3>2. ~InCall(cur)
      <4>1. \A e \in Events : ~OnList(q, EventList(e), cur)
        BY <2>6, <1>0, CurrentNoWaiter DEF IInv, SetOwnPriority, Call
      <4> QED
        BY <4>1, Numbers DEF InCall, InRead, InWrite
    <3> QED
      BY <3>1, <3>2, ReadiedStep
  <2>7. ASSUME NEW value \in Priorities, NEW who \in Pids, SetPriority(who, value)
        PROVE  CallsAlone
    <3>1. CASE status[who] = "READY"
      <4>1. /\ Moves(who, ReadyList(Clamp(value))) /\ Clamp(value) \in 0 .. PRIORITY_LIMIT
            /\ arg' = arg /\ len' = len
        BY <2>7, <3>1, Clamped, ProgramAssumption DEF SetPriority, Moves
      <4> QED
        BY <3>1, <4>1, NotWaiting, ReadiedStep
    <3>2. CASE status[who] # "READY"
      BY <2>7, <3>2, <1>2 DEF SetPriority, Call
    <3> QED
      BY <3>1, <3>2
  <2>8. phase = "thread" /\ phase' = "serve"
    BY <1>3 DEF Syscall, Read, Write, FileError, InterruptWait, Sleep, TaskBlock,
      SetOwnPriority, SetPriority, OtherCall, Call
  <2>9. CASE CallsAlone
    BY <1>1, <2>8, <2>9, EnterStep
  <2> QED
    BY <1>3, <2>1, <2>2, <2>3, <2>4, <2>5, <2>6, <2>7, <2>9 DEF Syscall
<1>4. ASSUME NEW n \in Pids, task_kill(n), phase = "thread"
      PROVE  [Pipes!Next]_(Pipes!vars)
  <2>1. /\ q' = list_remove(q, n) /\ len' = len
        /\ \A t \in Pids \ {n} : arg'[t] = arg[t]
    BY <1>1, <1>4 DEF task_kill, TypeOK
  <2>0. Running' = Running /\ Running # None
    BY <1>0, <1>4, Numbers DEF task_kill, Running, None, Pids
  <2>2. CallStep(n, Pipes!NoCall)
    BY <1>1, <2>1, LeaverFree
  <2>3. CASE WaitingIn(n) = Pipes!NoCall
    <3>1. NoStep
      BY <2>2, <2>3 DEF CallStep, NoStep, Pipes!NoCall
    <3> QED
      BY <2>0, <2>1, <3>1, NoStepAlone, AloneStutters
  <2>4. CASE WaitingIn(n) # Pipes!NoCall
    <3>1. Pipes!Abandon(n)
      BY <2>0, <2>1, <2>2, <2>4, CallStepUpdates DEF Pipes!Abandon
    <3> QED
      BY <3>1 DEF Pipes!Next
  <2> QED
    BY <2>3, <2>4
<1>5. CASE Lifecycle
  <2>1. ASSUME NEW p \in SpawnPriorities, Create(p)
        PROVE  CallsAlone
    <3>1. PICK n \in Pids : ~inuse[n] /\ Moves(n, ReadyList(p)) /\ arg' = arg /\ len' = len
      BY <2>1, ProgramAssumption DEF Create, Moves
    <3> QED
      BY <3>1, ProgramAssumption, NotWaiting, ReadiedStep
  <2>4. ASSUME NEW p \in SpawnPriorities, Create(p)
        PROVE  UNCHANGED Pipes!vars
    BY <2>1, <2>4, AloneStutters DEF Create, Running
  <2>2. CASE Exit
    BY <2>2, <1>0, <1>4 DEF Exit, task_kill
  <2>3. ASSUME NEW pid \in Mortal, Cancel(pid)
        PROVE  [Pipes!Next]_(Pipes!vars)
    BY <2>3, <1>4, ProgramAssumption DEF Cancel
  <2> QED
    BY <1>5, <2>2, <2>3, <2>4 DEF Lifecycle
<1>6. CASE Tick \/ \E i \in Irqs : Irq(i)
  BY <1>1, <1>6, <1>2, EnterStep DEF Tick, Irq, EnterPendSV, tcbs
<1>7. CASE Serve
  <2>1. CASE \E fd \in Fds : WakeReader(fd) \/ WakeWriter(fd)
    BY <2>1, FinishStep
  <2>2. ASSUME WakeOther
        PROVE  CallsAlone
    <3>0. PICK w \in Pids : w = Waiter
      BY <2>2, <1>1, VisitFacts DEF WakeOther
    <3>1. /\ serving \in Events /\ OnList(q, EventList(serving), w)
          /\ 2 * FIFOS <= serving
          /\ Moves(w, ReadyList(priority[w])) /\ priority[w] \in 0 .. PRIORITY_LIMIT
          /\ len' = len /\ \A t \in Pids \ {w} : arg'[t] = arg[t]
      BY <2>2, <3>0, <1>1, VisitFacts, LimitsAssumption
         DEF WakeOther, Wake, Moves, TypeOK
    <3>2. \A fd \in Fds : /\ EventList(serving) # EventList(ReadEvent(fd))
                          /\ EventList(serving) # EventList(WriteEvent(fd))
      <4>1. \A fd \in Fds : serving # ReadEvent(fd) /\ serving # WriteEvent(fd)
        BY <3>1, Numbers, LimitsAssumption DEF Events, Fds, ReadEvent, WriteEvent
      <4> QED
        BY <3>1, <4>1, Numbers, Heads
    <3>3. ~InCall(w)
      BY <3>1, <3>2, Heads, NotWaiting
    <3> QED
      BY <3>1, <3>3, ReadiedStep
  <2>3. ASSUME (\E e \in Events : ServeEvent(e)) \/ ServeDone \/ KeepWaiter \/ EndEvent
        PROVE  CallsAlone
    BY <2>3, <1>2 DEF ServeEvent, ServeDone, KeepWaiter, EndEvent, Visit, Served, tcbs
  <2>4. Running' = Running
    BY <1>7 DEF Serve, ServeEvent, ServeDone, WakeReader, WakeWriter, WakeOther, KeepWaiter,
      EndEvent, Visit, Wake, Running, serveVars
  <2> QED
    BY <1>7, <2>1, <2>2, <2>3, <2>4, AloneStutters DEF Serve
<1>8. CASE Switch
  <2>1. q' = Rotated /\ arg' = arg /\ len' = len
    BY <1>8 DEF Switch, Select
  <2>2. ASSUME ~SliceOver
        PROVE  CallsAlone
    BY <2>1, <2>2, <1>2, <1>8 DEF Rotated, Switch, Select, tcbs
  <2>3. ASSUME SliceOver
        PROVE  CallsAlone
    <3>1. /\ Moves(cur, ReadyList(priority[cur])) /\ priority[cur] \in 0 .. PRIORITY_LIMIT
      BY <2>1, <2>3, <1>0, <1>1 DEF Rotated, Moves
    <3>2. ReadyList(priority[cur]) \in ListIds
      BY <3>1, Heads
    <3>3. OnList(q, ReadyList(priority[cur]), cur)
      BY <2>3, <3>2, <1>0, <1>1, FirstOnList DEF SliceOver, IsFirst, list_empty
    <3>4. ~InCall(cur)
      <4>1. \A fd \in Fds : /\ ReadyList(priority[cur]) # EventList(ReadEvent(fd))
                            /\ ReadyList(priority[cur]) # EventList(WriteEvent(fd))
        BY <3>1, Numbers, Heads
      <4> QED
        BY <3>2, <3>3, <4>1, NotWaiting
    <3> QED
      BY <2>1, <3>1, <3>4, ReadiedStep
  <2>4. PICK t \in Pids : t = current' /\ ~InCall(t)'
    <3>1. PICK p \in 0 .. PRIORITY_LIMIT :
            ~list_empty(q', ReadyList(p)) /\ current' = Head(q'[ReadyList(p)])
      BY <1>8, <2>1 DEF Switch, Select
    <3>2. ReadyList(p) \in ListIds /\ q' \in [ListIds -> Seq(Pids)]
      BY <1>1, Heads DEF TypeOK
    <3>3. current' \in Pids /\ OnList(q', ReadyList(p), current')
      BY <3>1, <3>2, HeadInRange DEF list_empty, OnList
    <3> QED
      BY <1>1, <3>3, ReadyOutOfCallsNext DEF ReadyNotInCall
  <2>5. WaitingIn(t)' = Pipes!NoCall
    BY <1>1, <2>4, CallsMappedNext DEF MappedCalls, Pipes!NoCall
  <2>6. Running = None /\ Running' = t
    BY <1>8, <2>4 DEF Switch, Select, Running
  <2>7. CallsAlone
    BY <2>2, <2>3
  <2>8. WaitingIn(t) = Pipes!NoCall
    BY <2>5, <2>7 DEF CallsAlone
  <2>9. Pipes!Run(t)
    BY <2>6, <2>7, <2>8 DEF CallsAlone, Pipes!Run
  <2> QED
    BY <2>9 DEF Pipes!Next
<1>9. CASE UNCHANGED vars
  BY <1>9, <1>2, AloneStutters DEF vars, Running
<1> QED
  BY <1>3, <1>5, <1>6, <1>7, <1>8, <1>9 DEF Next

\* Reads and writes of FIFOs take effect at one instant each and wait exactly while
\* the pipe cannot serve them, whatever calls, retries, interrupts, switches and
\* cancellations do: a step of the kernel is a step of AtomicPipes or none.
THEOREM CallsAreAtomic == Spec => ImplementsAtomicPipes
<1>1. Init => Pipes!Init
  <2> SUFFICES ASSUME Init
               PROVE  Pipes!Init
    OBVIOUS
  <2>1. \A e \in Events : q[EventList(e)] = <<>>
    BY Heads, LimitsAssumption DEF Init, EventList, Events
  <2>2. \A t \in Pids : ~InCall(t)
    <3>1. \A e \in Events, t \in Pids : ~OnList(q, EventList(e), t)
      BY <2>1 DEF OnList, Range
    <3> QED
      BY <3>1, Numbers DEF InCall, InRead, InWrite
  <2>3. MappedCalls
    BY InitIInv, CallsMapped DEF IInv
  <2>4. \A t \in Pids : WaitingIn(t) = Pipes!NoCall
    BY <2>2, <2>3 DEF MappedCalls
  <2>5. Running \in Pids
    BY LimitsAssumption DEF Init, Running, Pids
  <2> QED
    BY <2>4, <2>5 DEF Init, Pipes!Init
<1>2. IInv /\ IInv' /\ [Next]_vars => [Pipes!Next]_(Pipes!vars)
  BY PipesStep
<1> QED
  BY <1>1, <1>2, Invariance, PTL DEF Spec, ImplementsAtomicPipes, Pipes!Spec
=============================================================================
