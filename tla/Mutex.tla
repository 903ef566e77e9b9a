------------------------------- MODULE Mutex -------------------------------
(***************************************************************************)
(* pthread_mutex_lock and pthread_mutex_unlock (src/pthread.c) with the     *)
(* mutex_lock and mutex_unlock calls behind them (src/kernel.c).            *)
(*                                                                         *)
(* The pthread half runs in thread mode.  Its _disable_irq is cpsid, which *)
(* an unprivileged thread executes without effect, so a thread can be      *)
(* preempted at each step below, and any thread that is not waiting may    *)
(* be the next to run.  A call is one step (see Kernel), with the pass of  *)
(* event_monitor_serve that follows it.                                    *)
(*                                                                         *)
(* data.count and __mutex.count only count; nothing reads them.  A thread  *)
(* of this model holds one mutex at a time and unlocks what it locked.     *)
(***************************************************************************)
EXTENDS Lists, Integers, FiniteSets

CONSTANTS
  Threads,
  Mutexes,      \* addresses of pthread_mutex_t
  MUTEX_LIMIT,  \* kconfig.h: entries of the mutex table
  Null          \* an entry that was never used

ASSUME MutexAssumption ==
  MUTEX_LIMIT \in Nat \ {0} /\ Null \notin Mutexes /\ Threads # {}

Table == 0 .. MUTEX_LIMIT - 1
\* The search for a free entry ends one past the table: an event that
\* mutex_release is not the handler of, so it wakes nobody.
Beyond == MUTEX_LIMIT

VARIABLES
  pc,       \* where each thread is in lock or unlock
  mutex,    \* the mutex of that call
  lock,     \* data.lock of each mutex
  addr,     \* __mutex.addr
  waiters   \* the tasks on the list of each MUTEX_EVENT

vars == <<pc, mutex, lock, addr, waiters>>

Init ==
  /\ pc = [t \in Threads |-> "out"]
  /\ mutex = [t \in Threads |-> Null]
  /\ lock = [m \in Mutexes |-> 0]
  /\ addr = [i \in Table |-> Null]
  /\ waiters = [i \in Table \union {Beyond} |-> <<>>]

Goto(t, from, to) == pc[t] = from /\ pc' = [pc EXCEPT ![t] = to]

-----------------------------------------------------------------------------
(* pthread_mutex_lock *)

Lock(t, m) ==
  /\ Goto(t, "out", "test")
  /\ mutex' = [mutex EXCEPT ![t] = m]
  /\ UNCHANGED <<lock, addr, waiters>>

\* mutant: the lock word is not looked at
Test_blind(t) ==
  /\ Goto(t, "test", "call")
  /\ UNCHANGED <<mutex, lock, addr, waiters>>

Test(t) ==
  /\ Goto(t, "test", IF lock[mutex[t]] = 1 THEN "call" ELSE "take")
  /\ UNCHANGED <<mutex, lock, addr, waiters>>

\* mutant: an entry is free when it is the first
EntryFor_first(m) ==
  LET found == {i \in Table : addr[i] = m}
  IN IF found # {} THEN Min(found) ELSE 0

\* The first entry of m, else the first whose list is empty: its address is
\* overwritten.
EntryFor(m) ==
  LET found == {i \in Table : addr[i] = m}
      free == {i \in Table : list_empty(waiters, i)}
  IN IF found # {} THEN Min(found) ELSE IF free # {} THEN Min(free) ELSE Beyond

\* mutant: the last to come is the first to go
mutex_lock_lifo(t) ==
  LET i == EntryFor(mutex[t])
  IN /\ Goto(t, "call", "wait")
     /\ waiters' = list_unshift(waiters, i, t)
     /\ addr' = IF i \in Table THEN [addr EXCEPT ![i] = mutex[t]] ELSE addr
     /\ UNCHANGED <<mutex, lock>>

\* The call blocks without looking at the lock again.
mutex_lock(t) ==
  LET i == EntryFor(mutex[t])
  IN /\ Goto(t, "call", "wait")
     /\ waiters' = list_push(waiters, i, t)
     /\ addr' = IF i \in Table THEN [addr EXCEPT ![i] = mutex[t]] ELSE addr
     /\ UNCHANGED <<mutex, lock>>

\* Also where a woken thread goes on: it does not test again.
Take(t) ==
  /\ Goto(t, "take", "in")
  /\ lock' = [lock EXCEPT ![mutex[t]] = 1]
  /\ UNCHANGED <<mutex, addr, waiters>>

-----------------------------------------------------------------------------
(* pthread_mutex_unlock *)

Clear(t) ==
  /\ Goto(t, "in", "signal")
  /\ lock' = [lock EXCEPT ![mutex[t]] = 0]
  /\ UNCHANGED <<mutex, addr, waiters>>

\* The event is marked and served: mutex_release accepts one waiter in each
\* pass (__mutex.ishead), which is the first.  No entry, no event.
mutex_unlock(t) ==
  LET found == {i \in Table : addr[i] = mutex[t] /\ ~list_empty(waiters, i)}
  IN /\ pc[t] = "signal"
     /\ \/ /\ found = {}
           /\ pc' = [pc EXCEPT ![t] = "out"]
           /\ UNCHANGED waiters
        \/ \E i \in found :
             LET first == Head(waiters[i])
             IN /\ \A j \in Table : addr[j] = mutex[t] => i <= j
                /\ waiters' = list_remove(waiters, first)
                /\ pc' = [pc EXCEPT ![t] = "out", ![first] = "take"]
     /\ mutex' = [mutex EXCEPT ![t] = Null]
     /\ UNCHANGED <<lock, addr>>

Next ==
  \E t \in Threads :
    \/ \E m \in Mutexes : Lock(t, m)
    \/ Test(t) \/ mutex_lock(t) \/ Take(t)
    \/ Clear(t) \/ mutex_unlock(t)

Spec == Init /\ [][Next]_vars

-----------------------------------------------------------------------------
(* Properties *)

\* Entries are recycled while threads wait, yet the table never loses a
\* waiter: it is on the list of the one entry that holds its mutex, where
\* mutex_unlock looks.
WaitersFound ==
  \A t \in Threads :
    pc[t] = "wait" =>
      \E i \in Table :
        /\ OnList(waiters, i, t)
        /\ \A j \in Table : addr[j] = mutex[t] <=> j = i

\* The threads never all wait, or are about to, for mutexes of each other: whoever
\* found a mutex locked leaves its holder behind.
SomeoneRuns == \E t \in Threads : pc[t] \notin {"call", "wait"}

\* A thread does not wait for ever for a mutex that is unlocked again and
\* again, whoever takes it in between.
UnlocksReachAll ==
  \A t \in Threads, m \in Mutexes :
    []<><<\E u \in Threads : mutex[u] = m /\ mutex_unlock(u)>>_vars =>
      []<>~(pc[t] = "wait" /\ mutex[t] = m)

\* One thread at a time is between lock and unlock, as the _disable_irq and
\* _enable_irq around the test and the assignment of lock intend.
MutualExclusion ==
  \A t, u \in Threads :
    pc[t] = "in" /\ pc[u] = "in" /\ mutex[t] = mutex[u] => t = u
-----------------------------------------------------------------------------
(* The invariant behind WaitersFound and SomeoneRuns *)

\* As many threads as can wait in the table at once: one of them runs, and
\* another is calling.
RoomInTable == IsFiniteSet(Threads) /\ Cardinality(Threads) <= MUTEX_LIMIT + 1

TypeOK ==
  /\ pc \in [Threads -> {"out", "test", "call", "wait", "take", "in", "signal"}]
  /\ mutex \in [Threads -> Mutexes \union {Null}]
  /\ lock \in [Mutexes -> {0, 1}]
  /\ addr \in [Table -> Mutexes \union {Null}]
  /\ waiters \in [Table \union {Beyond} -> Seq(Threads)]

\* A call is about a mutex, and a lock word is set by a thread that is still in.
Called == \A t \in Threads : pc[t] # "out" => mutex[t] \in Mutexes
HeldBy == \A m \in Mutexes : lock[m] = 1 => \E t \in Threads : pc[t] = "in" /\ mutex[t] = m

\* Whoever is on a list waits, there only.
OnlyWaiters ==
  \A i \in Table \union {Beyond}, t \in Threads : OnList(waiters, i, t) => pc[t] = "wait"

\* A mutex has one entry; whoever waits is on the list of its mutex's.
OneEntry == \A i, j \in Table : addr[i] = addr[j] /\ addr[i] # Null => i = j
AtEntry ==
  /\ waiters[Beyond] = <<>>
  /\ \A i \in Table, t \in Threads : OnList(waiters, i, t) => addr[i] = mutex[t]
  /\ \A t \in Threads : pc[t] = "wait" => \E i \in Table : OnList(waiters, i, t)

RunInv == TypeOK /\ Called /\ HeldBy /\ SomeoneRuns /\ OnePlace(waiters) /\ OnlyWaiters
IInv == RunInv /\ OneEntry /\ AtEntry
=============================================================================
