----------------------------- MODULE MutexProofs -----------------------------
(***************************************************************************)
(* Mutex for any threads and mutexes: the threads never wait in a circle,  *)
(* and, as long as the table has an entry for all who can wait at once, a  *)
(* waiter is where mutex_unlock looks for it.                              *)
(***************************************************************************)
EXTENDS Mutex, ListProofs, FiniteSetTheorems, WellFoundedInduction

Places == {"out", "test", "call", "wait", "take", "in", "signal"}
Entries == Table \union {Beyond}

LEMMA LeastEntry ==
  ASSUME NEW S, S \subseteq Table, S # {}
  PROVE  Min(S) \in S
<1>1. S \subseteq Nat
  BY MutexAssumption DEF Table
<1>2. PICK i \in S : \A j \in S : ~(<<j, i>> \in OpToRel(<, Nat))
  BY <1>1, NatLessThanWellFounded, WFMin
<1>3. \A j \in S : i <= j
  <2>1. ASSUME NEW j \in S, j < i PROVE <<j, i>> \in OpToRel(<, Nat)
    <3>1. <<j, i>> \in Nat \X Nat /\ <<j, i>>[1] = j /\ <<j, i>>[2] = i
      BY <1>1
    <3> QED
      BY <2>1, <3>1 DEF OpToRel
  <2>2. \A j \in S : ~(j < i)
    BY <1>2, <2>1
  <2> QED
    BY <1>1, <2>2
<1> QED
  BY <1>3 DEF Min

-----------------------------------------------------------------------------
(* The lock words *)

LEMMA RunInit == Init => RunInv
<1> SUFFICES ASSUME Init PROVE RunInv
  OBVIOUS
<1>1. TypeOK
  BY DEF Init, TypeOK
<1>2. Called /\ HeldBy /\ SomeoneRuns
  BY MutexAssumption DEF Init, Called, HeldBy, SomeoneRuns
<1>3. OnePlace(waiters) /\ OnlyWaiters
  BY DEF Init, OnePlace, OnlyWaiters, OnList, Range
<1> QED
  BY <1>1, <1>2, <1>3 DEF RunInv

LEMMA EntryType ==
  ASSUME TypeOK, NEW m
  PROVE  EntryFor(m) \in Entries
<1>1. {i \in Table : addr[i] = m} \subseteq Table /\ {i \in Table : list_empty(waiters, i)} \subseteq Table
  OBVIOUS
<1> QED
  BY <1>1, LeastEntry DEF EntryFor, Entries

\* What each step of a thread does to its own program counter
LEMMA StepTypes ==
  ASSUME RunInv, NEW t \in Threads,
         \/ \E m \in Mutexes : Lock(t, m)
         \/ Test(t) \/ mutex_lock(t) \/ Take(t) \/ Clear(t) \/ mutex_unlock(t)
  PROVE  TypeOK'
<1> USE DEF RunInv
<1>0. MUTEX_LIMIT \in Nat \ {0}
  BY MutexAssumption
<1>1. CASE \E m \in Mutexes : Lock(t, m)
  BY <1>1 DEF Lock, Goto, TypeOK
<1>2. CASE Test(t)
  BY <1>2 DEF Test, Goto, TypeOK
<1>3. CASE mutex_lock(t)
  <2> DEFINE i == EntryFor(mutex[t])
  <2>1. i \in Entries /\ mutex[t] \in Mutexes
    BY <1>3, EntryType DEF mutex_lock, Goto, Called
  <2>2. waiters' \in [Entries -> Seq(Threads)]
    <3>1. waiters \in [Entries -> Seq(Threads)] /\ waiters' = list_push(waiters, i, t)
      BY <1>3 DEF TypeOK, Entries, mutex_lock
    <3> QED
      BY <2>1, <3>1, ListPush
  <2>3. addr' \in [Table -> Mutexes \union {Null}]
    BY <1>3, <2>1 DEF mutex_lock, TypeOK
  <2> QED
    BY <1>3, <2>2, <2>3 DEF mutex_lock, Goto, TypeOK, Entries
<1>4. CASE Take(t)
  BY <1>4 DEF Take, Goto, TypeOK
<1>5. CASE Clear(t)
  BY <1>5 DEF Clear, Goto, TypeOK
<1>6. CASE mutex_unlock(t)
  <2>1. CASE UNCHANGED waiters /\ pc' = [pc EXCEPT ![t] = "out"]
    BY <1>6, <2>1 DEF mutex_unlock, TypeOK
  <2>2. CASE \E i \in Table :
               /\ ~list_empty(waiters, i)
               /\ waiters' = list_remove(waiters, Head(waiters[i]))
               /\ pc' = [pc EXCEPT ![t] = "out", ![Head(waiters[i])] = "take"]
    <3>1. PICK i \in Table :
            /\ ~list_empty(waiters, i)
            /\ waiters' = list_remove(waiters, Head(waiters[i]))
            /\ pc' = [pc EXCEPT ![t] = "out", ![Head(waiters[i])] = "take"]
      BY <2>2
    <3>2. Head(waiters[i]) \in Threads
      BY <3>1 DEF TypeOK, list_empty
    <3>3. waiters' \in [Entries -> Seq(Threads)]
      BY <3>1, <3>2, ListRemove DEF TypeOK, Entries
    <3> QED
      BY <1>6, <3>1, <3>2, <3>3 DEF mutex_unlock, TypeOK, Entries
  <2> QED
    BY <1>6, <2>1, <2>2 DEF mutex_unlock
<1> QED
  BY <1>1, <1>2, <1>3, <1>4, <1>5, <1>6

\* A step of thread t
Runs(t) ==
  \/ \E m \in Mutexes : Lock(t, m)
  \/ Test(t) \/ mutex_lock(t) \/ Take(t) \/ Clear(t) \/ mutex_unlock(t)

\* The thread that mutex_unlock wakes is waiting.
LEMMA FirstWaits ==
  ASSUME TypeOK, OnlyWaiters, NEW i \in Table, ~list_empty(waiters, i)
  PROVE  /\ Head(waiters[i]) \in Threads /\ pc[Head(waiters[i])] = "wait"
         /\ OnList(waiters, i, Head(waiters[i]))
<1>1. waiters[i] \in Seq(Threads) /\ waiters[i] # <<>>
  BY DEF TypeOK, list_empty
<1>2. 1 \in DOMAIN waiters[i] /\ Head(waiters[i]) = waiters[i][1] /\ waiters[i][1] \in Threads
  BY <1>1
<1>3. OnList(waiters, i, waiters[i][1])
  BY <1>2 DEF OnList, Range
<1> QED
  BY <1>2, <1>3 DEF OnlyWaiters

\* What mutex_lock and mutex_unlock do to the lists
LEMMA Blocked ==
  ASSUME RunInv, NEW t \in Threads, mutex_lock(t)
  PROVE  /\ EntryFor(mutex[t]) \in Entries /\ OnePlace(waiters)'
         /\ waiters' = list_push(waiters, EntryFor(mutex[t]), t)
         /\ \A i \in Entries, u \in Threads :
              OnList(waiters, i, u)' <=> IF u = t THEN i = EntryFor(mutex[t])
                                         ELSE OnList(waiters, i, u)
<1> USE DEF RunInv
<1>1. waiters \in [Entries -> Seq(Threads)]
  BY DEF TypeOK, Entries
<1>2. PICK e \in Entries : e = EntryFor(mutex[t])
  BY EntryType
<1>3. waiters' = list_push(waiters, e, t)
  BY <1>2 DEF mutex_lock
<1>4. OnePlace(list_push(waiters, e, t))
  BY <1>1, ListPush
<1>5. \A i \in Entries : \A u :
        OnList(list_push(waiters, e, t), i, u) <=> IF u = t THEN i = e ELSE OnList(waiters, i, u)
  BY <1>1, ListPush
<1> QED
  BY <1>2, <1>3, <1>4, <1>5 DEF OnePlace, OnList

LEMMA Woken ==
  ASSUME RunInv, NEW t \in Threads, NEW i \in Table, ~list_empty(waiters, i),
         waiters' = list_remove(waiters, Head(waiters[i]))
  PROVE  /\ OnePlace(waiters)'
         /\ \A j \in Entries, u \in Threads :
              OnList(waiters, j, u)' <=> u # Head(waiters[i]) /\ OnList(waiters, j, u)
         /\ \A j \in Entries : waiters[j] = <<>> => waiters'[j] = <<>>
<1> USE DEF RunInv
<1>1. waiters \in [Entries -> Seq(Threads)]
  BY DEF TypeOK, Entries
<1>2. PICK first \in Threads : first = Head(waiters[i])
  BY FirstWaits
<1>3. waiters' = list_remove(waiters, first)
  BY <1>2
<1>4. /\ OnePlace(list_remove(waiters, first))
      /\ \A j \in Entries : \A u :
           OnList(list_remove(waiters, first), j, u) <=> u # first /\ OnList(waiters, j, u)
      /\ \A j \in Entries : ~OnList(waiters, j, first) => list_remove(waiters, first)[j] = waiters[j]
  BY <1>1, ListRemove
<1>5. \A j \in Entries : waiters[j] = <<>> => ~OnList(waiters, j, first)
  BY DEF OnList, Range
<1> QED
  BY <1>2, <1>3, <1>4, <1>5 DEF OnePlace, OnList

LEMMA ListsKept ==
  ASSUME RunInv, NEW t \in Threads, Runs(t)
  PROVE  OnePlace(waiters)' /\ OnlyWaiters'
<1> USE DEF RunInv
<1>1. CASE /\ UNCHANGED waiters /\ pc[t] # "wait"
           /\ \A u \in Threads \ {t} : pc'[u] = pc[u]
  BY <1>1 DEF OnePlace, OnlyWaiters, OnList
<1>2. CASE mutex_lock(t)
  <2>1. pc'[t] = "wait" /\ \A u \in Threads \ {t} : pc'[u] = pc[u]
    BY <1>2 DEF mutex_lock, Goto, TypeOK
  <2>2. OnlyWaiters'
    <3>1. ASSUME NEW i \in Entries, NEW u \in Threads, OnList(waiters, i, u)'
          PROVE  pc'[u] = "wait"
      <4>1. u = t \/ OnList(waiters, i, u)
        BY <1>2, <3>1, Blocked
      <4> QED
        BY <2>1, <4>1 DEF OnlyWaiters, Entries
    <3> QED
      BY <3>1 DEF OnlyWaiters, Entries, Beyond, Table
  <2> QED
    BY <1>2, <2>2, Blocked
<1>3. CASE mutex_unlock(t)
  <2>1. CASE UNCHANGED waiters /\ pc' = [pc EXCEPT ![t] = "out"]
    BY <1>1, <1>3, <2>1 DEF mutex_unlock, TypeOK
  <2>2. CASE \E i \in Table :
               /\ ~list_empty(waiters, i)
               /\ waiters' = list_remove(waiters, Head(waiters[i]))
               /\ pc' = [pc EXCEPT ![t] = "out", ![Head(waiters[i])] = "take"]
    <3>1. PICK i \in Table :
            /\ ~list_empty(waiters, i)
            /\ waiters' = list_remove(waiters, Head(waiters[i]))
            /\ pc' = [pc EXCEPT ![t] = "out", ![Head(waiters[i])] = "take"]
      BY <2>2
    <3>2. \A u \in Threads \ {t} : u # Head(waiters[i]) => pc'[u] = pc[u]
      BY <3>1, FirstWaits DEF TypeOK
    <3>3. OnlyWaiters'
      <4>1. ASSUME NEW j \in Entries, NEW u \in Threads, OnList(waiters, j, u)'
            PROVE  pc'[u] = "wait"
        <5>1. u # Head(waiters[i]) /\ OnList(waiters, j, u)
          BY <3>1, <4>1, Woken
        <5>2. pc[u] = "wait"
          BY <5>1 DEF OnlyWaiters, Entries
        <5>3. u # t
          BY <1>3, <5>2 DEF mutex_unlock
        <5> QED
          BY <3>2, <5>1, <5>2, <5>3
      <4> QED
        BY <4>1 DEF OnlyWaiters, Entries, Beyond, Table
    <3> QED
      BY <3>1, <3>3, Woken
  <2> QED
    BY <1>3, <2>1, <2>2 DEF mutex_unlock
<1>4. CASE ~mutex_lock(t) /\ ~mutex_unlock(t)
  <2>1. UNCHANGED waiters /\ pc[t] # "wait" /\ \A u \in Threads \ {t} : pc'[u] = pc[u]
    BY <1>4 DEF Runs, Lock, Test, Take, Clear, Goto, TypeOK
  <2> QED
    BY <1>1, <2>1
<1> QED
  BY <1>2, <1>3, <1>4

LEMMA StepRuns ==
  ASSUME RunInv, NEW t \in Threads, Runs(t)
  PROVE  RunInv'
<1> USE DEF RunInv
<1>1. TypeOK' /\ OnePlace(waiters)' /\ OnlyWaiters'
  BY StepTypes, ListsKept DEF Runs
<1>2. CASE \E m \in Mutexes : Lock(t, m)
  <2>1. PICK m \in Mutexes : Lock(t, m)
    BY <1>2
  <2>2. /\ pc[t] = "out" /\ pc'[t] = "test" /\ mutex'[t] = m /\ UNCHANGED lock
        /\ \A u \in Threads \ {t} : pc'[u] = pc[u] /\ mutex'[u] = mutex[u]
    BY <2>1 DEF Lock, Goto, TypeOK
  <2>3. Called'
    BY <2>2 DEF Called
  <2>4. HeldBy'
    BY <2>2 DEF HeldBy
  <2>5. SomeoneRuns'
    BY <2>2 DEF SomeoneRuns
  <2> QED
    BY <1>1, <2>3, <2>4, <2>5
<1>3. CASE Test(t)
  <2>1. /\ pc[t] = "test" /\ pc'[t] = (IF lock[mutex[t]] = 1 THEN "call" ELSE "take")
        /\ UNCHANGED <<lock, mutex>> /\ \A u \in Threads \ {t} : pc'[u] = pc[u]
    BY <1>3 DEF Test, Goto, TypeOK
  <2>2. Called'
    BY <2>1 DEF Called
  <2>3. HeldBy'
    BY <2>1 DEF HeldBy
  <2>4. SomeoneRuns'
    <3>1. CASE lock[mutex[t]] = 1
      <4>1. PICK u \in Threads : pc[u] = "in" /\ mutex[u] = mutex[t]
        BY <2>1, <3>1 DEF HeldBy, Called
      <4> QED
        BY <2>1, <4>1 DEF SomeoneRuns
    <3>2. CASE lock[mutex[t]] # 1
      BY <2>1, <3>2 DEF SomeoneRuns
    <3> QED
      BY <3>1, <3>2
  <2> QED
    BY <1>1, <2>2, <2>3, <2>4
<1>4. CASE mutex_lock(t)
  <2>1. /\ pc[t] = "call" /\ pc'[t] = "wait"
        /\ UNCHANGED <<lock, mutex>> /\ \A u \in Threads \ {t} : pc'[u] = pc[u]
    BY <1>4 DEF mutex_lock, Goto, TypeOK
  <2>2. Called'
    BY <2>1 DEF Called
  <2>3. HeldBy'
    BY <2>1 DEF HeldBy
  <2>4. SomeoneRuns'
    BY <2>1 DEF SomeoneRuns
  <2> QED
    BY <1>1, <2>2, <2>3, <2>4
<1>5. CASE Take(t)
  <2>1. /\ pc[t] = "take" /\ pc'[t] = "in" /\ lock' = [lock EXCEPT ![mutex[t]] = 1]
        /\ UNCHANGED mutex /\ \A u \in Threads \ {t} : pc'[u] = pc[u]
    BY <1>5 DEF Take, Goto, TypeOK
  <2>2. Called'
    BY <2>1 DEF Called
  <2>3. HeldBy'
    <3>1. ASSUME NEW m \in Mutexes, lock'[m] = 1
          PROVE  \E u \in Threads : pc'[u] = "in" /\ mutex'[u] = m
      <4>1. CASE m = mutex[t]
        BY <2>1, <4>1
      <4>2. CASE m # mutex[t]
        <5>1. lock[m] = 1
          BY <2>1, <3>1, <4>2 DEF TypeOK
        <5>2. PICK u \in Threads : pc[u] = "in" /\ mutex[u] = m
          BY <5>1 DEF HeldBy
        <5> QED
          BY <2>1, <5>2
      <4> QED
        BY <4>1, <4>2
    <3> QED
      BY <3>1 DEF HeldBy
  <2>4. SomeoneRuns'
    BY <2>1 DEF SomeoneRuns
  <2> QED
    BY <1>1, <2>2, <2>3, <2>4
<1>6. CASE Clear(t)
  <2>1. /\ pc[t] = "in" /\ pc'[t] = "signal" /\ lock' = [lock EXCEPT ![mutex[t]] = 0]
        /\ UNCHANGED mutex /\ \A u \in Threads \ {t} : pc'[u] = pc[u]
    BY <1>6 DEF Clear, Goto, TypeOK
  <2>2. Called'
    BY <2>1 DEF Called
  <2>3. HeldBy'
    <3>1. ASSUME NEW m \in Mutexes, lock'[m] = 1
          PROVE  \E u \in Threads : pc'[u] = "in" /\ mutex'[u] = m
      <4>1. m # mutex[t] /\ lock[m] = 1
        BY <2>1, <3>1 DEF TypeOK
      <4>2. PICK u \in Threads : pc[u] = "in" /\ mutex[u] = m
        BY <4>1 DEF HeldBy
      <4> QED
        BY <2>1, <4>1, <4>2
    <3> QED
      BY <3>1 DEF HeldBy
  <2>4. SomeoneRuns'
    BY <2>1 DEF SomeoneRuns
  <2> QED
    BY <1>1, <2>2, <2>3, <2>4
<1>7. CASE mutex_unlock(t)
  <2>1. /\ pc[t] = "signal" /\ UNCHANGED lock
        /\ \A u \in Threads \ {t} : mutex'[u] = mutex[u]
    BY <1>7 DEF mutex_unlock, TypeOK
  <2>2. /\ \/ pc'[t] = "out"
           \/ pc'[t] = "take" /\ pc[t] = "wait"
        /\ \A u \in Threads \ {t} : pc'[u] = pc[u] \/ (pc[u] = "wait" /\ pc'[u] = "take")
    <3>1. CASE pc' = [pc EXCEPT ![t] = "out"]
      BY <3>1 DEF TypeOK
    <3>2. CASE \E i \in Table :
                 ~list_empty(waiters, i)
                 /\ pc' = [pc EXCEPT ![t] = "out", ![Head(waiters[i])] = "take"]
      <4>1. PICK i \in Table :
              ~list_empty(waiters, i)
              /\ pc' = [pc EXCEPT ![t] = "out", ![Head(waiters[i])] = "take"]
        BY <3>2
      <4>2. Head(waiters[i]) \in Threads /\ pc[Head(waiters[i])] = "wait"
        BY <4>1, FirstWaits
      <4> QED
        BY <4>1, <4>2 DEF TypeOK
    <3> QED
      BY <1>7, <3>1, <3>2 DEF mutex_unlock
  <2>3. pc'[t] = "out"
    BY <2>1, <2>2
  <2>4. Called'
    BY <2>1, <2>2, <2>3 DEF Called
  <2>5. HeldBy'
    <3>1. ASSUME NEW m \in Mutexes, lock'[m] = 1
          PROVE  \E u \in Threads : pc'[u] = "in" /\ mutex'[u] = m
      <4>1. PICK u \in Threads : pc[u] = "in" /\ mutex[u] = m
        BY <2>1, <3>1 DEF HeldBy
      <4> QED
        BY <2>1, <2>2, <4>1
    <3> QED
      BY <3>1 DEF HeldBy
  <2>6. SomeoneRuns'
    BY <2>3 DEF SomeoneRuns
  <2> QED
    BY <1>1, <2>4, <2>5, <2>6
<1> QED
  BY <1>2, <1>3, <1>4, <1>5, <1>6, <1>7 DEF Runs

LEMMA RunInductive == Spec => []RunInv
<1>1. RunInv /\ [Next]_vars => RunInv'
  <2>1. CASE Next
    BY <2>1, StepRuns DEF Next, Runs
  <2>2. CASE UNCHANGED vars
    BY <2>2 DEF vars, RunInv, TypeOK, Called, HeldBy, SomeoneRuns, OnePlace, OnlyWaiters, OnList
  <2> QED
    BY <2>1, <2>2
<1> QED
  BY <1>1, RunInit, PTL DEF Spec

\* Threads that lock and unlock one mutex at a time (pthread_mutex_lock,
\* pthread_mutex_unlock) never all wait, whatever their number, that of the
\* mutexes and the order in which they are preempted.
THEOREM NeverAllWait == Spec => []SomeoneRuns
<1>1. RunInv => SomeoneRuns
  BY DEF RunInv
<1> QED
  BY <1>1, RunInductive, PTL
-----------------------------------------------------------------------------
(* The table of mutexes *)

\* A caller finds a free entry: of the other threads one runs, so fewer wait
\* than there are entries.
LEMMA FreeEntry ==
  ASSUME RoomInTable, RunInv, NEW t \in Threads, pc[t] = "call"
  PROVE  \E i \in Table : list_empty(waiters, i)
<1> USE DEF RunInv
<1>1. PICK u \in Threads : pc[u] \notin {"call", "wait"}
  BY DEF SomeoneRuns
<1> DEFINE others == (Threads \ {t}) \ {u}
           first == [i \in Table |-> Head(waiters[i])]
<1>2. IsFiniteSet(others) /\ Cardinality(others) = Cardinality(Threads) - 2
      /\ Cardinality(Threads) \in Nat
  <2>1. IsFiniteSet(Threads \ {t}) /\ Cardinality(Threads \ {t}) = Cardinality(Threads) - 1
    BY FS_RemoveElement DEF RoomInTable
  <2>2. u \in Threads \ {t}
    BY <1>1
  <2>3. IsFiniteSet(others) /\ Cardinality(others) = Cardinality(Threads \ {t}) - 1
    BY <2>1, <2>2, FS_RemoveElement
  <2>4. Cardinality(Threads) \in Nat
    BY FS_CardinalityType DEF RoomInTable
  <2> QED
    BY <2>1, <2>3, <2>4
<1>3. IsFiniteSet(Table) /\ Cardinality(Table) = MUTEX_LIMIT /\ MUTEX_LIMIT \in Nat
  BY MutexAssumption, FS_Interval DEF Table
<1>4. SUFFICES ASSUME \A i \in Table : ~list_empty(waiters, i)
               PROVE  FALSE
  OBVIOUS
<1>5. first \in Injection(Table, others)
  <2>1. \A i \in Table : Head(waiters[i]) \in others
    BY <1>1, <1>4, FirstWaits
  <2>2. ASSUME NEW i \in Table, NEW j \in Table, Head(waiters[i]) = Head(waiters[j])
        PROVE  i = j
    <3>1. OnList(waiters, i, Head(waiters[i])) /\ OnList(waiters, j, Head(waiters[i]))
      BY <1>4, <2>2, FirstWaits
    <3>2. DOMAIN waiters = Table \union {Beyond}
      BY DEF TypeOK
    <3> QED
      BY <3>1, <3>2 DEF OnePlace, OnList, Range
  <2> QED
    BY <2>1, <2>2 DEF Injection, IsInjective
<1>6. Cardinality(Table) <= Cardinality(others)
  BY <1>2, <1>5, FS_Injection
<1> QED
  BY <1>2, <1>3, <1>6 DEF RoomInTable

\* The entry of a mutex: its own, or a new one that nobody uses
LEMMA EntryFound ==
  ASSUME RoomInTable, IInv, NEW t \in Threads, pc[t] = "call", NEW m \in Mutexes
  PROVE  /\ EntryFor(m) \in Table
         /\ \/ addr[EntryFor(m)] = m
            \/ waiters[EntryFor(m)] = <<>> /\ \A i \in Table : addr[i] # m
<1> DEFINE found == {i \in Table : addr[i] = m}
           free == {i \in Table : list_empty(waiters, i)}
<1>1. CASE found # {}
  <2>1. Min(found) \in found
    BY <1>1, LeastEntry
  <2> QED
    BY <1>1, <2>1 DEF EntryFor
<1>2. CASE found = {}
  <2>1. free # {}
    BY FreeEntry DEF IInv
  <2>2. Min(free) \in free
    BY <2>1, LeastEntry
  <2> QED
    BY <1>2, <2>1, <2>2 DEF EntryFor, list_empty
<1> QED
  BY <1>1, <1>2

LEMMA LockTable ==
  ASSUME RoomInTable, IInv, NEW t \in Threads, mutex_lock(t)
  PROVE  OneEntry' /\ AtEntry'
<1> USE DEF IInv, RunInv
<1>1. /\ pc[t] = "call" /\ pc'[t] = "wait" /\ mutex[t] \in Mutexes
      /\ UNCHANGED mutex /\ \A u \in Threads \ {t} : pc'[u] = pc[u]
  BY DEF mutex_lock, Goto, TypeOK, Called
<1>2. PICK m \in Mutexes : m = mutex[t]
  BY <1>1
<1>3. PICK e \in Table :
        /\ e = EntryFor(m)
        /\ addr[e] = m \/ (waiters[e] = <<>> /\ \A i \in Table : addr[i] # m)
  BY <1>1, EntryFound
<1>4. addr' = [addr EXCEPT ![e] = m] /\ addr'[e] = m
      /\ \A i \in Table \ {e} : addr'[i] = addr[i]
  BY <1>2, <1>3 DEF mutex_lock, TypeOK
<1>5. \A i \in Table, u \in Threads :
        OnList(waiters, i, u)' <=> IF u = t THEN i = e ELSE OnList(waiters, i, u)
  BY <1>2, <1>3, Blocked DEF Entries
<1>6. OneEntry'
  <2>1. \A i \in Table \ {e} : addr[i] # m \/ addr[i] = addr[e]
    BY <1>3
  <2>2. m # Null
    BY MutexAssumption
  <2> QED
    BY <1>3, <1>4, <2>1, <2>2 DEF OneEntry
<1>7. waiters'[Beyond] = <<>>
  <2>1. waiters \in [Entries -> Seq(Threads)] /\ Beyond \in Entries /\ e \in Entries
    BY DEF TypeOK, Entries
  <2>2. Beyond # e
    BY MutexAssumption DEF Table, Beyond
  <2>3. ~OnList(waiters, Beyond, t)
    BY <1>1 DEF OnlyWaiters
  <2>4. waiters' = list_push(waiters, e, t)
    BY <1>2, <1>3, Blocked
  <2>5. \A k \in Entries \ {e} : ~OnList(waiters, k, t) => list_push(waiters, e, t)[k] = waiters[k]
    BY <2>1, ListPush
  <2> QED
    BY <2>1, <2>2, <2>3, <2>4, <2>5 DEF AtEntry
<1>8. ASSUME NEW i \in Table, NEW u \in Threads, OnList(waiters, i, u)'
      PROVE  addr'[i] = mutex'[u]
  <2>1. CASE u = t
    BY <1>1, <1>2, <1>4, <1>5, <1>8, <2>1
  <2>2. CASE u # t
    <3>1. OnList(waiters, i, u) /\ addr[i] = mutex[u]
      BY <1>5, <1>8, <2>2 DEF AtEntry
    <3>2. waiters[i] # <<>>
      BY <3>1 DEF OnList, Range
    <3> QED
      BY <1>1, <1>3, <1>4, <3>1, <3>2
  <2> QED
    BY <2>1, <2>2
<1>9. ASSUME NEW u \in Threads, pc'[u] = "wait"
      PROVE  \E i \in Table : OnList(waiters, i, u)'
  BY <1>1, <1>5, <1>9 DEF AtEntry
<1> QED
  BY <1>6, <1>7, <1>8, <1>9 DEF AtEntry, OnList, Range, Beyond, Table

LEMMA UnlockTable ==
  ASSUME IInv, NEW t \in Threads, mutex_unlock(t)
  PROVE  OneEntry' /\ AtEntry'
<1> USE DEF IInv, RunInv
<1>1. /\ pc[t] = "signal" /\ UNCHANGED addr
      /\ \A u \in Threads \ {t} : mutex'[u] = mutex[u]
  BY DEF mutex_unlock, TypeOK
<1>2. OneEntry'
  BY <1>1 DEF OneEntry, Table
<1>3. CASE UNCHANGED waiters /\ pc' = [pc EXCEPT ![t] = "out"]
  <2>1. \A i \in Table : ~OnList(waiters, i, t)
    BY <1>1 DEF OnlyWaiters
  <2>2. \A u \in Threads : pc'[u] = "wait" => pc[u] = "wait"
    BY <1>3 DEF TypeOK
  <2> QED
    BY <1>1, <1>2, <1>3, <2>1, <2>2 DEF AtEntry, OnList
<1>4. CASE \E i \in Table :
             /\ ~list_empty(waiters, i)
             /\ waiters' = list_remove(waiters, Head(waiters[i]))
             /\ pc' = [pc EXCEPT ![t] = "out", ![Head(waiters[i])] = "take"]
  <2>1. PICK i \in Table :
          /\ ~list_empty(waiters, i)
          /\ waiters' = list_remove(waiters, Head(waiters[i]))
          /\ pc' = [pc EXCEPT ![t] = "out", ![Head(waiters[i])] = "take"]
    BY <1>4
  <2>2. PICK first \in Threads : first = Head(waiters[i])
    BY <2>1, FirstWaits
  <2>3. \A j \in Entries, u \in Threads :
          OnList(waiters, j, u)' <=> u # first /\ OnList(waiters, j, u)
    BY <2>1, <2>2, Woken
  <2>4. waiters'[Beyond] = <<>>
    BY <2>1, Woken DEF AtEntry, Entries
  <2>5. \A j \in Table : ~OnList(waiters, j, t)
    BY <1>1 DEF OnlyWaiters
  <2>6. \A j \in Table, u \in Threads : OnList(waiters, j, u)' => addr'[j] = mutex'[u]
    BY <1>1, <2>3, <2>5 DEF AtEntry, Entries
  <2>7. \A u \in Threads : pc'[u] = "wait" => pc[u] = "wait" /\ u # first
    BY <2>1, <2>2 DEF TypeOK
  <2>8. \A u \in Threads : pc'[u] = "wait" => \E j \in Table : OnList(waiters, j, u)'
    BY <2>3, <2>7 DEF AtEntry, Entries
  <2> QED
    BY <1>2, <2>4, <2>6, <2>8 DEF AtEntry, OnList, Range, Beyond, Table
<1> QED
  BY <1>3, <1>4 DEF mutex_unlock

LEMMA StepTable ==
  ASSUME RoomInTable, IInv, NEW t \in Threads, Runs(t)
  PROVE  IInv'
<1> USE DEF IInv, RunInv
<1>1. RunInv'
  BY StepRuns
<1>2. CASE ~mutex_lock(t) /\ ~mutex_unlock(t)
  <2>1. /\ UNCHANGED <<waiters, addr>> /\ pc[t] # "wait" /\ pc'[t] # "wait"
        /\ \A u \in Threads \ {t} : pc'[u] = pc[u] /\ mutex'[u] = mutex[u]
    BY <1>2 DEF Runs, Lock, Test, Take, Clear, Goto, TypeOK
  <2>2. \A i \in Table : ~OnList(waiters, i, t)
    BY <2>1 DEF OnlyWaiters
  <2>3. OneEntry' /\ AtEntry'
    BY <2>1, <2>2 DEF OneEntry, AtEntry, OnList
  <2> QED
    BY <1>1, <2>3
<1>3. CASE mutex_lock(t) \/ mutex_unlock(t)
  BY <1>1, <1>3, LockTable, UnlockTable
<1> QED
  BY <1>2, <1>3

\* While no more threads compete than the table has entries, and one, each
\* waiter is on the list of the one entry that holds its mutex, where
\* mutex_unlock looks (the mutex calls of kernel.c).
THEOREM WaitersAreFound ==
  ASSUME RoomInTable
  PROVE  Spec => []WaitersFound
<1>1. Init => IInv
  <2>1. Init => OneEntry /\ AtEntry
    BY DEF Init, OneEntry, AtEntry, OnList, Range
  <2> QED
    BY <2>1, RunInit DEF IInv
<1>2. IInv /\ [Next]_vars => IInv'
  <2>1. ASSUME IInv, Next PROVE IInv'
    BY <2>1, StepTable DEF Next, Runs
  <2>2. ASSUME IInv, UNCHANGED vars PROVE IInv'
    BY <2>2 DEF vars, IInv, RunInv, TypeOK, Called, HeldBy, SomeoneRuns, OnePlace,
                OnlyWaiters, OneEntry, AtEntry, OnList
  <2> QED
    BY <2>1, <2>2
<1>3. IInv => WaitersFound
  <2> SUFFICES ASSUME IInv, NEW t \in Threads, pc[t] = "wait"
               PROVE  \E i \in Table : /\ OnList(waiters, i, t)
                                       /\ \A j \in Table : addr[j] = mutex[t] <=> j = i
    BY DEF WaitersFound
  <2>1. PICK i \in Table : OnList(waiters, i, t) /\ addr[i] = mutex[t]
    BY DEF IInv, AtEntry
  <2>2. mutex[t] # Null
    BY MutexAssumption DEF IInv, RunInv, Called
  <2> QED
    BY <2>1, <2>2 DEF IInv, OneEntry
<1> QED
  BY <1>1, <1>2, <1>3, PTL DEF Spec
=============================================================================
