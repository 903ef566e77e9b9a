----------------------------- MODULE LinkedList -----------------------------
(***************************************************************************)
(* src/list.c on its pointers: every head and every task's list node has a *)
(* prev and a next, lists are circular through their head, and each        *)
(* operation is the sequence of assignments the code makes, in its order,  *)
(* aliases included.  list_for_each_safe is modelled with what             *)
(* event_monitor_serve does in its body: the node visited may be pushed on *)
(* another list.                                                           *)
(***************************************************************************)
EXTENDS FiniteSets, Integers, Sequences

CONSTANTS
  Heads,   \* ready_list[], events[].list
  Items,   \* tasks[].list
  Null

ASSUME NodesAssumption ==
  /\ Heads \intersect Items = {} /\ Null \notin Heads \union Items
  /\ IsFiniteSet(Heads \union Items)

Nodes == Heads \union Items

VARIABLES
  ptr,     \* [next, prev]: the pointers of every node
  loose,   \* items on no list whose own pointers mean nothing: never
           \* initialised, or left behind by list_remove and list_shift
  walk     \* list_for_each_safe in progress: its head, curr and next

vars == <<ptr, loose, walk>>

SetNext(m, n, to) == [m EXCEPT !.next[n] = to]
SetPrev(m, n, to) == [m EXCEPT !.prev[n] = to]

list_init(m, n) == SetNext(SetPrev(m, n, n), n, n)

list_remove(m, n) ==
  LET m1 == SetPrev(m, m.next[n], m.prev[n])
  IN SetNext(m1, m1.prev[n], m1.next[n])

list_unshift(m, l, n) ==
  LET m1 == list_remove(m, n)
      m2 == SetPrev(m1, m1.next[l], n)
      m3 == SetNext(m2, n, m2.next[l])
      m4 == SetPrev(m3, n, l)
  IN SetNext(m4, l, n)

\* mutants of list_push: at the wrong end; the node's prev is not set
list_push_first(m, l, n) == list_unshift(m, l, n)
list_push_noprev(m, l, n) ==
  LET m1 == SetNext(m, m.prev[n], m.next[n])
      m2 == SetPrev(m1, m1.next[n], m1.prev[n])
      m3 == SetNext(m2, m2.prev[l], n)
      m4 == SetNext(m3, n, l)
  IN SetPrev(m4, l, n)

list_push(m, l, n) ==
  LET m1 == SetNext(m, m.prev[n], m.next[n])
      m2 == SetPrev(m1, m1.next[n], m1.prev[n])
      m3 == SetNext(m2, m2.prev[l], n)
      m4 == SetNext(m3, n, l)
      m5 == SetPrev(m4, n, m4.prev[l])
  IN SetPrev(m5, l, n)

\* Unlinks the first node of l, which is not empty
list_shift(m, l) ==
  LET m1 == SetNext(m, l, m.next[m.next[l]])
  IN SetPrev(m1, m1.next[l], l)

NoWalk == [head |-> Null, curr |-> Null, next |-> Null]

Init ==
  /\ ptr = [next |-> [n \in Nodes |-> IF n \in Heads THEN n ELSE Null],
            prev |-> [n \in Nodes |-> IF n \in Heads THEN n ELSE Null]]
  /\ loose = Items
  /\ walk = NoWalk

Idle == walk = NoWalk /\ UNCHANGED walk

\* task_create: the slot's node is initialised before it is pushed.
InitNode(n) ==
  /\ Idle /\ n \in loose
  /\ ptr' = list_init(ptr, n)
  /\ loose' = loose \ {n}

Remove(n) ==
  /\ Idle /\ n \in Items \ loose
  /\ ptr' = list_remove(ptr, n)
  /\ loose' = loose \union {n}

Push(l, n) ==
  /\ Idle /\ n \in Items \ loose
  /\ ptr' = list_push(ptr, l, n)
  /\ UNCHANGED loose

Unshift(l, n) ==
  /\ Idle /\ n \in Items \ loose
  /\ ptr' = list_unshift(ptr, l, n)
  /\ UNCHANGED loose

Shift(l) ==
  /\ Idle /\ ptr.next[l] # l
  /\ ptr' = list_shift(ptr, l)
  /\ loose' = loose \union {ptr.next[l]}

\* list_for_each_safe (list.h): next is read before the body runs.
StartWalk(l) ==
  /\ walk = NoWalk
  /\ walk' = [head |-> l, curr |-> ptr.next[l], next |-> ptr.next[ptr.next[l]]]
  /\ UNCHANGED <<ptr, loose>>

\* mutant: list_for_each, which reads next after the body
Advance_after(m) ==
  LET n == m.next[walk.curr]
  IN IF n = walk.head
       THEN walk' = NoWalk
       ELSE walk' = [walk EXCEPT !.curr = n, !.next = m.next[n]]

Advance(m) ==
  IF walk.next = walk.head
    THEN walk' = NoWalk
    ELSE walk' = [walk EXCEPT !.curr = walk.next, !.next = m.next[walk.next]]

\* The handler keeps curr on the list ...
KeepCurr ==
  /\ walk # NoWalk /\ walk.curr # walk.head
  /\ Advance(ptr)
  /\ UNCHANGED <<ptr, loose>>

\* ... or releases it to a ready list.
MoveCurr(l) ==
  /\ walk # NoWalk /\ walk.curr # walk.head /\ l # walk.head
  /\ ptr' = list_push(ptr, l, walk.curr)
  /\ Advance(ptr')
  /\ UNCHANGED loose

EndEmptyWalk ==
  /\ walk # NoWalk /\ walk.curr = walk.head
  /\ walk' = NoWalk
  /\ UNCHANGED <<ptr, loose>>

Next ==
  \/ \E n \in Items : InitNode(n) \/ Remove(n)
  \/ \E l \in Heads, n \in Items : Push(l, n) \/ Unshift(l, n)
  \/ \E l \in Heads : Shift(l) \/ StartWalk(l) \/ MoveCurr(l)
  \/ KeepCurr
  \/ EndEmptyWalk

Spec == Init /\ [][Next]_vars

-----------------------------------------------------------------------------
(* Properties *)

TypeOK ==
  /\ ptr \in [next : [Nodes -> Nodes \union {Null}], prev : [Nodes -> Nodes \union {Null}]]
  /\ loose \subseteq Items
  /\ walk \in [head : Heads \union {Null}, curr : Nodes \union {Null},
               next : Nodes \union {Null}]

\* next and prev are inverse on everything that is not loose, and never lead
\* to a loose node: no assignment order or alias breaks a ring.
DoublyLinked ==
  \A n \in Nodes \ loose :
    /\ ptr.next[n] \in Nodes \ loose /\ ptr.prev[ptr.next[n]] = n
    /\ ptr.prev[n] \in Nodes \ loose /\ ptr.next[ptr.prev[n]] = n

\* The nodes met from head l along next
Chain(l) ==
  LET hop[i \in 0 .. Cardinality(Nodes)] == IF i = 0 THEN l ELSE ptr.next[hop[i - 1]]
      size == CHOOSE n \in 0 .. Cardinality(Nodes) - 1 :
                hop[n + 1] = l /\ \A k \in 1 .. n : hop[k] # l
  IN [i \in 1 .. size |-> hop[i]]

Chains == [l \in Heads |-> Chain(l)]

\* The promise of each operation, on sequences
L == INSTANCE Lists

\* What each operation does to the sequences that the chains are
StepsOnLists ==
  /\ \A n \in Items :
       /\ InitNode(n) => Chains' = Chains
       /\ Remove(n) => Chains' = L!list_remove(Chains, n)
  /\ \A l \in Heads :
       /\ \A n \in Items :
            /\ Push(l, n) => Chains' = L!list_push(Chains, l, n)
            /\ Unshift(l, n) => Chains' = L!list_unshift(Chains, l, n)
       /\ Shift(l) => Chains' = [Chains EXCEPT ![l] = Tail(@)]
       /\ MoveCurr(l) => Chains' = L!list_push(Chains, l, walk.curr)

\* The assignments to pointers amount to the operations on sequences that
\* Kernel uses: the node goes where it should, from wherever it was, every other
\* node stays, and so does the order.
ImplementsLists == [][StepsOnLists]_vars

\* The saved next of a walk stays on the list walked while curr goes away: the
\* scan meets every waiter and ends at its own head.
WalkStaysOnList ==
  walk # NoWalk /\ walk.curr # walk.head =>
    LET c == Chain(walk.head)
    IN \E i \in DOMAIN c :
         /\ c[i] = walk.curr
         /\ walk.next = IF i = Len(c) THEN walk.head ELSE c[i + 1]
=============================================================================
