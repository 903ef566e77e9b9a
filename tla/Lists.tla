------------------------------- MODULE Lists -------------------------------
(***************************************************************************)
(* The kernel's intrusive lists (src/list.c) seen as what they promise:    *)
(* a function q from list heads to the sequence of the nodes linked on     *)
(* each.  A task control block has ONE list node, so an operation that     *)
(* links a node on a list first unlinks it from whichever list holds it,   *)
(* and no operation is told which list that is.                            *)
(*                                                                         *)
(* LinkedList.tla models the same operations on prev/next pointers and is  *)
(* checked to implement these.                                             *)
(***************************************************************************)
EXTENDS SequencesExt

\* list_remove(n): n leaves the list that holds it, if any.
list_remove(q, n) ==
  [l \in DOMAIN q |-> RemoveFirst(q[l], n)]

\* list_push(l, n): n leaves its list and becomes the last node of l.
list_push(q, l, n) ==
  [list_remove(q, n) EXCEPT ![l] = Append(@, n)]

\* list_unshift(l, n): n leaves its list and becomes the first node of l.
list_unshift(q, l, n) ==
  [list_remove(q, n) EXCEPT ![l] = <<n>> \o @]

\* list_empty(l)
list_empty(q, l) == q[l] = <<>>

\* The node l.next points to, when l is not empty.
IsFirst(q, l, n) == ~list_empty(q, l) /\ Head(q[l]) = n

OnList(q, l, n) == n \in Range(q[l])

-----------------------------------------------------------------------------
(***************************************************************************)
(* What every user of the lists relies on: a node is at one place of one   *)
(* list at most.                                                           *)
(***************************************************************************)
OnePlace(q) ==
  \A l, k \in DOMAIN q :
    \A i \in DOMAIN q[l], j \in DOMAIN q[k] :
      q[l][i] = q[k][j] => l = k /\ i = j

Linked(q, n) == \E l \in DOMAIN q : OnList(q, l, n)
=============================================================================
