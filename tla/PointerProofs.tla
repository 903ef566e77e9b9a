--------------------------- MODULE PointerProofs ---------------------------
(***************************************************************************)
(* The two kinds of pointers the system has.                               *)
(*                                                                         *)
(* LinkedList for any heads and items: the pointer assignments of list.c   *)
(* keep every ring doubly linked and amount to the operations of Lists on  *)
(* sequences, and a walk stays on its list.  Which list a node is on, and  *)
(* where, is nowhere in the code.  The invariant says that there are such  *)
(* lists, and how the pointers lie along them.                             *)
(*                                                                         *)
(* Malloc for any heap and demands: the free blocks are one circular list  *)
(* in order of address, they and the blocks in use fill the heap below the *)
(* break, and malloc and free are the operations of Allocator.             *)
(***************************************************************************)
EXTENDS LinkedList, Malloc, SequenceTheorems, FiniteSetTheorems, TLAPS

Lemmas == INSTANCE ListProofs

Pointers == [next : [Nodes -> Nodes \union {Null}], prev : [Nodes -> Nodes \union {Null}]]

\* What unlinking n and linking n behind q amount to
Unlink(m, n) ==
  [next |-> [m.next EXCEPT ![m.prev[n]] = m.next[n]],
   prev |-> [m.prev EXCEPT ![m.next[n]] = m.prev[n]]]

Link(m, q, n) ==
  [next |-> [[m.next EXCEPT ![q] = n] EXCEPT ![n] = m.next[q]],
   prev |-> [[m.prev EXCEPT ![m.next[q]] = n] EXCEPT ![n] = q]]

\* The pointers of the nodes A are inverse and stay in A.
LinkedIn(m, A) ==
  \A n \in A :
    /\ m.next[n] \in A /\ m.prev[m.next[n]] = n
    /\ m.prev[n] \in A /\ m.next[m.prev[n]] = n

\* The node behind i others from head l, and l itself before the first and behind the last
At(s, l, i) == IF i \in 1 .. Len(s) THEN s[i] ELSE l

\* The rings among the nodes A are the lists q, and items on no list are alone.
Laid(m, q, A) ==
  /\ q \in [Heads -> Seq(Items)] /\ Lemmas!OnePlace(q)
  /\ \A l \in Heads : \A i \in 1 .. Len(q[l]) : q[l][i] \in A
  /\ \A l \in Heads : \A i \in 0 .. Len(q[l]) : m.next[At(q[l], l, i)] = At(q[l], l, i + 1)
  /\ \A n \in A \ Heads : (\A l \in Heads : ~Lemmas!OnList(q, l, n)) => m.next[n] = n

\* The pointers of the nodes A, when they are the lists q
Rings(m, q, A) ==
  /\ A \in SUBSET Nodes /\ Heads \subseteq A
  /\ m \in Pointers /\ LinkedIn(m, A) /\ Laid(m, q, A)

-----------------------------------------------------------------------------
(* The assignments *)

LEMMA SetPointers ==
  ASSUME NEW m \in Pointers, NEW n \in Nodes, NEW to \in Nodes \union {Null}
  PROVE  /\ SetNext(m, n, to) \in Pointers /\ SetPrev(m, n, to) \in Pointers
         /\ SetNext(m, n, to) = [next |-> [m.next EXCEPT ![n] = to], prev |-> m.prev]
         /\ SetPrev(m, n, to) = [next |-> m.next, prev |-> [m.prev EXCEPT ![n] = to]]
BY DEF Pointers, SetNext, SetPrev

LEMMA Fields ==
  ASSUME NEW m \in Pointers, NEW f, NEW g, m.next = f, m.prev = g
  PROVE  m = [next |-> f, prev |-> g]
BY DEF Pointers

LEMMA UnlinkType ==
  ASSUME NEW m \in Pointers, NEW n \in Nodes, m.next[n] \in Nodes, m.prev[n] \in Nodes
  PROVE  Unlink(m, n) \in Pointers
BY DEF Pointers, Unlink

LEMMA RemoveUnlinks ==
  ASSUME NEW m \in Pointers, NEW n \in Nodes, m.next[n] \in Nodes, m.prev[n] \in Nodes,
         m.next[n] = n <=> m.prev[n] = n
  PROVE  list_remove(m, n) = Unlink(m, n)
<1> DEFINE p == m.prev[n]
           x == m.next[n]
           m1 == SetPrev(m, x, p)
<1>1. m1 = [next |-> m.next, prev |-> [m.prev EXCEPT ![x] = p]] /\ m1 \in Pointers
  BY SetPointers
<1>2. m1.prev[n] = p /\ m1.next[n] = x
  BY <1>1 DEF Pointers
<1>3. SetNext(m1, p, x) = [next |-> [m1.next EXCEPT ![p] = x], prev |-> m1.prev]
  BY <1>1, SetPointers
<1> QED
  BY <1>1, <1>2, <1>3 DEF list_remove, Unlink

LEMMA PushLinks ==
  ASSUME NEW m \in Pointers, NEW n \in Nodes, m.next[n] \in Nodes, m.prev[n] \in Nodes,
         NEW u, u = Unlink(m, n),
         NEW l \in Nodes \ {n}, NEW q \in Nodes \ {n}, u.prev[l] = q, u.next[q] = l
  PROVE  list_push(m, l, n) = Link(u, q, n)
<1> PICK p : p = m.prev[n]
  OBVIOUS
<1> PICK x : x = m.next[n]
  OBVIOUS
<1> PICK m1 : m1 = SetNext(m, p, x)
  OBVIOUS
<1> PICK m3 : m3 = SetNext(u, q, n)
  OBVIOUS
<1> PICK m4 : m4 = SetNext(m3, n, l)
  OBVIOUS
<1> PICK m5 : m5 = SetPrev(m4, n, q)
  OBVIOUS
<1>1. u \in Pointers /\ m1 \in Pointers /\ m3 \in Pointers
  BY UnlinkType, SetPointers
<1>2. m4 \in Pointers
  BY <1>1, SetPointers
<1>3. m5 \in Pointers
  BY <1>2, SetPointers
<1>4. m1.next = [m.next EXCEPT ![p] = x] /\ m1.prev = m.prev
  BY DEF SetNext, SetPrev, Pointers
<1>5. m1.prev[n] = p /\ m1.next[n] = x
  BY <1>4 DEF Pointers
<1>6. SetPrev(m1, x, p) = u
  <2>1. PICK m2 : m2 = SetPrev(m1, x, p)
    OBVIOUS
  <2>2. m2.next = m1.next /\ m2.prev = [m1.prev EXCEPT ![x] = p]
    BY <1>1, <2>1 DEF SetNext, SetPrev, Pointers
  <2>3. m2 \in Pointers
    BY <1>1, <2>1, SetPointers
  <2> QED
    BY <2>1, <2>2, <2>3, <1>4, Fields DEF Unlink
<1>7. m3.next = [u.next EXCEPT ![q] = n] /\ m3.prev = u.prev
  BY <1>1 DEF SetNext, SetPrev, Pointers
<1>8. m4.next = [m3.next EXCEPT ![n] = l] /\ m4.prev = m3.prev
  BY <1>1 DEF SetNext, SetPrev, Pointers
<1>9. m5.next = m4.next /\ m5.prev = [m4.prev EXCEPT ![n] = q]
  BY <1>2 DEF SetNext, SetPrev, Pointers
<1> PICK m6 : m6 = SetPrev(m5, l, n)
  OBVIOUS
<1>10. /\ m6.next = m5.next /\ m6.prev = [m5.prev EXCEPT ![l] = n]
       /\ m6 \in Pointers
  <2>1. m6.next = m5.next /\ m6.prev = [m5.prev EXCEPT ![l] = n]
    BY <1>3 DEF SetNext, SetPrev, Pointers
  <2>2. m6 \in Pointers
    BY <1>3, SetPointers
  <2> QED
    BY <2>1, <2>2
<1>11. list_push(m, l, n) = m6
  <2>1. m4.prev[l] = q
    BY <1>7, <1>8
  <2> QED
    BY <2>1, <1>5, <1>6 DEF list_push
<1>12. [[u.prev EXCEPT ![n] = q] EXCEPT ![l] = n] = [[u.prev EXCEPT ![l] = n] EXCEPT ![n] = q]
  BY <1>1 DEF Pointers
<1>13. m5.next = [[u.next EXCEPT ![q] = n] EXCEPT ![n] = l] /\ m5.prev = [u.prev EXCEPT ![n] = q]
  BY <1>7, <1>8, <1>9
<1> QED
  BY <1>10, <1>11, <1>12, <1>13, Fields DEF Link

LEMMA UnshiftLinks ==
  ASSUME NEW m \in Pointers, NEW n \in Nodes, m.next[n] \in Nodes, m.prev[n] \in Nodes,
         m.next[n] = n <=> m.prev[n] = n,
         NEW u, u = Unlink(m, n),
         NEW l \in Nodes \ {n}, NEW y \in Nodes \ {n}, u.next[l] = y
  PROVE  list_unshift(m, l, n) = Link(u, l, n)
<1> PICK m2 : m2 = SetPrev(u, y, n)
  OBVIOUS
<1> PICK m3 : m3 = SetNext(m2, n, y)
  OBVIOUS
<1> PICK m4 : m4 = SetPrev(m3, n, l)
  OBVIOUS
<1>1. u \in Pointers /\ list_remove(m, n) = u
  BY UnlinkType, RemoveUnlinks
<1>2. m2 \in Pointers
  BY <1>1, SetPointers
<1>3. m3 \in Pointers
  BY <1>2, SetPointers
<1>4. m4 \in Pointers
  BY <1>3, SetPointers
<1>5. m2.next = u.next /\ m2.prev = [u.prev EXCEPT ![y] = n]
  BY <1>1 DEF SetNext, SetPrev, Pointers
<1>6. m3.next = [m2.next EXCEPT ![n] = y] /\ m3.prev = m2.prev
  BY <1>2 DEF SetNext, SetPrev, Pointers
<1>7. m4.next = m3.next /\ m4.prev = [m3.prev EXCEPT ![n] = l]
  BY <1>3 DEF SetNext, SetPrev, Pointers
<1> PICK m5 : m5 = SetNext(m4, l, n)
  OBVIOUS
<1>8. /\ m5.next = [m4.next EXCEPT ![l] = n] /\ m5.prev = m4.prev
      /\ m5 \in Pointers
  <2>1. m5.next = [m4.next EXCEPT ![l] = n] /\ m5.prev = m4.prev
    BY <1>4 DEF SetNext, SetPrev, Pointers
  <2>2. m5 \in Pointers
    BY <1>4, SetPointers
  <2> QED
    BY <2>1, <2>2
<1>9. list_unshift(m, l, n) = m5
  <2>1. m2.next[l] = y
    BY <1>5
  <2> QED
    BY <2>1, <1>1 DEF list_unshift
<1>10. /\ m4.prev = [[u.prev EXCEPT ![y] = n] EXCEPT ![n] = l]
       /\ m4.next = [u.next EXCEPT ![n] = y]
  BY <1>5, <1>6, <1>7
<1>11. [[u.next EXCEPT ![n] = y] EXCEPT ![l] = n] = [[u.next EXCEPT ![l] = n] EXCEPT ![n] = y]
  BY <1>1 DEF Pointers
<1> QED
  BY <1>8, <1>9, <1>10, <1>11, Fields DEF Link

LEMMA ShiftUnlinks ==
  ASSUME NEW m \in Pointers, NEW l \in Nodes, NEW n \in Nodes,
         m.next[l] = n, m.prev[n] = l, m.next[n] \in Nodes
  PROVE  list_shift(m, l) = Unlink(m, n)
<1> PICK x : x = m.next[n]
  OBVIOUS
<1> PICK m1 : m1 = SetNext(m, l, x)
  OBVIOUS
<1> PICK m2 : m2 = SetPrev(m1, x, l)
  OBVIOUS
<1>1. m1 \in Pointers
  BY SetPointers
<1>2. m2 \in Pointers
  BY <1>1, SetPointers
<1>3. m1.next = [m.next EXCEPT ![l] = x] /\ m1.prev = m.prev
  BY DEF SetNext, SetPrev, Pointers
<1>4. m2.next = m1.next /\ m2.prev = [m1.prev EXCEPT ![x] = l]
  BY <1>1 DEF SetNext, SetPrev, Pointers
<1>5. list_shift(m, l) = m2
  <2>1. m1.next[l] = x
    BY <1>3 DEF Pointers
  <2> QED
    BY <2>1 DEF list_shift
<1> QED
  BY <1>2, <1>3, <1>4, <1>5, Fields DEF Unlink

-----------------------------------------------------------------------------
(* Rings, unlinked and linked *)

LEMMA Lengths ==
  ASSUME NEW q \in [Heads -> Seq(Items)]
  PROVE  \A l \in Heads : /\ q[l] \in Seq(Items) /\ Len(q[l]) \in Nat /\ DOMAIN q[l] = 1 .. Len(q[l])
                          /\ \A i \in 1 .. Len(q[l]) : q[l][i] \in Items
                          /\ \A n : Lemmas!OnList(q, l, n) <=> \E i \in 1 .. Len(q[l]) : q[l][i] = n
<1> SUFFICES ASSUME NEW l \in Heads
             PROVE  /\ q[l] \in Seq(Items) /\ Len(q[l]) \in Nat /\ DOMAIN q[l] = 1 .. Len(q[l])
                    /\ \A i \in 1 .. Len(q[l]) : q[l][i] \in Items
                    /\ \A n : Lemmas!OnList(q, l, n) <=> \E i \in 1 .. Len(q[l]) : q[l][i] = n
  OBVIOUS
<1>1. q[l] \in Seq(Items)
  OBVIOUS
<1>2. Len(q[l]) \in Nat /\ DOMAIN q[l] = 1 .. Len(q[l])
  BY <1>1, LenProperties
<1>3. \A i \in 1 .. Len(q[l]) : q[l][i] \in Items
  BY <1>1, ElementOfSeq
<1>4. \A n : Lemmas!OnList(q, l, n) <=> \E i \in 1 .. Len(q[l]) : q[l][i] = n
  BY <1>2 DEF Lemmas!OnList, Lemmas!Range
<1> QED
  BY <1>1, <1>2, <1>3, <1>4

LEMMA Places ==
  ASSUME NEW q \in [Heads -> Seq(Items)], Lemmas!OnePlace(q)
  PROVE  \A l, k \in Heads : \A i \in 0 .. Len(q[l]), j \in 0 .. Len(q[k]) :
           At(q[l], l, i) = At(q[k], k, j) => l = k /\ i = j
<1> SUFFICES ASSUME NEW l \in Heads, NEW k \in Heads, NEW i \in 0 .. Len(q[l]),
                    NEW j \in 0 .. Len(q[k]), At(q[l], l, i) = At(q[k], k, j)
             PROVE  l = k /\ i = j
  OBVIOUS
<1>1. Len(q[l]) \in Nat /\ DOMAIN q[l] = 1 .. Len(q[l])
  BY Lengths
<1>2. Len(q[k]) \in Nat /\ DOMAIN q[k] = 1 .. Len(q[k])
  BY Lengths
<1>3. i # 0 => i \in DOMAIN q[l] /\ At(q[l], l, i) = q[l][i] /\ q[l][i] \in Items
  BY <1>1, Lengths DEF At
<1>4. j # 0 => j \in DOMAIN q[k] /\ At(q[k], k, j) = q[k][j] /\ q[k][j] \in Items
  BY <1>2, Lengths DEF At
<1>5. (i = 0 => At(q[l], l, i) = l) /\ (j = 0 => At(q[k], k, j) = k)
  BY <1>1, <1>2 DEF At
<1>6. CASE i = 0 \/ j = 0
  BY <1>3, <1>4, <1>5, <1>6, NodesAssumption
<1>7. CASE i # 0 /\ j # 0
  <2>1. DOMAIN q = Heads /\ q[l][i] = q[k][j]
    BY <1>3, <1>4, <1>7
  <2> QED
    BY <2>1, <1>3, <1>4, <1>7 DEF Lemmas!OnePlace
<1> QED
  BY <1>6, <1>7

\* prev leads back along the list.
LEMMA Backwards ==
  ASSUME NEW m, NEW q, NEW A, Heads \subseteq A, LinkedIn(m, A), Laid(m, q, A)
  PROVE  /\ \A l \in Heads : \A i \in 0 .. Len(q[l]) :
              /\ At(q[l], l, i) \in A /\ At(q[l], l, i + 1) \in A
              /\ m.prev[At(q[l], l, i + 1)] = At(q[l], l, i)
         /\ \A n \in A \ Heads : (\A l \in Heads : ~Lemmas!OnList(q, l, n)) => m.prev[n] = n
<1>1. q \in [Heads -> Seq(Items)]
  BY DEF Laid
<1>2. ASSUME NEW l \in Heads, NEW i \in 0 .. Len(q[l])
      PROVE  /\ At(q[l], l, i) \in A /\ At(q[l], l, i + 1) \in A
             /\ m.prev[At(q[l], l, i + 1)] = At(q[l], l, i)
  <2>1. Len(q[l]) \in Nat /\ \A j \in 1 .. Len(q[l]) : q[l][j] \in A
    BY <1>1, Lengths DEF Laid
  <2>2. At(q[l], l, i) \in A /\ At(q[l], l, i + 1) \in A
    BY <2>1 DEF At
  <2>3. m.next[At(q[l], l, i)] = At(q[l], l, i + 1)
    BY DEF Laid
  <2> QED
    BY <2>2, <2>3 DEF LinkedIn
<1>3. \A n \in A \ Heads : (\A l \in Heads : ~Lemmas!OnList(q, l, n)) => m.prev[n] = n
  BY DEF Laid, LinkedIn
<1> QED
  BY <1>2, <1>3

\* Lists q without n
Without(r, q, n) ==
  /\ r \in [Heads -> Seq(Items)] /\ Lemmas!OnePlace(r)
  /\ \A l \in Heads : \A k : Lemmas!OnList(r, l, k) <=> k # n /\ Lemmas!OnList(q, l, k)
  /\ \A l \in Heads : ~Lemmas!OnList(q, l, n) => r[l] = q[l]
  /\ \A l \in Heads : \A i \in DOMAIN q[l] :
       q[l][i] = n => /\ Len(r[l]) = Len(q[l]) - 1
                      /\ \A j \in 1 .. i - 1 : r[l][j] = q[l][j]
                      /\ \A j \in i .. Len(q[l]) - 1 : r[l][j] = q[l][j + 1]

LEMMA Removed ==
  ASSUME NEW q \in [Heads -> Seq(Items)], NEW n \in Items, Lemmas!OnePlace(q),
         NEW r, r = Lemmas!list_remove(q, n)
  PROVE  Without(r, q, n)
<1>1. r \in [Heads -> Seq(Items)] /\ Lemmas!OnePlace(r)
  BY Lemmas!ListRemove
<1>2. \A l \in Heads : \A k : Lemmas!OnList(r, l, k) <=> k # n /\ Lemmas!OnList(q, l, k)
  BY Lemmas!ListRemove
<1>3. \A l \in Heads : ~Lemmas!OnList(q, l, n) => r[l] = q[l]
  BY Lemmas!ListRemove
<1>4. ASSUME NEW l \in Heads, NEW i \in DOMAIN q[l], q[l][i] = n
      PROVE  /\ Len(r[l]) = Len(q[l]) - 1
             /\ \A j \in 1 .. i - 1 : r[l][j] = q[l][j]
             /\ \A j \in i .. Len(q[l]) - 1 : r[l][j] = q[l][j + 1]
  BY <1>4, Lemmas!ListRemove
<1> QED
  BY <1>1, <1>2, <1>3, <1>4 DEF Without

LEMMA LaidUnlinked ==
  ASSUME NEW A \in SUBSET Nodes, Heads \subseteq A, NEW m \in Pointers, NEW q, NEW n \in A \ Heads,
         LinkedIn(m, A), Laid(m, q, A),
         NEW u, u = Unlink(m, n), NEW r, r = Lemmas!list_remove(q, n)
  PROVE  Laid(u, r, A \ {n}) /\ \A l \in Heads : ~Lemmas!OnList(r, l, n)
<1> PICK p : p = m.prev[n]
  OBVIOUS
<1> PICK x : x = m.next[n]
  OBVIOUS
<1>1. q \in [Heads -> Seq(Items)] /\ Lemmas!OnePlace(q) /\ n \in Items
  BY DEF Laid, Nodes
<1>2. Without(r, q, n)
  BY <1>1, Removed
<1>3. p \in A /\ x \in A /\ m.next[p] = n /\ m.prev[x] = n
  BY DEF LinkedIn
<1>4. \A k \in Nodes : u.next[k] = IF k = p THEN x ELSE m.next[k]
  BY <1>3 DEF Unlink, Pointers
<1>5. ASSUME NEW l \in Heads, NEW i \in 1 .. Len(r[l]) PROVE r[l][i] \in A \ {n}
  <2>1. Lemmas!OnList(r, l, r[l][i])
    BY <1>2, Lengths DEF Without
  <2>2. r[l][i] # n /\ Lemmas!OnList(q, l, r[l][i])
    BY <2>1, <1>2 DEF Without
  <2>3. PICK j \in 1 .. Len(q[l]) : q[l][j] = r[l][i]
    BY <2>2, <1>1, Lengths
  <2> QED
    BY <2>2, <2>3 DEF Laid
<1>6. ASSUME NEW l \in Heads, ~Lemmas!OnList(q, l, n), NEW i \in 0 .. Len(r[l])
      PROVE  u.next[At(r[l], l, i)] = At(r[l], l, i + 1)
  <2>1. r[l] = q[l]
    BY <1>2, <1>6 DEF Without
  <2>2. At(q[l], l, i) \in A /\ m.next[At(q[l], l, i)] = At(q[l], l, i + 1)
    BY <2>1, <1>6, Backwards DEF Laid
  <2>3. At(q[l], l, i + 1) # n
    BY <1>1, <1>6, Lengths DEF At
  <2> QED
    BY <2>1, <2>2, <2>3, <1>3, <1>4
<1>7. ASSUME NEW l \in Heads, NEW k \in 1 .. Len(q[l]), q[l][k] = n, NEW i \in 0 .. Len(r[l])
      PROVE  u.next[At(r[l], l, i)] = At(r[l], l, i + 1)
  <2>1. Len(q[l]) \in Nat /\ DOMAIN q[l] = 1 .. Len(q[l]) /\ Len(r[l]) = Len(q[l]) - 1
    BY <1>1, <1>2, <1>7, Lengths DEF Without
  <2>2. /\ \A j \in 1 .. k - 1 : r[l][j] = q[l][j]
        /\ \A j \in k .. Len(q[l]) - 1 : r[l][j] = q[l][j + 1]
    BY <1>2, <1>7, <2>1 DEF Without
  <2>3. \A j \in 0 .. Len(r[l]) + 1 : At(r[l], l, j) = IF j < k THEN At(q[l], l, j) ELSE At(q[l], l, j + 1)
    BY <2>1, <2>2 DEF At
  <2>4. At(q[l], l, k) = n /\ k - 1 \in 0 .. Len(q[l]) /\ k \in 0 .. Len(q[l])
    BY <2>1, <1>7 DEF At
  <2>5. p = At(q[l], l, k - 1) /\ x = At(q[l], l, k + 1)
    <3>1. m.prev[At(q[l], l, (k - 1) + 1)] = At(q[l], l, k - 1)
      BY <2>4, Backwards
    <3>2. m.next[At(q[l], l, k)] = At(q[l], l, k + 1)
      BY <2>4 DEF Laid
    <3> QED
      BY <2>4, <3>1, <3>2
  <2>6. ASSUME NEW j \in 0 .. Len(q[l]), j # k - 1
        PROVE  u.next[At(q[l], l, j)] = At(q[l], l, j + 1)
    <3>1. At(q[l], l, j) # p
      BY <2>4, <2>5, <2>6, <1>1, Places
    <3>2. At(q[l], l, j) \in A
      BY Backwards
    <3>3. m.next[At(q[l], l, j)] = At(q[l], l, j + 1)
      BY DEF Laid
    <3> QED
      BY <3>1, <3>2, <3>3, <1>4
  <2>7. CASE i < k - 1
    BY <2>1, <2>3, <2>6, <2>7
  <2>8. CASE i = k - 1
    <3>1. u.next[p] = x
      BY <1>3, <1>4
    <3> QED
      BY <2>1, <2>3, <2>5, <2>8, <3>1
  <2>9. CASE i > k - 1
    <3>1. u.next[At(q[l], l, i + 1)] = At(q[l], l, i + 1 + 1)
      BY <2>1, <2>6, <2>9
    <3> QED
      BY <2>1, <2>3, <2>9, <3>1
  <2> QED
    BY <2>1, <2>7, <2>8, <2>9
<1>8. \A l \in Heads : \A i \in 0 .. Len(r[l]) : u.next[At(r[l], l, i)] = At(r[l], l, i + 1)
  <2> SUFFICES ASSUME NEW l \in Heads, NEW i \in 0 .. Len(r[l])
               PROVE  u.next[At(r[l], l, i)] = At(r[l], l, i + 1)
    OBVIOUS
  <2>1. CASE Lemmas!OnList(q, l, n)
    <3>1. PICK k \in 1 .. Len(q[l]) : q[l][k] = n
      BY <1>1, <2>1, Lengths
    <3> QED
      BY <3>1, <1>7
  <2> QED
    BY <2>1, <1>6
<1>9. ASSUME NEW k \in (A \ {n}) \ Heads, \A l \in Heads : ~Lemmas!OnList(r, l, k)
      PROVE  u.next[k] = k
  <2>1. \A l \in Heads : ~Lemmas!OnList(q, l, k)
    BY <1>2, <1>9 DEF Without
  <2>2. m.next[k] = k
    BY <2>1, <1>9 DEF Laid
  <2> QED
    BY <2>2, <1>3, <1>4, <1>9
<1> QED
  BY <1>2, <1>5, <1>8, <1>9 DEF Laid, Without

\* Where n is linked behind p, and what it is linked before
LEMMA Linking ==
  ASSUME NEW u \in Pointers, NEW B \in SUBSET Nodes, LinkedIn(u, B), NEW p \in B, NEW n \in Nodes \ B,
         NEW v, v = Link(u, p, n)
  PROVE  /\ v.next[n] = u.next[p] /\ v.next[p] = n
         /\ \A k \in B \ {p} : v.next[k] = u.next[k]
BY DEF Link, LinkedIn, Pointers

LEMMA LaidBehind ==
  ASSUME NEW B \in SUBSET Nodes, Heads \subseteq B, NEW u \in Pointers, NEW q, LinkedIn(u, B), Laid(u, q, B),
         NEW n \in Items \ B, NEW l \in Heads, \A k \in Heads : ~Lemmas!OnList(q, k, n),
         NEW v, v = Link(u, u.prev[l], n), NEW r, r = [q EXCEPT ![l] = Append(@, n)],
         Lemmas!OnePlace(r)
  PROVE  Laid(v, r, B \union {n})
<1> PICK p : p = u.prev[l]
  OBVIOUS
<1> PICK z : z = Len(q[l])
  OBVIOUS
<1>1. q \in [Heads -> Seq(Items)] /\ Lemmas!OnePlace(q) /\ n \in Nodes \ Heads
  BY NodesAssumption DEF Laid, Nodes
<1>2. q[l] \in Seq(Items) /\ z \in Nat
  BY <1>1, Lengths
<1>3. /\ Append(q[l], n) \in Seq(Items) /\ Len(Append(q[l], n)) = z + 1
      /\ \A i \in 1 .. z : Append(q[l], n)[i] = q[l][i]
      /\ Append(q[l], n)[z + 1] = n
  BY <1>2, AppendProperties
<1>4. r \in [Heads -> Seq(Items)] /\ r[l] = Append(q[l], n) /\ \A k \in Heads \ {l} : r[k] = q[k]
  BY <1>1, <1>3
<1>5. /\ Len(r[l]) = z + 1
      /\ \A i \in 0 .. z : At(r[l], l, i) = At(q[l], l, i)
      /\ At(r[l], l, z + 1) = n /\ At(r[l], l, z + 2) = l
  BY <1>2, <1>3, <1>4 DEF At
<1>6. p = At(q[l], l, z) /\ p \in B /\ u.next[p] = l
  <2>1. At(q[l], l, z + 1) = l
    BY <1>2 DEF At
  <2>2. z \in 0 .. Len(q[l])
    BY <1>2
  <2>3. u.prev[l] = At(q[l], l, z) /\ At(q[l], l, z) \in B
    BY <2>1, <2>2, Backwards
  <2> QED
    BY <2>3 DEF LinkedIn
<1>7. v.next[n] = l /\ v.next[p] = n /\ \A k \in B \ {p} : v.next[k] = u.next[k]
  BY <1>1, <1>6, Linking
<1>8. ASSUME NEW k \in Heads, NEW i \in 1 .. Len(r[k]) PROVE r[k][i] \in B \union {n}
  BY <1>2, <1>3, <1>4, <1>5, <1>8 DEF Laid
<1>9. ASSUME NEW k \in Heads, NEW i \in 0 .. Len(q[k]), k # l \/ i # z
      PROVE  v.next[At(q[k], k, i)] = At(q[k], k, i + 1)
  <2>1. At(q[k], k, i) # p
    BY <1>1, <1>2, <1>6, <1>9, Places
  <2>2. At(q[k], k, i) \in B
    BY Backwards
  <2>3. u.next[At(q[k], k, i)] = At(q[k], k, i + 1)
    BY DEF Laid
  <2> QED
    BY <2>1, <2>2, <2>3, <1>7
<1>10. ASSUME NEW k \in Heads, NEW i \in 0 .. Len(r[k])
       PROVE  v.next[At(r[k], k, i)] = At(r[k], k, i + 1)
  <2>1. CASE k # l
    BY <2>1, <1>4, <1>9
  <2>2. CASE k = l /\ i < z
    BY <2>2, <1>2, <1>5, <1>9
  <2>3. CASE k = l /\ i = z
    BY <2>3, <1>2, <1>5, <1>6, <1>7
  <2>4. CASE k = l /\ i = z + 1
    BY <2>4, <1>2, <1>5, <1>7
  <2> QED
    BY <2>1, <2>2, <2>3, <2>4, <1>2, <1>5
<1>11. ASSUME NEW k \in (B \union {n}) \ Heads, \A h \in Heads : ~Lemmas!OnList(r, h, k)
       PROVE  v.next[k] = k
  <2>1. k # n
    <3>1. z + 1 \in 1 .. Len(r[l]) /\ r[l][z + 1] = n
      BY <1>2, <1>3, <1>4
    <3>2. Lemmas!OnList(r, l, n)
      BY <3>1, <1>4, Lengths
    <3> QED
      BY <3>2, <1>11
  <2>2. \A h \in Heads : ~Lemmas!OnList(q, h, k)
    <3> SUFFICES ASSUME NEW h \in Heads, Lemmas!OnList(q, h, k) PROVE FALSE
      OBVIOUS
    <3>1. PICK i \in 1 .. Len(q[h]) : q[h][i] = k
      BY <1>1, Lengths
    <3>2. i \in 1 .. Len(r[h]) /\ r[h][i] = k
      BY <3>1, <1>2, <1>3, <1>4, <1>5
    <3> QED
      BY <3>2, <1>4, <1>11, Lengths
  <2>3. k \in B /\ u.next[k] = k
    BY <2>1, <2>2, <1>11 DEF Laid
  <2>4. k # p
    BY <2>3, <1>6, <1>11
  <2> QED
    BY <2>3, <2>4, <1>7
<1> QED
  BY <1>4, <1>8, <1>10, <1>11 DEF Laid

LEMMA LaidBefore ==
  ASSUME NEW B \in SUBSET Nodes, Heads \subseteq B, NEW u \in Pointers, NEW q, LinkedIn(u, B), Laid(u, q, B),
         NEW n \in Items \ B, NEW l \in Heads, \A k \in Heads : ~Lemmas!OnList(q, k, n),
         NEW v, v = Link(u, l, n), NEW r, r = [q EXCEPT ![l] = <<n>> \o @],
         Lemmas!OnePlace(r)
  PROVE  Laid(v, r, B \union {n})
<1> PICK z : z = Len(q[l])
  OBVIOUS
<1>1. q \in [Heads -> Seq(Items)] /\ Lemmas!OnePlace(q) /\ n \in Nodes \ Heads
  BY NodesAssumption DEF Laid, Nodes
<1>2. q[l] \in Seq(Items) /\ z \in Nat
  BY <1>1, Lengths
<1>3. /\ <<n>> \o q[l] \in Seq(Items) /\ Len(<<n>> \o q[l]) = z + 1
      /\ \A i \in 1 .. z : (<<n>> \o q[l])[i + 1] = q[l][i]
      /\ (<<n>> \o q[l])[1] = n
  <2>1. <<n>> \in Seq(Items) /\ Len(<<n>>) = 1 /\ <<n>>[1] = n
    OBVIOUS
  <2> QED
    BY <1>2, <2>1, ConcatProperties
<1>4. r \in [Heads -> Seq(Items)] /\ r[l] = <<n>> \o q[l] /\ \A k \in Heads \ {l} : r[k] = q[k]
  BY <1>1, <1>3
<1>5. /\ Len(r[l]) = z + 1
      /\ At(r[l], l, 0) = l /\ At(r[l], l, 1) = n
      /\ \A i \in 1 .. z + 1 : At(r[l], l, i + 1) = At(q[l], l, i)
  <2>1. Len(r[l]) = z + 1 /\ r[l][1] = n /\ \A i \in 1 .. z : r[l][i + 1] = q[l][i]
    BY <1>3, <1>4
  <2> QED
    BY <2>1, <1>2 DEF At
<1>6. At(q[l], l, 0) = l /\ u.next[l] = At(q[l], l, 1)
  BY <1>2 DEF At, Laid
<1>7. v.next[n] = At(q[l], l, 1) /\ v.next[l] = n /\ \A k \in B \ {l} : v.next[k] = u.next[k]
  BY <1>1, <1>6, Linking
<1>8. ASSUME NEW k \in Heads, NEW i \in 1 .. Len(r[k]) PROVE r[k][i] \in B \union {n}
  <2>1. CASE k = l /\ i # 1
    <3>1. i - 1 \in 1 .. z
      BY <2>1, <1>2, <1>5
    <3>2. r[l][(i - 1) + 1] = q[l][i - 1]
      BY <3>1, <1>3, <1>4
    <3>3. q[l][i - 1] \in B
      BY <3>1 DEF Laid
    <3> QED
      BY <2>1, <3>2, <3>3
  <2> QED
    BY <2>1, <1>3, <1>4, <1>8 DEF Laid
<1>9. ASSUME NEW k \in Heads, NEW i \in 0 .. Len(q[k]), k # l \/ i # 0
      PROVE  v.next[At(q[k], k, i)] = At(q[k], k, i + 1)
  <2>1. At(q[k], k, i) # l
    BY <1>1, <1>2, <1>6, <1>9, Places
  <2>2. At(q[k], k, i) \in B
    BY Backwards
  <2>3. u.next[At(q[k], k, i)] = At(q[k], k, i + 1)
    BY DEF Laid
  <2> QED
    BY <2>1, <2>2, <2>3, <1>7
<1>10. ASSUME NEW k \in Heads, NEW i \in 0 .. Len(r[k])
       PROVE  v.next[At(r[k], k, i)] = At(r[k], k, i + 1)
  <2>1. CASE k # l
    BY <2>1, <1>4, <1>9
  <2>2. CASE k = l /\ i = 0
    BY <2>2, <1>5, <1>7
  <2>3. CASE k = l /\ i = 1
    BY <2>3, <1>2, <1>5, <1>7
  <2>4. CASE k = l /\ i > 1
    <3>1. i - 1 \in 1 .. z
      BY <2>4, <1>2, <1>5
    <3>2. v.next[At(q[l], l, i - 1)] = At(q[l], l, (i - 1) + 1)
      BY <3>1, <1>2, <1>9
    <3>3. At(r[l], l, (i - 1) + 1) = At(q[l], l, i - 1) /\ At(r[l], l, i + 1) = At(q[l], l, i)
      BY <3>1, <1>2, <1>5
    <3> QED
      BY <2>4, <3>1, <3>2, <3>3
  <2> QED
    BY <2>1, <2>2, <2>3, <2>4, <1>2, <1>5
<1>11. ASSUME NEW k \in (B \union {n}) \ Heads, \A h \in Heads : ~Lemmas!OnList(r, h, k)
       PROVE  v.next[k] = k
  <2>1. k # n
    <3>1. 1 \in 1 .. Len(r[l]) /\ r[l][1] = n
      BY <1>2, <1>3, <1>4
    <3>2. Lemmas!OnList(r, l, n)
      BY <3>1, <1>4, Lengths
    <3> QED
      BY <3>2, <1>11
  <2>2. \A h \in Heads : ~Lemmas!OnList(q, h, k)
    <3> SUFFICES ASSUME NEW h \in Heads, Lemmas!OnList(q, h, k) PROVE FALSE
      OBVIOUS
    <3>1. PICK i \in 1 .. Len(q[h]) : q[h][i] = k
      BY <1>1, Lengths
    <3>2. \E j \in 1 .. Len(r[h]) : r[h][j] = k
      <4>1. CASE h = l
        <5>1. i \in 1 .. z /\ Len(r[l]) = z + 1 /\ r[l][i + 1] = k
          BY <4>1, <3>1, <1>3, <1>4
        <5>2. i + 1 \in 1 .. z + 1
          BY <5>1, <1>2
        <5> QED
          BY <4>1, <5>1, <5>2
      <4> QED
        BY <4>1, <3>1, <1>4
    <3> QED
      BY <3>2, <1>4, <1>11, Lengths
  <2>3. k \in B /\ u.next[k] = k
    BY <2>1, <2>2, <1>11 DEF Laid
  <2> QED
    BY <2>3, <1>7, <1>11
<1> QED
  BY <1>4, <1>8, <1>10, <1>11 DEF Laid

LEMMA InitialisedRings ==
  ASSUME NEW m, NEW q, NEW A, Rings(m, q, A), NEW n \in Items \ A, NEW r, r = list_init(m, n)
  PROVE  Rings(r, q, A \union {n})
<1> USE DEF Rings
<1> PICK m1 : m1 = SetPrev(m, n, n)
  OBVIOUS
<1>0. n \in Nodes \ Heads
  BY NodesAssumption DEF Nodes
<1>1. m1 \in Pointers
  BY <1>0, SetPointers
<1>2. r \in Pointers
  BY <1>0, <1>1, SetPointers DEF list_init
<1>3. m1.next = m.next /\ m1.prev = [m.prev EXCEPT ![n] = n]
  BY DEF SetPrev, Pointers
<1>4. r.next = [m1.next EXCEPT ![n] = n] /\ r.prev = m1.prev
  BY <1>1 DEF SetNext, Pointers, list_init
<1>5. /\ \A i \in Nodes : r.next[i] = IF i = n THEN n ELSE m.next[i]
      /\ \A i \in Nodes : r.prev[i] = IF i = n THEN n ELSE m.prev[i]
  BY <1>0, <1>3, <1>4 DEF Pointers
<1>6. LinkedIn(r, A \union {n})
  BY <1>0, <1>5 DEF LinkedIn
<1>7. q \in [Heads -> Seq(Items)] /\ Lemmas!OnePlace(q)
  BY DEF Laid
<1>8. \A l \in Heads : \A i \in 1 .. Len(q[l]) : q[l][i] \in A \union {n}
  BY DEF Laid
<1>9. ASSUME NEW l \in Heads, NEW i \in 0 .. Len(q[l])
      PROVE  r.next[At(q[l], l, i)] = At(q[l], l, i + 1)
  <2>1. At(q[l], l, i) \in A
    BY Backwards
  <2>2. m.next[At(q[l], l, i)] = At(q[l], l, i + 1)
    BY DEF Laid
  <2> QED
    BY <2>1, <2>2, <1>5
<1>10. \A k \in A \ Heads : (\A l \in Heads : ~Lemmas!OnList(q, l, k)) => r.next[k] = k
  BY <1>5 DEF Laid
<1> QED
  BY <1>0, <1>2, <1>5, <1>6, <1>7, <1>8, <1>9, <1>10 DEF Laid

LEMMA UnlinkLinked ==
  ASSUME NEW A \in SUBSET Nodes, NEW m \in Pointers, NEW n \in A, LinkedIn(m, A), NEW u, u = Unlink(m, n)
  PROVE  u \in Pointers /\ LinkedIn(u, A \ {n})
<1> PICK p : p = m.prev[n]
  OBVIOUS
<1> PICK x : x = m.next[n]
  OBVIOUS
<1>1. p \in A /\ x \in A /\ m.next[p] = n /\ m.prev[x] = n
  BY DEF LinkedIn
<1>2. /\ \A k \in Nodes : u.next[k] = IF k = p THEN x ELSE m.next[k]
      /\ \A k \in Nodes : u.prev[k] = IF k = x THEN p ELSE m.prev[k]
  BY <1>1 DEF Unlink, Pointers
<1>3. LinkedIn(u, A \ {n})
  BY <1>1, <1>2 DEF LinkedIn
<1> QED
  BY <1>1, <1>3, UnlinkType

LEMMA LinkLinked ==
  ASSUME NEW B \in SUBSET Nodes, NEW u \in Pointers, NEW n \in Nodes \ B, NEW p \in B, LinkedIn(u, B),
         NEW v, v = Link(u, p, n)
  PROVE  v \in Pointers /\ LinkedIn(v, B \union {n})
<1> PICK y : y = u.next[p]
  OBVIOUS
<1>1. y \in B /\ u.prev[y] = p
  BY DEF LinkedIn
<1>2. /\ \A i \in Nodes : v.next[i] = IF i = n THEN y ELSE IF i = p THEN n ELSE u.next[i]
      /\ \A i \in Nodes : v.prev[i] = IF i = n THEN p ELSE IF i = y THEN n ELSE u.prev[i]
      /\ v \in Pointers
  BY <1>1 DEF Link, Pointers
<1> QED
  BY <1>1, <1>2 DEF LinkedIn

LEMMA RemovedRings ==
  ASSUME NEW m, NEW q, NEW A, Rings(m, q, A), NEW n \in A \ Heads, NEW u, u = list_remove(m, n)
  PROVE  Rings(u, Lemmas!list_remove(q, n), A \ {n})
<1> USE DEF Rings
<1>1. m.next[n] \in Nodes /\ m.prev[n] \in Nodes /\ (m.next[n] = n <=> m.prev[n] = n)
  BY DEF LinkedIn
<1>2. u = Unlink(m, n)
  BY <1>1, RemoveUnlinks
<1> QED
  BY <1>2, UnlinkLinked, LaidUnlinked

LEMMA PushedRings ==
  ASSUME NEW m, NEW q, NEW A, Rings(m, q, A), NEW n \in A \ Heads, NEW l \in Heads,
         NEW v, v = list_push(m, l, n), NEW r, r = Lemmas!list_push(q, l, n)
  PROVE  Rings(v, r, A)
<1> USE DEF Rings
<1> PICK u : u = Unlink(m, n)
  OBVIOUS
<1> PICK p : p = u.prev[l]
  OBVIOUS
<1> PICK B : B = A \ {n}
  OBVIOUS
<1> PICK s : s = Lemmas!list_remove(q, n)
  OBVIOUS
<1>1. u \in Pointers /\ LinkedIn(u, B) /\ B \in SUBSET Nodes /\ Heads \subseteq B
  BY UnlinkLinked
<1>2. m.next[n] \in Nodes /\ m.prev[n] \in Nodes /\ n \in Items \ B /\ n \in Nodes \ B
  BY DEF LinkedIn, Nodes
<1>3. p \in B /\ u.next[p] = l /\ l \in B
  BY <1>1 DEF LinkedIn
<1>4. v = Link(u, p, n)
  BY <1>1, <1>2, <1>3, PushLinks
<1>5. v \in Pointers /\ LinkedIn(v, B \union {n})
  BY <1>1, <1>2, <1>3, <1>4, LinkLinked
<1>6. Laid(u, s, B) /\ \A k \in Heads : ~Lemmas!OnList(s, k, n)
  BY LaidUnlinked
<1>7. r = [s EXCEPT ![l] = Append(@, n)]
  BY DEF Lemmas!list_push
<1>8. Lemmas!OnePlace(r)
  BY <1>2, Lemmas!ListPush DEF Laid
<1>9. Laid(v, r, B \union {n})
  BY <1>1, <1>2, <1>4, <1>6, <1>7, <1>8, LaidBehind
<1>10. B \union {n} = A
  OBVIOUS
<1> QED
  BY <1>5, <1>9, <1>10

LEMMA UnshiftedRings ==
  ASSUME NEW m, NEW q, NEW A, Rings(m, q, A), NEW n \in A \ Heads, NEW l \in Heads,
         NEW v, v = list_unshift(m, l, n), NEW r, r = Lemmas!list_unshift(q, l, n)
  PROVE  Rings(v, r, A)
<1> USE DEF Rings
<1> PICK u : u = Unlink(m, n)
  OBVIOUS
<1> PICK y : y = u.next[l]
  OBVIOUS
<1> PICK B : B = A \ {n}
  OBVIOUS
<1> PICK s : s = Lemmas!list_remove(q, n)
  OBVIOUS
<1>1. u \in Pointers /\ LinkedIn(u, B) /\ B \in SUBSET Nodes /\ Heads \subseteq B
  BY UnlinkLinked
<1>2. /\ m.next[n] \in Nodes /\ m.prev[n] \in Nodes /\ (m.next[n] = n <=> m.prev[n] = n)
      /\ n \in Items \ B /\ n \in Nodes \ B
  BY DEF LinkedIn, Nodes
<1>3. y \in B /\ l \in B
  BY <1>1 DEF LinkedIn
<1>4. v = Link(u, l, n)
  BY <1>1, <1>2, <1>3, UnshiftLinks
<1>5. v \in Pointers /\ LinkedIn(v, B \union {n})
  BY <1>1, <1>2, <1>3, <1>4, LinkLinked
<1>6. Laid(u, s, B) /\ \A k \in Heads : ~Lemmas!OnList(s, k, n)
  BY LaidUnlinked
<1>7. r = [s EXCEPT ![l] = <<n>> \o @]
  BY DEF Lemmas!list_unshift
<1>8. Lemmas!OnePlace(r)
  BY <1>2, Lemmas!ListUnshift DEF Laid
<1>9. Laid(v, r, B \union {n})
  BY <1>1, <1>2, <1>4, <1>6, <1>7, <1>8, LaidBefore
<1>10. B \union {n} = A
  OBVIOUS
<1> QED
  BY <1>5, <1>9, <1>10

\* The first node of a list, where list_shift finds it
LEMMA LaidFirst ==
  ASSUME NEW m, NEW A, NEW q, Laid(m, q, A), NEW l \in Heads
  PROVE  /\ m.next[l] = l => q[l] = <<>>
         /\ m.next[l] # l => q[l] # <<>> /\ m.next[l] = q[l][1] /\ m.next[l] \in A \ Heads
<1>1. q \in [Heads -> Seq(Items)]
  BY DEF Laid
<1>2. q[l] \in Seq(Items) /\ Len(q[l]) \in Nat /\ \A i \in 1 .. Len(q[l]) : q[l][i] \in Items
  BY <1>1, Lengths
<1>3. 0 \in 0 .. Len(q[l]) /\ At(q[l], l, 0) = l
  BY <1>2 DEF At
<1>4. m.next[l] = At(q[l], l, 1)
  BY <1>3 DEF Laid
<1>5. CASE q[l] = <<>>
  BY <1>4, <1>5 DEF At
<1>6. CASE q[l] # <<>>
  <2>1. 1 \in 1 .. Len(q[l])
    BY <1>2, <1>6, EmptySeq
  <2>2. m.next[l] = q[l][1] /\ q[l][1] \in Items /\ q[l][1] \in A
    BY <2>1, <1>2, <1>4 DEF At, Laid
  <2> QED
    BY <2>2, <1>6, NodesAssumption
<1> QED
  BY <1>5, <1>6

LEMMA ShiftedRings ==
  ASSUME NEW m, NEW q, NEW A, Rings(m, q, A), NEW l \in Heads, NEW n, n = m.next[l], n # l,
         NEW u, u = list_shift(m, l), NEW r, r = [q EXCEPT ![l] = Tail(@)]
  PROVE  n \in A \ Heads /\ Rings(u, r, A \ {n})
<1> USE DEF Rings
<1>1. q[l] # <<>> /\ n = q[l][1] /\ n \in A \ Heads
  BY LaidFirst
<1>2. m.prev[n] = l /\ m.next[n] \in Nodes /\ l \in Nodes /\ n \in Nodes
  BY <1>1 DEF LinkedIn
<1>3. u = Unlink(m, n)
  BY <1>2, ShiftUnlinks
<1>4. u \in Pointers /\ LinkedIn(u, A \ {n})
  BY <1>1, <1>3, UnlinkLinked
<1> PICK s : s = Lemmas!list_remove(q, n)
  OBVIOUS
<1>5. Laid(u, s, A \ {n})
  BY <1>1, <1>3, LaidUnlinked
<1>6. q \in [Heads -> Seq(Items)] /\ Lemmas!OnePlace(q) /\ n \in Items
  BY <1>1 DEF Laid, Nodes
<1>7. q[l] \in Seq(Items) /\ Len(q[l]) \in Nat /\ DOMAIN q[l] = 1 .. Len(q[l]) /\ 1 \in 1 .. Len(q[l])
  BY <1>1, <1>6, Lengths, EmptySeq
<1>8. Without(s, q, n)
  BY <1>6, Removed
<1>9. s[l] = Tail(q[l])
  <2>1. Tail(q[l]) \in Seq(Items) /\ Len(Tail(q[l])) = Len(q[l]) - 1
        /\ \A j \in 1 .. Len(q[l]) - 1 : Tail(q[l])[j] = q[l][j + 1]
    BY <1>1, <1>7, HeadTailProperties
  <2>2. s[l] \in Seq(Items) /\ Len(s[l]) = Len(q[l]) - 1
        /\ \A j \in 1 .. Len(q[l]) - 1 : s[l][j] = q[l][j + 1]
    BY <1>1, <1>7, <1>8 DEF Without
  <2> PICK a \in Seq(Items) : a = s[l]
    BY <2>2
  <2> PICK b \in Seq(Items) : b = Tail(q[l])
    BY <2>1
  <2>3. Len(a) = Len(b) /\ \A i \in 1 .. Len(a) : a[i] = b[i]
    BY <2>1, <2>2
  <2>4. a = b
    BY <2>3, SeqEqual
  <2> QED
    BY <2>4
<1>10. \A k \in Heads \ {l} : s[k] = q[k]
  <2> SUFFICES ASSUME NEW k \in Heads \ {l} PROVE ~Lemmas!OnList(q, k, n)
    BY <1>8 DEF Without
  <2>1. DOMAIN q = Heads
    BY <1>6
  <2>2. ASSUME NEW i \in 1 .. Len(q[k]) PROVE q[k][i] # n
    <3>1. i \in DOMAIN q[k]
      BY <1>6, Lengths
    <3> QED
      BY <3>1, <2>1, <1>1, <1>6, <1>7 DEF Lemmas!OnePlace
  <2> QED
    BY <2>2, <1>6, Lengths
<1>11. s = r
  <2>1. s \in [Heads -> Seq(Items)]
    BY <1>8 DEF Without
  <2> QED
    BY <2>1, <1>6, <1>9, <1>10
<1> QED
  BY <1>1, <1>4, <1>5, <1>11

-----------------------------------------------------------------------------
(* The lists that the pointers are *)

\* The nodes that g leads to from l, up to the m-th
Hopping(f, g, l, m) == f = [i \in 0 .. m |-> IF i = 0 THEN l ELSE g[f[i - 1]]]

LEMMA Hops ==
  ASSUME NEW g, NEW l, NEW m \in Nat
  PROVE  \E f : Hopping(f, g, l, m)
<1> DEFINE S == {n \in Nat : \E f : Hopping(f, g, l, n)}
<1>1. 0 \in S
  <2>1. Hopping([i \in {0} |-> l], g, l, 0)
    BY DEF Hopping
  <2> QED BY <2>1
<1>2. ASSUME NEW n \in S PROVE n + 1 \in S
  <2>1. PICK f : Hopping(f, g, l, n)
    OBVIOUS
  <2> DEFINE h == [i \in 0 .. n + 1 |-> IF i \in 0 .. n THEN f[i] ELSE g[f[i - 1]]]
  <2>2. ASSUME NEW i \in 0 .. n + 1
        PROVE  h[i] = IF i = 0 THEN l ELSE g[h[i - 1]]
    <3>1. CASE i = n + 1
      BY <3>1
    <3>2. CASE i \in 0 .. n
      <4>1. f[i] = IF i = 0 THEN l ELSE g[f[i - 1]]
        BY <3>2, <2>1 DEF Hopping
      <4>2. i # 0 => i - 1 \in 0 .. n
        BY <3>2
      <4> QED
        BY <4>1, <4>2, <3>2
    <3> QED BY <3>1, <3>2
  <2>3. Hopping(h, g, l, n + 1)
    <3> HIDE DEF h
    <3>1. h = [i \in 0 .. n + 1 |-> h[i]]
      BY DEF h
    <3> QED BY <2>2, <3>1 DEF Hopping
  <2> QED BY <2>3
<1>3. S = Nat
  BY <1>1, <1>2, Lemmas!NatBySets
<1> QED
  BY <1>3

\* A list with its head is not longer than there are nodes.
LEMMA ListFits ==
  ASSUME NEW q \in [Heads -> Seq(Items)], Lemmas!OnePlace(q), NEW l \in Heads
  PROVE  Cardinality(Nodes) \in Nat /\ Len(q[l]) + 1 <= Cardinality(Nodes)
<1> PICK z : z = Len(q[l])
  OBVIOUS
<1>1. z \in Nat /\ \A i \in 1 .. z : q[l][i] \in Items
  BY Lengths
<1> PICK f : f = [i \in 0 .. z |-> At(q[l], l, i)]
  OBVIOUS
<1>2. f \in [0 .. z -> Nodes]
  <2>1. \A i \in 0 .. z : At(q[l], l, i) \in Nodes
    BY <1>1 DEF At, Nodes
  <2> QED
    BY <2>1
<1>3. \A i, j \in 0 .. z : f[i] = f[j] => i = j
  <2>1. \A i, j \in 0 .. z : At(q[l], l, i) = At(q[l], l, j) => i = j
    BY Places
  <2> QED
    BY <2>1
<1>4. f \in Injection(0 .. z, Nodes)
  BY <1>2, <1>3 DEF Injection, IsInjective
<1>5. IsFiniteSet(Nodes) /\ Cardinality(Nodes) \in Nat
  BY NodesAssumption, FS_CardinalityType DEF Nodes
<1>6. IsFiniteSet(0 .. z) /\ Cardinality(0 .. z) = z + 1
  BY <1>1, FS_Interval
<1>7. Cardinality(0 .. z) <= Cardinality(Nodes)
  BY <1>4, <1>5, FS_Injection
<1> QED
  BY <1>5, <1>6, <1>7

\* The nodes that next leads to from a head are those of its list, and then the head.
LEMMA HopsAlong ==
  ASSUME NEW m, NEW q, NEW A, Laid(m, q, A), NEW l \in Heads,
         NEW z \in Nat, z >= Len(q[l]) + 1, NEW hop, Hopping(hop, m.next, l, z)
  PROVE  \A i \in 0 .. Len(q[l]) + 1 : hop[i] = At(q[l], l, i)
<1> PICK n : n = Len(q[l])
  OBVIOUS
<1>1. n \in Nat
  BY Lengths DEF Laid
<1> DEFINE S == {i \in Nat : i <= n + 1 => hop[i] = At(q[l], l, i)}
<1>2. 0 \in S
  BY <1>1 DEF At, Hopping
<1>3. ASSUME NEW i \in S PROVE i + 1 \in S
  <2> SUFFICES ASSUME i + 1 <= n + 1 PROVE hop[i + 1] = At(q[l], l, i + 1)
    OBVIOUS
  <2>1. i + 1 \in 0 .. z /\ i + 1 # 0 /\ (i + 1) - 1 = i /\ i \in 0 .. n
    BY <1>1
  <2>2. hop[i + 1] = m.next[hop[i]]
    BY <2>1 DEF Hopping
  <2>3. hop[i] = At(q[l], l, i)
    BY <2>1, <1>1
  <2>4. m.next[At(q[l], l, i)] = At(q[l], l, i + 1)
    BY <2>1 DEF Laid
  <2> QED
    BY <2>2, <2>3, <2>4
<1>4. S = Nat
  <2> HIDE DEF S
  <2>1. S \in SUBSET Nat
    BY DEF S
  <2> QED BY <1>2, <1>3, <2>1, Lemmas!NatBySets
<1>5. \A i \in Nat : i <= n + 1 => hop[i] = At(q[l], l, i)
  BY <1>4
<1> QED
  BY <1>1, <1>5

LEMMA ChainIsList ==
  ASSUME NEW q, NEW A, Laid(ptr, q, A), NEW l \in Heads
  PROVE  Chain(l) = q[l]
<1> PICK z : z = Cardinality(Nodes)
  OBVIOUS
<1> PICK n : n = Len(q[l])
  OBVIOUS
<1> DEFINE hop == CHOOSE f : f = [i \in 0 .. z |-> IF i = 0 THEN l ELSE ptr.next[f[i - 1]]]
           size == CHOOSE i \in 0 .. z - 1 : hop[i + 1] = l /\ \A k \in 1 .. i : hop[k] # l
<1>1. Chain(l) = [i \in 1 .. size |-> hop[i]]
  BY DEF Chain
<1>2. q \in [Heads -> Seq(Items)] /\ Lemmas!OnePlace(q)
  BY DEF Laid
<1>3. /\ q[l] \in Seq(Items) /\ n \in Nat /\ z \in Nat /\ n + 1 <= z
      /\ \A i \in 1 .. n : q[l][i] \in Items
  BY <1>2, Lengths, ListFits
<1> PICK m : m = ptr
  OBVIOUS
<1> PICK g : g = m.next
  OBVIOUS
<1>4. Hopping(hop, g, l, z)
  <2>1. \E f : Hopping(f, g, l, z)
    BY <1>3, Hops
  <2>2. hop = CHOOSE f : Hopping(f, g, l, z)
    BY DEF Hopping
  <2> QED
    BY <2>1, <2>2
<1> HIDE DEF hop
<1>5. \A i \in 0 .. n + 1 : hop[i] = At(q[l], l, i)
  <2>1. z >= Len(q[l]) + 1
    BY <1>3
  <2>2. Laid(m, q, A)
    OBVIOUS
  <2> QED
    BY <1>3, <1>4, <2>1, <2>2, HopsAlong
<1>6. \A i \in 1 .. n : hop[i] = q[l][i] /\ hop[i] # l
  BY <1>3, <1>5, NodesAssumption DEF At
<1>7. hop[n + 1] = l
  BY <1>3, <1>5 DEF At
<1>8. size = n
  <2>1. n \in 0 .. z - 1 /\ hop[n + 1] = l /\ \A k \in 1 .. n : hop[k] # l
    BY <1>3, <1>6, <1>7
  <2>2. \A i \in 0 .. z - 1 : hop[i + 1] = l /\ (\A k \in 1 .. i : hop[k] # l) => i = n
    <3> SUFFICES ASSUME NEW i \in 0 .. z - 1, hop[i + 1] = l, \A k \in 1 .. i : hop[k] # l
                 PROVE  i = n
      OBVIOUS
    <3>1. ~(i < n)
      <4>1. i < n => i + 1 \in 1 .. n
        BY <1>3
      <4> QED
        BY <4>1, <1>6
    <3>2. ~(n < i)
      <4>1. n < i => n + 1 \in 1 .. i
        BY <1>3
      <4> QED
        BY <4>1, <1>7
    <3> QED
      BY <3>1, <3>2, <1>3
  <2> QED
    BY <2>1, <2>2
<1> HIDE DEF size
<1>9. q[l] = [i \in 1 .. n |-> q[l][i]]
  BY <1>3
<1> QED
  BY <1>1, <1>6, <1>8, <1>9

-----------------------------------------------------------------------------
(* The invariant *)

\* A walk is at its head or at a node of its list, and knows the node behind it.
WalkAt(q) ==
  walk # NoWalk =>
    /\ walk.head \in Heads /\ walk.curr \in Nodes \ loose
    /\ walk.curr # walk.head => Lemmas!OnList(q, walk.head, walk.curr)
    /\ walk.next = ptr.next[walk.curr]

Holds(q) ==
  /\ TypeOK /\ Rings(ptr, q, Nodes \ loose) /\ WalkAt(q)

IInv == \E q : Holds(q)

LEMMA InitIInv == Init => IInv
<1> SUFFICES ASSUME Init PROVE IInv
  OBVIOUS
<1> PICK q : q = [l \in Heads |-> <<>>]
  OBVIOUS
<1>1. Nodes \ loose = Heads
  BY NodesAssumption DEF Init, Nodes
<1>2. \A l \in Heads : ptr.next[l] = l /\ ptr.prev[l] = l
  BY DEF Init, Nodes
<1>3. LinkedIn(ptr, Nodes \ loose)
  BY <1>1, <1>2 DEF LinkedIn
<1>4. q \in [Heads -> Seq(Items)] /\ \A l \in Heads : Len(q[l]) = 0 /\ DOMAIN q[l] = {}
  BY EmptySeq
<1>5. Lemmas!OnePlace(q)
  <2>1. DOMAIN q = Heads
    OBVIOUS
  <2> QED
    BY <1>4, <2>1 DEF Lemmas!OnePlace
<1>6. \A l \in Heads : \A i \in 0 .. Len(q[l]) : ptr.next[At(q[l], l, i)] = At(q[l], l, i + 1)
  BY <1>2, <1>4 DEF At
<1>7. Laid(ptr, q, Nodes \ loose)
  BY <1>1, <1>4, <1>5, <1>6 DEF Laid
<1>8. TypeOK
  BY DEF Init, TypeOK, NoWalk, Nodes
<1>9. WalkAt(q)
  BY DEF Init, WalkAt
<1>10. ptr \in Pointers /\ Heads \subseteq Nodes
  BY <1>8 DEF TypeOK, Pointers, Nodes
<1> QED
  BY <1>1, <1>3, <1>7, <1>8, <1>9, <1>10 DEF IInv, Holds, Rings

\* What the proofs of the steps use
LEMMA HoldsFacts ==
  ASSUME NEW q, Holds(q)
  PROVE  /\ Rings(ptr, q, Nodes \ loose)
         /\ ptr \in Pointers /\ Heads \subseteq Nodes \ loose
         /\ LinkedIn(ptr, Nodes \ loose) /\ Laid(ptr, q, Nodes \ loose)
         /\ q \in [Heads -> Seq(Items)] /\ Lemmas!OnePlace(q)
         /\ \A n \in Items \ loose : n \in (Nodes \ loose) \ Heads
BY NodesAssumption DEF Holds, Rings, Laid, Nodes

LEMMA InitNodeStep ==
  ASSUME NEW q, Holds(q), NEW n \in Items, InitNode(n)
  PROVE  Holds(q)'
<1> PICK A : A = Nodes \ loose
  OBVIOUS
<1>1. n \in Items \ A /\ ptr' = list_init(ptr, n) /\ walk = NoWalk /\ walk' = walk
  BY DEF InitNode, Idle
<1>2. Nodes \ loose' = A \union {n}
  BY DEF InitNode, Nodes
<1>3. Rings(ptr', q, A \union {n})
  BY <1>1, HoldsFacts, InitialisedRings
<1>4. TypeOK'
  BY <1>1, <1>3 DEF Holds, TypeOK, Rings, Pointers, InitNode
<1>5. WalkAt(q)'
  BY <1>1 DEF WalkAt
<1> QED
  BY <1>2, <1>3, <1>4, <1>5 DEF Holds

LEMMA RemoveStep ==
  ASSUME NEW q, Holds(q), NEW n \in Items, Remove(n), NEW r, r = Lemmas!list_remove(q, n)
  PROVE  Holds(r)'
<1> PICK A : A = Nodes \ loose
  OBVIOUS
<1>1. n \in A \ Heads /\ ptr' = list_remove(ptr, n) /\ walk = NoWalk /\ walk' = walk
  BY HoldsFacts DEF Remove, Idle
<1>2. Nodes \ loose' = A \ {n}
  BY DEF Remove, Nodes
<1>3. Rings(ptr', r, A \ {n})
  BY <1>1, HoldsFacts, RemovedRings
<1>4. TypeOK'
  BY <1>1, <1>3 DEF Holds, TypeOK, Rings, Pointers, Remove
<1>5. WalkAt(r)'
  BY <1>1 DEF WalkAt
<1> QED
  BY <1>2, <1>3, <1>4, <1>5 DEF Holds

LEMMA PushStep ==
  ASSUME NEW q, Holds(q), NEW l \in Heads, NEW n \in Items, Push(l, n),
         NEW r, r = Lemmas!list_push(q, l, n)
  PROVE  Holds(r)'
<1> PICK A : A = Nodes \ loose
  OBVIOUS
<1>1. n \in A \ Heads /\ ptr' = list_push(ptr, l, n) /\ walk = NoWalk /\ walk' = walk /\ loose' = loose
  BY HoldsFacts DEF Push, Idle
<1>2. Rings(ptr', r, A)
  BY <1>1, HoldsFacts, PushedRings
<1>3. TypeOK'
  BY <1>1, <1>2 DEF Holds, TypeOK, Rings, Pointers
<1>4. WalkAt(r)'
  BY <1>1 DEF WalkAt
<1> QED
  BY <1>1, <1>2, <1>3, <1>4 DEF Holds

LEMMA UnshiftStep ==
  ASSUME NEW q, Holds(q), NEW l \in Heads, NEW n \in Items, Unshift(l, n),
         NEW r, r = Lemmas!list_unshift(q, l, n)
  PROVE  Holds(r)'
<1> PICK A : A = Nodes \ loose
  OBVIOUS
<1>1. n \in A \ Heads /\ ptr' = list_unshift(ptr, l, n) /\ walk = NoWalk /\ walk' = walk /\ loose' = loose
  BY HoldsFacts DEF Unshift, Idle
<1>2. Rings(ptr', r, A)
  BY <1>1, HoldsFacts, UnshiftedRings
<1>3. TypeOK'
  BY <1>1, <1>2 DEF Holds, TypeOK, Rings, Pointers
<1>4. WalkAt(r)'
  BY <1>1 DEF WalkAt
<1> QED
  BY <1>1, <1>2, <1>3, <1>4 DEF Holds

LEMMA ShiftStep ==
  ASSUME NEW q, Holds(q), NEW l \in Heads, Shift(l), NEW r, r = [q EXCEPT ![l] = Tail(@)]
  PROVE  Holds(r)'
<1> PICK A : A = Nodes \ loose
  OBVIOUS
<1> PICK n : n = ptr.next[l]
  OBVIOUS
<1>1. n # l /\ ptr' = list_shift(ptr, l) /\ walk = NoWalk /\ walk' = walk /\ loose' = loose \union {n}
  BY DEF Shift, Idle
<1>2. Rings(ptr, q, A)
  BY HoldsFacts
<1>3. n \in A \ Heads
  BY <1>1, <1>2, LaidFirst DEF Rings
<1>4. Rings(ptr', r, A \ {n})
  BY <1>1, <1>2, ShiftedRings
<1>5. Nodes \ loose' = A \ {n}
  BY <1>1
<1>6. TypeOK'
  BY <1>1, <1>3, <1>4 DEF Holds, TypeOK, Rings, Pointers, Nodes
<1>7. WalkAt(r)'
  BY <1>1 DEF WalkAt
<1> QED
  BY <1>4, <1>5, <1>6, <1>7 DEF Holds

LEMMA StartWalkStep ==
  ASSUME NEW q, Holds(q), NEW l \in Heads, StartWalk(l)
  PROVE  Holds(q)'
<1> PICK A : A = Nodes \ loose
  OBVIOUS
<1> PICK n : n = ptr.next[l]
  OBVIOUS
<1>1. walk' = [head |-> l, curr |-> n, next |-> ptr.next[n]] /\ ptr' = ptr /\ loose' = loose
  BY DEF StartWalk
<1>2. n \in A /\ ptr.next[n] \in A
  BY HoldsFacts DEF LinkedIn
<1>3. n # l => Lemmas!OnList(q, l, n)
  <2> SUFFICES ASSUME n # l PROVE Lemmas!OnList(q, l, n)
    OBVIOUS
  <2>1. q[l] # <<>> /\ n = q[l][1]
    BY HoldsFacts, LaidFirst
  <2>2. q[l] \in Seq(Items) /\ Len(q[l]) \in Nat
    BY HoldsFacts, Lengths
  <2>3. 1 \in 1 .. Len(q[l])
    BY <2>1, <2>2, EmptySeq
  <2> QED
    BY <2>1, <2>3, HoldsFacts, Lengths
<1>4. TypeOK'
  BY <1>1, <1>2 DEF Holds, TypeOK
<1>5. WalkAt(q)'
  BY <1>1, <1>2, <1>3 DEF WalkAt
<1> QED
  BY <1>1, <1>4, <1>5 DEF Holds

\* Where a walk stands
LEMMA WalkFacts ==
  ASSUME NEW q, Holds(q), walk # NoWalk, walk.curr # walk.head
  PROVE  /\ walk.head \in Heads /\ walk.curr \in (Nodes \ loose) \ Heads
         /\ walk.next \in Nodes \ loose /\ walk.next # walk.curr
         /\ walk.next # walk.head => Lemmas!OnList(q, walk.head, walk.next)
         /\ \E i \in 1 .. Len(q[walk.head]) :
              q[walk.head][i] = walk.curr /\ walk.next = At(q[walk.head], walk.head, i + 1)
<1> PICK h : h = walk.head
  OBVIOUS
<1>1. h \in Heads /\ walk.curr \in Nodes \ loose /\ Lemmas!OnList(q, h, walk.curr)
      /\ walk.next = ptr.next[walk.curr]
  BY DEF Holds, WalkAt
<1>2. q \in [Heads -> Seq(Items)] /\ Lemmas!OnePlace(q) /\ Laid(ptr, q, Nodes \ loose)
  BY HoldsFacts
<1>3. Len(q[h]) \in Nat /\ \A i \in 1 .. Len(q[h]) : q[h][i] \in Items
  BY <1>1, <1>2, Lengths
<1>4. PICK i \in 1 .. Len(q[h]) : q[h][i] = walk.curr
  BY <1>1, <1>2, Lengths
<1>5. walk.curr \notin Heads
  BY <1>3, <1>4, NodesAssumption
<1>6. i \in 0 .. Len(q[h]) /\ At(q[h], h, i) = walk.curr
  BY <1>3, <1>4 DEF At
<1>7. walk.next = At(q[h], h, i + 1)
  BY <1>1, <1>2, <1>6 DEF Laid
<1>8. walk.next \in Nodes \ loose
  BY <1>1, HoldsFacts DEF LinkedIn
<1>9. CASE i = Len(q[h])
  <2>1. walk.next = h
    BY <1>3, <1>7, <1>9 DEF At
  <2> QED
    BY <2>1, <1>1, <1>4, <1>5, <1>7, <1>8
<1>10. CASE i # Len(q[h])
  <2>1. i + 1 \in 1 .. Len(q[h])
    BY <1>3, <1>4, <1>10
  <2>2. walk.next = q[h][i + 1]
    BY <2>1, <1>7 DEF At
  <2>3. Lemmas!OnList(q, h, walk.next)
    BY <1>1, <1>2, <2>1, <2>2, Lengths
  <2>4. walk.next # walk.curr
    <3>1. DOMAIN q = Heads /\ DOMAIN q[h] = 1 .. Len(q[h])
      BY <1>1, <1>2, Lengths
    <3>2. i \in DOMAIN q[h] /\ i + 1 \in DOMAIN q[h] /\ i # i + 1
      BY <2>1, <3>1, <1>4
    <3> QED
      BY <1>1, <1>2, <1>4, <2>2, <3>1, <3>2 DEF Lemmas!OnePlace
  <2> QED
    BY <1>1, <1>4, <1>5, <1>7, <1>8, <2>3, <2>4
<1> QED
  BY <1>9, <1>10

LEMMA KeepCurrStep ==
  ASSUME NEW q, Holds(q), KeepCurr
  PROVE  Holds(q)'
<1>1. ptr' = ptr /\ loose' = loose /\ walk # NoWalk /\ walk.curr # walk.head /\ Advance(ptr)
  BY DEF KeepCurr
<1>2. CASE walk.next = walk.head
  <2>1. walk' = NoWalk
    BY <1>1, <1>2 DEF Advance
  <2>2. TypeOK'
    BY <1>1, <2>1 DEF Holds, TypeOK, NoWalk
  <2> QED
    BY <1>1, <2>1, <2>2 DEF Holds, WalkAt
<1>3. CASE walk.next # walk.head
  <2>1. walk' = [walk EXCEPT !.curr = walk.next, !.next = ptr.next[walk.next]]
    BY <1>1, <1>3 DEF Advance
  <2>2. walk.next \in Nodes \ loose /\ Lemmas!OnList(q, walk.head, walk.next) /\ walk.head \in Heads
    BY <1>1, <1>3, WalkFacts
  <2>3. walk \in [head : Heads \union {Null}, curr : Nodes \union {Null}, next : Nodes \union {Null}]
    BY DEF Holds, TypeOK
  <2>4. walk'.head = walk.head /\ walk'.curr = walk.next /\ walk'.next = ptr.next[walk.next]
        /\ ptr.next[walk.next] \in Nodes
    BY <2>1, <2>2, <2>3, HoldsFacts DEF LinkedIn
  <2>5. TypeOK'
    BY <1>1, <2>1, <2>2, <2>3, <2>4 DEF Holds, TypeOK
  <2>6. WalkAt(q)'
    BY <1>1, <2>2, <2>4 DEF WalkAt
  <2> QED
    BY <1>1, <2>5, <2>6 DEF Holds
<1> QED
  BY <1>2, <1>3

\* A node stays on its list when another is pushed.
LEMMA Pushed ==
  ASSUME NEW q \in [Heads -> Seq(Items)], NEW n \in Items, NEW l \in Heads, Lemmas!OnePlace(q),
         NEW k \in Heads, NEW m, m # n, Lemmas!OnList(q, k, m)
  PROVE  Lemmas!OnList(Lemmas!list_push(q, l, n), k, m)
BY Lemmas!ListPush

LEMMA MoveCurrStep ==
  ASSUME NEW q, Holds(q), NEW l \in Heads, MoveCurr(l), NEW n, n = walk.curr,
         NEW r, r = Lemmas!list_push(q, l, n)
  PROVE  Holds(r)'
<1> PICK A : A = Nodes \ loose
  OBVIOUS
<1>1. ptr' = list_push(ptr, l, n) /\ loose' = loose /\ walk # NoWalk /\ walk.curr # walk.head
      /\ Advance(ptr') /\ l # walk.head
  BY DEF MoveCurr
<1>2. n \in A \ Heads
  BY <1>1, WalkFacts
<1>3. Rings(ptr', r, A)
  BY <1>1, <1>2, HoldsFacts, PushedRings
<1>4. CASE walk.next = walk.head
  <2>1. walk' = NoWalk
    BY <1>1, <1>4 DEF Advance
  <2>2. TypeOK'
    BY <1>1, <1>3, <2>1 DEF Holds, TypeOK, NoWalk, Rings, Pointers
  <2> QED
    BY <1>1, <1>3, <2>1, <2>2 DEF Holds, WalkAt
<1>5. CASE walk.next # walk.head
  <2>1. walk' = [walk EXCEPT !.curr = walk.next, !.next = ptr'.next[walk.next]]
    BY <1>1, <1>5 DEF Advance
  <2>2. walk.next \in A /\ Lemmas!OnList(q, walk.head, walk.next) /\ walk.head \in Heads /\ walk.next # n
    BY <1>1, <1>5, WalkFacts
  <2>3. walk \in [head : Heads \union {Null}, curr : Nodes \union {Null}, next : Nodes \union {Null}]
    BY DEF Holds, TypeOK
  <2>4. walk'.head = walk.head /\ walk'.curr = walk.next /\ walk'.next = ptr'.next[walk.next]
        /\ ptr'.next[walk.next] \in Nodes
    BY <1>3, <2>1, <2>2, <2>3 DEF Rings, LinkedIn
  <2>5. TypeOK'
    BY <1>1, <1>3, <2>1, <2>2, <2>3, <2>4 DEF Holds, TypeOK, Rings, Pointers
  <2>6. Lemmas!OnList(r, walk.head, walk.next)
    <3>1. q \in [Heads -> Seq(Items)] /\ Lemmas!OnePlace(q) /\ n \in Items
      BY <1>2, HoldsFacts DEF Nodes
    <3>2. Lemmas!OnList(r, walk.head, walk.next)
      BY <2>2, <3>1, Pushed
    <3> QED
      BY <3>2
  <2>7. WalkAt(r)'
    BY <1>1, <2>2, <2>4, <2>6 DEF WalkAt
  <2> QED
    BY <1>1, <1>3, <2>5, <2>7 DEF Holds
<1> QED
  BY <1>4, <1>5

LEMMA NextIInv == IInv /\ [Next]_vars => IInv'
<1> SUFFICES ASSUME IInv, [Next]_vars PROVE IInv'
  OBVIOUS
<1> PICK q : Holds(q)
  BY DEF IInv
<1>1. ASSUME NEW n \in Items, InitNode(n) PROVE IInv'
  BY <1>1, InitNodeStep DEF IInv
<1>2. ASSUME NEW n \in Items, Remove(n) PROVE IInv'
  BY <1>2, RemoveStep DEF IInv
<1>3. ASSUME NEW l \in Heads, NEW n \in Items, Push(l, n) PROVE IInv'
  BY <1>3, PushStep DEF IInv
<1>4. ASSUME NEW l \in Heads, NEW n \in Items, Unshift(l, n) PROVE IInv'
  BY <1>4, UnshiftStep DEF IInv
<1>5. ASSUME NEW l \in Heads, Shift(l) PROVE IInv'
  BY <1>5, ShiftStep DEF IInv
<1>6. ASSUME NEW l \in Heads, StartWalk(l) PROVE IInv'
  BY <1>6, StartWalkStep DEF IInv
<1>7. ASSUME NEW l \in Heads, MoveCurr(l) PROVE IInv'
  <2> PICK n : n = walk.curr
    OBVIOUS
  <2> PICK r : r = Lemmas!list_push(q, l, n)
    OBVIOUS
  <2>1. Holds(r)'
    BY <1>7, MoveCurrStep
  <2> QED
    BY <2>1 DEF IInv
<1>8. ASSUME KeepCurr PROVE IInv'
  BY <1>8, KeepCurrStep DEF IInv
<1>9. ASSUME EndEmptyWalk PROVE IInv'
  <2>1. walk' = NoWalk /\ ptr' = ptr /\ loose' = loose
    BY <1>9 DEF EndEmptyWalk
  <2>2. TypeOK'
    BY <2>1 DEF Holds, TypeOK, NoWalk
  <2>3. Holds(q)'
    BY <2>1, <2>2 DEF Holds, WalkAt
  <2> QED
    BY <2>3 DEF IInv
<1>10. ASSUME UNCHANGED vars PROVE IInv'
  <2>1. Holds(q)'
    BY <1>10 DEF Holds, TypeOK, WalkAt, vars
  <2> QED
    BY <2>1 DEF IInv
<1> QED
  BY <1>1, <1>2, <1>3, <1>4, <1>5, <1>6, <1>7, <1>8, <1>9, <1>10 DEF Next

LEMMA Inductive == Spec => []IInv
BY InitIInv, NextIInv, PTL DEF Spec

\* The lists of the invariant are those that a reader of the pointers finds.
ChainsKnown == \A q : Holds(q) => Chains = q

LEMMA ChainsAre == ChainsKnown
<1> SUFFICES ASSUME NEW q, Holds(q) PROVE Chains = q
  BY DEF ChainsKnown
<1>1. \A l \in Heads : Chain(l) = q[l]
  BY HoldsFacts, ChainIsList
<1>2. q \in [Heads -> Seq(Items)]
  BY HoldsFacts
<1> QED
  BY <1>1, <1>2 DEF Chains

LEMMA ChainsAreNext == ChainsKnown'
BY ChainsAre, PTL

\* The operations on sequences are those of ListProofs.
LEMMA SameLists ==
  ASSUME NEW q, NEW l, NEW n
  PROVE  /\ L!list_remove(q, n) = Lemmas!list_remove(q, n)
         /\ L!list_push(q, l, n) = Lemmas!list_push(q, l, n)
         /\ L!list_unshift(q, l, n) = Lemmas!list_unshift(q, l, n)
<1>1. \A s : L!RemoveFirst(s, n) = Lemmas!RemoveFirst(s, n)
  BY DEF L!RemoveFirst, Lemmas!RemoveFirst, L!RemoveAt, Lemmas!RemoveAt,
         L!SelectInSeq, Lemmas!SelectInSeq, L!Min, Lemmas!Min
<1>2. L!list_remove(q, n) = Lemmas!list_remove(q, n)
  BY <1>1 DEF L!list_remove, Lemmas!list_remove
<1> QED
  BY <1>2 DEF L!list_push, Lemmas!list_push, L!list_unshift, Lemmas!list_unshift

\* Every ring stays doubly linked, for any heads and items, whatever the sequence
\* of operations and of walks with releases: every task that is on a list can be
\* unlinked by its own pointers.
THEOREM RingsStayLinked == Spec => []DoublyLinked
<1>1. IInv => DoublyLinked
  BY DEF IInv, Holds, Rings, LinkedIn, DoublyLinked
<1> QED
  BY <1>1, Inductive, PTL

\* The next that list_for_each_safe saves stays the node behind curr on the list
\* it walks, whatever is released from it: the scan of event_monitor_serve meets
\* every waiter and ends at its own head.
THEOREM WalksStayOnLists == Spec => []WalkStaysOnList
<1>1. IInv => WalkStaysOnList
  <2> SUFFICES ASSUME IInv, walk # NoWalk, walk.curr # walk.head
               PROVE  \E i \in DOMAIN Chain(walk.head) :
                        /\ Chain(walk.head)[i] = walk.curr
                        /\ walk.next = IF i = Len(Chain(walk.head)) THEN walk.head
                                       ELSE Chain(walk.head)[i + 1]
    BY DEF WalkStaysOnList
  <2> PICK q : Holds(q)
    BY DEF IInv
  <2> PICK h : h = walk.head
    OBVIOUS
  <2>1. h \in Heads /\ q \in [Heads -> Seq(Items)]
    BY WalkFacts, HoldsFacts
  <2>2. Chain(h) = q[h]
    BY <2>1, HoldsFacts, ChainIsList
  <2>3. Len(q[h]) \in Nat /\ DOMAIN q[h] = 1 .. Len(q[h])
    BY <2>1, Lengths
  <2>4. PICK i \in 1 .. Len(q[h]) : q[h][i] = walk.curr /\ walk.next = At(q[h], h, i + 1)
    BY WalkFacts
  <2>5. walk.next = IF i = Len(q[h]) THEN h ELSE q[h][i + 1]
    BY <2>3, <2>4 DEF At
  <2> QED
    BY <2>2, <2>3, <2>4, <2>5
<1> QED
  BY <1>1, Inductive, PTL

\* The assignments of list.c, aliases included, are the operations on sequences
\* that Kernel, Mutex and the lemmas of ListProofs speak of.
THEOREM PointersAreLists == Spec => ImplementsLists
<1>1. IInv => StepsOnLists
  <2> SUFFICES ASSUME IInv PROVE StepsOnLists
    OBVIOUS
  <2> PICK q : Holds(q)
    BY DEF IInv
  <2>1. Chains = q
    BY ChainsAre DEF ChainsKnown
  <2>2. ASSUME NEW r, Holds(r)' PROVE Chains' = r
    BY <2>2, ChainsAreNext DEF ChainsKnown
  <2>3. ASSUME NEW n \in Items, InitNode(n) PROVE Chains' = Chains
    BY <2>1, <2>2, <2>3, InitNodeStep
  <2>4. ASSUME NEW n \in Items, Remove(n) PROVE Chains' = L!list_remove(Chains, n)
    BY <2>1, <2>2, <2>4, RemoveStep, SameLists
  <2>5. ASSUME NEW l \in Heads, NEW n \in Items, Push(l, n) PROVE Chains' = L!list_push(Chains, l, n)
    BY <2>1, <2>2, <2>5, PushStep, SameLists
  <2>6. ASSUME NEW l \in Heads, NEW n \in Items, Unshift(l, n)
        PROVE  Chains' = L!list_unshift(Chains, l, n)
    BY <2>1, <2>2, <2>6, UnshiftStep, SameLists
  <2>7. ASSUME NEW l \in Heads, Shift(l) PROVE Chains' = [Chains EXCEPT ![l] = Tail(@)]
    BY <2>1, <2>2, <2>7, ShiftStep
  <2>8. ASSUME NEW l \in Heads, MoveCurr(l) PROVE Chains' = L!list_push(Chains, l, walk.curr)
    <3> PICK n : n = walk.curr
      OBVIOUS
    <3> PICK r : r = Lemmas!list_push(q, l, n)
      OBVIOUS
    <3>1. Holds(r)'
      BY <2>8, MoveCurrStep
    <3> QED
      BY <2>1, <2>2, <3>1, SameLists
  <2> QED
    BY <2>3, <2>4, <2>5, <2>6, <2>7, <2>8 DEF StepsOnLists
<1> QED
  BY <1>1, Inductive, PTL DEF ImplementsLists

-----------------------------------------------------------------------------
(* Circular lists in order of address *)

LEMMA LeastOf ==
  ASSUME NEW T \in SUBSET Nat, T # {}
  PROVE  \E x \in T : \A y \in T : x <= y
<1> DEFINE S == {n \in Nat : \A y \in T : n <= y}
<1>1. SUFFICES ASSUME \A x \in T : \E y \in T : ~(x <= y) PROVE FALSE
  OBVIOUS
<1>2. 0 \in S
  OBVIOUS
<1>3. ASSUME NEW n \in S PROVE n + 1 \in S
  <2>1. n \in Nat /\ n \notin T /\ \A y \in T : n <= y /\ y \in Nat
    BY <1>1
  <2>2. ASSUME NEW y \in T PROVE n + 1 <= y
    BY <2>1
  <2> QED
    BY <2>1, <2>2
<1>4. S = Nat
  <2> HIDE DEF S
  <2>1. S \in SUBSET Nat
    BY DEF S
  <2> QED
    BY <1>2, <1>3, <2>1, Lemmas!NatBySets
<1>5. PICK t \in T : TRUE
  OBVIOUS
<1>6. t \in Nat /\ t + 1 \in S
  <2> HIDE DEF S
  <2> QED
    BY <1>4
<1> QED
  BY <1>6

LEMMA GreatestOf ==
  ASSUME NEW n \in Nat, NEW T \in SUBSET (0 .. n), T # {}
  PROVE  \E x \in T : \A y \in T : y <= x
<1> DEFINE D == {n - x : x \in T}
<1>1. D \in SUBSET Nat /\ D # {}
  <2>1. \A x \in T : n - x \in Nat
    OBVIOUS
  <2> QED
    BY <2>1
<1>2. PICK d \in D : \A y \in D : d <= y
  BY <1>1, LeastOf
<1>3. PICK x \in T : d = n - x
  BY <1>2
<1>4. ASSUME NEW y \in T PROVE y <= x
  <2>1. n - y \in D
    OBVIOUS
  <2> QED
    BY <1>2, <1>3, <2>1
<1> QED
  BY <1>4

\* b comes behind a in the list of the addresses F.
Behind(F, a, b) ==
  \/ a < b /\ \A c \in F : c <= a \/ b <= c
  \/ b <= a /\ \A c \in F : b <= c /\ c <= a

\* g goes round F in order of address, and from the last to the first.
InOrder(F, g) == \A a \in F : g[a] \in F /\ Behind(F, a, g[a])

\* Whether b comes between p and the next, in order or at an end
Goes(p, next, b) == \/ b > p /\ b < next
                    \/ p >= next /\ (b > p \/ b < next)

LEMMA NextOf ==
  ASSUME NEW F \in SUBSET Int, NEW g, InOrder(F, g), NEW a \in F
  PROVE  g[a] \in F /\ g[a] \in Int /\ a \in Int /\ Behind(F, a, g[a])
BY DEF InOrder

LEMMA OneBefore ==
  ASSUME NEW F \in SUBSET Int, NEW g, InOrder(F, g), NEW a \in F, NEW b \in F, g[a] = g[b]
  PROVE  a = b
<1>1. PICK n \in F : n = g[a]
  BY NextOf
<1>2. n \in Int /\ a \in Int /\ b \in Int
  OBVIOUS
<1>3. Behind(F, a, n) /\ Behind(F, b, n)
  BY <1>1, NextOf
<1>4. a <= b /\ b <= a
  BY <1>2, <1>3 DEF Behind
<1> QED
  BY <1>2, <1>4

\* A node is taken out of the list.
TakenOut(F, g, k, v, p) ==
  /\ p \in F /\ v \in F /\ g[v] = p /\ v # p
  /\ k[v] = g[p] /\ \A a \in F \ {p, v} : k[a] = g[a]

LEMMA OrderWithout ==
  ASSUME NEW F \in SUBSET Int, NEW g, InOrder(F, g), NEW k, NEW v, NEW p, TakenOut(F, g, k, v, p)
  PROVE  InOrder(F \ {p}, k)
<1>0. /\ p \in F /\ v \in F /\ g[v] = p /\ v # p
      /\ k[v] = g[p] /\ \A a \in F \ {p, v} : k[a] = g[a]
  BY DEF TakenOut
<1>1. PICK n \in F : n = g[p]
  BY <1>0, NextOf
<1>2. n \in Int /\ p \in Int /\ v \in Int /\ \A c \in F : c \in Int
  BY <1>0
<1>3. Behind(F, p, n) /\ Behind(F, v, p)
  BY <1>0, <1>1, NextOf
<1>4. n # p
  BY <1>0, <1>2, <1>3 DEF Behind
<1>5. Behind(F \ {p}, v, n)
  BY <1>0, <1>2, <1>3, <1>4 DEF Behind
<1>6. ASSUME NEW a \in F \ {p, v}
      PROVE  k[a] \in F \ {p} /\ Behind(F \ {p}, a, k[a])
  <2>1. g[a] \in F /\ Behind(F, a, g[a])
    BY <1>0, NextOf
  <2>2. g[a] # p
    BY <1>0, OneBefore
  <2>3. Behind(F \ {p}, a, g[a])
    BY <2>1 DEF Behind
  <2> QED
    BY <1>0, <2>1, <2>2, <2>3
<1>7. ASSUME NEW a \in F \ {p}
      PROVE  k[a] \in F \ {p} /\ Behind(F \ {p}, a, k[a])
  BY <1>0, <1>1, <1>4, <1>5, <1>6
<1> QED
  BY <1>7 DEF InOrder

\* A node is put in where it belongs.
PutIn(F, g, k, p, b) ==
  /\ p \in F /\ b \in Int /\ b \notin F /\ Goes(p, g[p], b)
  /\ k[p] = b /\ k[b] = g[p] /\ \A a \in F \ {p} : k[a] = g[a]

LEMMA OrderWith ==
  ASSUME NEW F \in SUBSET Int, NEW g, InOrder(F, g), NEW k, NEW p, NEW b, PutIn(F, g, k, p, b)
  PROVE  InOrder(F \union {b}, k)
<1>0. /\ p \in F /\ b \in Int /\ b \notin F /\ Goes(p, g[p], b)
      /\ k[p] = b /\ k[b] = g[p] /\ \A a \in F \ {p} : k[a] = g[a]
  BY DEF PutIn
<1>1. PICK n \in F : n = g[p]
  BY <1>0, NextOf
<1>2. n \in Int /\ p \in Int /\ \A c \in F : c \in Int
  BY <1>0
<1>3. Behind(F, p, n) /\ Goes(p, n, b)
  BY <1>0, <1>1, NextOf
<1>4. Behind(F \union {b}, p, b)
  <2>1. CASE p < b
    BY <1>0, <2>1, <1>2, <1>3 DEF Behind, Goes
  <2>2. CASE b < p
    BY <1>0, <2>2, <1>2, <1>3 DEF Behind, Goes
  <2> QED
    BY <1>0, <1>2, <2>1, <2>2
<1>5. Behind(F \union {b}, b, n)
  <2>1. CASE b < n
    BY <1>0, <2>1, <1>2, <1>3 DEF Behind, Goes
  <2>2. CASE n < b
    BY <1>0, <2>2, <1>2, <1>3 DEF Behind, Goes
  <2> QED
    BY <1>0, <1>2, <2>1, <2>2
<1>6. ASSUME NEW a \in F \ {p}
      PROVE  k[a] \in F /\ Behind(F \union {b}, a, k[a])
  <2>1. PICK m \in F : m = g[a]
    BY <1>0, NextOf
  <2>2. Behind(F, a, m)
    BY <1>0, <2>1, NextOf
  <2>3. m # n
    BY <1>0, <1>1, <2>1, OneBefore
  <2>4. m \in Int /\ a \in Int
    BY <1>0
  <2>5. CASE a < m
    <3>1. b <= a \/ m <= b
      BY <1>0, <2>2, <2>3, <2>4, <2>5, <1>2, <1>3 DEF Behind, Goes
    <3>2. \A c \in F \union {b} : c <= a \/ m <= c
      BY <1>0, <2>2, <2>4, <2>5, <1>2, <3>1 DEF Behind
    <3> QED
      BY <1>0, <2>1, <2>5, <3>2 DEF Behind
  <2>6. CASE m <= a
    <3>1. m <= b /\ b <= a
      BY <1>0, <2>2, <2>3, <2>4, <2>6, <1>2, <1>3 DEF Behind, Goes
    <3>2. \A c \in F \union {b} : m <= c /\ c <= a
      BY <1>0, <2>2, <2>4, <2>6, <1>2, <3>1 DEF Behind
    <3> QED
      BY <1>0, <2>1, <2>6, <3>2 DEF Behind
  <2> QED
    BY <1>0, <2>4, <2>5, <2>6
<1>7. ASSUME NEW a \in F \union {b}
      PROVE  k[a] \in F \union {b} /\ Behind(F \union {b}, a, k[a])
  BY <1>0, <1>1, <1>4, <1>5, <1>6
<1> QED
  BY <1>0, <1>7 DEF InOrder

\* A node has its place somewhere.
LEMMA PlaceFor ==
  ASSUME NEW n \in Nat, NEW F \in SUBSET (0 .. n), F # {}, NEW g, InOrder(F, g),
         NEW b \in Int, b \notin F
  PROVE  \E p \in F : Goes(p, g[p], b)
<1>1. F \in SUBSET Int /\ \A c \in F : c \in Int
  OBVIOUS
<1> DEFINE D == {x \in F : x < b}
<1>2. CASE D # {}
  <2>1. D \in SUBSET (0 .. n)
    OBVIOUS
  <2>2. PICK p \in D : \A y \in D : y <= p
    BY <1>2, <2>1, GreatestOf
  <2>3. p \in F /\ p < b /\ p \in Int /\ \A y \in F : y < b => y <= p
    BY <1>1, <2>2
  <2>4. PICK m \in F : m = g[p]
    BY <1>1, <2>3, NextOf
  <2>5. m \in Int /\ m # b
    BY <1>1
  <2>6. Goes(p, m, b)
    BY <2>3, <2>5 DEF Goes
  <2> QED
    BY <2>3, <2>4, <2>6
<1>3. CASE D = {}
  <2>1. PICK p \in F : \A y \in F : y <= p
    BY GreatestOf
  <2>2. PICK m \in F : m = g[p]
    BY <1>1, NextOf
  <2>3. m \in Int /\ p \in Int /\ m # b
    BY <1>1
  <2>4. b < m /\ m <= p
    BY <1>3, <2>1, <2>3
  <2>5. Goes(p, m, b)
    BY <2>3, <2>4 DEF Goes
  <2> QED
    BY <2>2, <2>5
<1> QED
  BY <1>2, <1>3

\* What is closed under the step along the list is all of it.
LEMMA AllOfOrder ==
  ASSUME NEW n \in Nat, NEW F \in SUBSET (0 .. n), NEW g, InOrder(F, g),
         NEW W \in SUBSET F, W # {}, \A a \in W : g[a] \in W
  PROVE  W = F
<1>1. F \in SUBSET Int /\ \A c \in F : c \in Int
  OBVIOUS
<1> SUFFICES ASSUME NEW c \in F, c \notin W
             PROVE  FALSE
  OBVIOUS
<1> DEFINE D == {x \in W : x < c}
<1>2. CASE D # {}
  <2>1. D \in SUBSET (0 .. n)
    OBVIOUS
  <2>2. PICK m \in D : \A y \in D : y <= m
    BY <1>2, <2>1, GreatestOf
  <2>3. m \in W /\ m \in F /\ m < c /\ m \in Int /\ \A y \in W : y < c => y <= m
    BY <1>1, <2>2
  <2>4. PICK x \in W : x = g[m]
    BY <2>3
  <2>5. Behind(F, m, x) /\ x \in Int /\ x # c /\ x \in F
    BY <1>1, <2>3, <2>4, NextOf
  <2>6. x < c => x <= m
    BY <2>3
  <2> QED
    BY <1>1, <2>3, <2>5, <2>6 DEF Behind
<1>3. CASE D = {}
  <2>1. W \in SUBSET (0 .. n)
    OBVIOUS
  <2>2. PICK m \in W : \A y \in W : y <= m
    BY <2>1, GreatestOf
  <2>3. PICK x \in W : x = g[m]
    BY <2>2
  <2>4. Behind(F, m, x) /\ x \in Int /\ m \in Int /\ x # c /\ x \in F /\ x <= m
    BY <1>1, <2>2, <2>3, NextOf
  <2>5. x <= c
    BY <2>4 DEF Behind
  <2>6. x \in D
    BY <1>1, <2>4, <2>5
  <2> QED
    BY <1>3, <2>6
<1> QED
  BY <1>2, <1>3

-----------------------------------------------------------------------------
(* What a walk along the free list meets *)

Limits == /\ HEAP \in Nat \ {0} /\ BASE \in {0, HEAP + 1} /\ Demands \subseteq Nat
          /\ SPAN \in Nat /\ HEAP < SPAN

LEMMA AddressFacts ==
  ASSUME Limits
  PROVE  /\ \E lo \in Nat : Addresses \subseteq lo .. lo + HEAP
         /\ Addresses \subseteq 0 .. HEAP + 1
         /\ \A a : a \in Addresses <=> a = BASE \/ a \in 1 .. HEAP
         /\ BASE \notin 1 .. HEAP /\ BASE \in 0 .. HEAP + 1
<1>1. \A a : a \in Addresses <=> a = BASE \/ a \in 1 .. HEAP
  BY DEF Addresses, Units, First
<1>2. CASE BASE = 0
  <2>1. \A a \in Addresses : a \in 0 .. 0 + HEAP
    BY <1>1, <1>2 DEF Limits
  <2> QED
    BY <1>1, <1>2, <2>1 DEF Limits
<1>3. CASE BASE = HEAP + 1
  <2>1. \A a \in Addresses : a \in 1 .. 1 + HEAP
    BY <1>1, <1>3 DEF Limits
  <2> QED
    BY <1>1, <1>3, <2>1 DEF Limits
<1> QED
  BY <1>2, <1>3 DEF Limits

\* How far c is from a, upwards and round
Away(a, c) == IF a <= c THEN c - a ELSE c - a + (HEAP + 1)

LEMMA Nearer ==
  ASSUME Limits, NEW lo \in Nat, NEW F \in SUBSET (lo .. lo + HEAP), NEW g, InOrder(F, g),
         NEW a \in F, NEW c \in F
  PROVE  /\ Away(a, c) \in 0 .. HEAP
         /\ a # c => Away(g[a], c) < Away(a, c)
<1>1. F \in SUBSET Int /\ HEAP \in Nat /\ a \in Int /\ c \in Int
      /\ lo <= a /\ a <= lo + HEAP /\ lo <= c /\ c <= lo + HEAP
  BY DEF Limits
<1>2. PICK b \in F : b = g[a]
  BY <1>1, NextOf
<1>3. Behind(F, a, b) /\ b \in Int /\ lo <= b /\ b <= lo + HEAP
  BY <1>1, <1>2, NextOf
<1>4. (a < b /\ (c <= a \/ b <= c)) \/ (b <= a /\ b <= c /\ c <= a)
  BY <1>3 DEF Behind
<1>5. Away(a, c) \in 0 .. HEAP
  BY <1>1 DEF Away
<1>6. a # c => Away(b, c) < Away(a, c)
  BY <1>1, <1>3, <1>4 DEF Away
<1> QED
  BY <1>2, <1>5, <1>6

LEMMA WalkSteps ==
  ASSUME Limits, NEW h
  PROVE  /\ Walk(h)[0] = h.freep
         /\ \A i \in 1 .. HEAP + 1 : Walk(h)[i] = h.ptr[Walk(h)[i - 1]]
<1> DEFINE w == CHOOSE f : f = [i \in 0 .. HEAP + 1 |-> IF i = 0 THEN h.freep ELSE h.ptr[f[i - 1]]]
<1>1. Walk(h) = w
  BY DEF Walk
<1>2. HEAP + 1 \in Nat
  BY DEF Limits
<1>3. Hopping(w, h.ptr, h.freep, HEAP + 1)
  <2>1. PICK f : Hopping(f, h.ptr, h.freep, HEAP + 1)
    BY <1>2, Hops
  <2>2. w = CHOOSE k : Hopping(k, h.ptr, h.freep, HEAP + 1)
    BY DEF Hopping
  <2> QED
    BY <2>1, <2>2
<1> HIDE DEF w
<1>4. w = [i \in 0 .. HEAP + 1 |-> IF i = 0 THEN h.freep ELSE h.ptr[w[i - 1]]]
  BY <1>3 DEF Hopping
<1>5. w[0] = h.freep
  BY <1>2, <1>4
<1>6. ASSUME NEW i \in 1 .. HEAP + 1 PROVE w[i] = h.ptr[w[i - 1]]
  <2>1. i \in 0 .. HEAP + 1 /\ i # 0
    BY <1>2
  <2> QED
    BY <1>4, <2>1
<1> QED
  BY <1>1, <1>5, <1>6

\* The free list is a ring of the addresses F, base among them.
Ring(h, F) ==
  /\ F \in SUBSET Addresses /\ BASE \in F
  /\ h.freep \in F /\ InOrder(F, h.ptr)

LEMMA RingFacts ==
  ASSUME Limits, NEW h, NEW F, Ring(h, F)
  PROVE  /\ F \in SUBSET Int /\ F \in SUBSET (0 .. HEAP + 1)
         /\ HEAP + 1 \in Nat /\ F # {}
         /\ \A a \in F : h.ptr[a] \in F
BY AddressFacts DEF Ring, Limits, InOrder

LEMMA WalkInRing ==
  ASSUME Limits, NEW h, NEW F, Ring(h, F), NEW i \in 0 .. HEAP + 1
  PROVE  Walk(h)[i] \in F
<1> DEFINE w == Walk(h)
           S == {n \in Nat : n <= HEAP + 1 => w[n] \in F}
<1>1. w[0] = h.freep /\ \A k \in 1 .. HEAP + 1 : w[k] = h.ptr[w[k - 1]]
  BY WalkSteps
<1>2. (\A a \in F : h.ptr[a] \in F) /\ h.freep \in F /\ HEAP + 1 \in Nat
  BY RingFacts DEF Ring
<1> HIDE DEF w
<1>3. 0 \in S
  BY <1>1, <1>2
<1>4. ASSUME NEW n \in S PROVE n + 1 \in S
  <2>1. CASE n + 1 <= HEAP + 1
    <3>1. w[n + 1] = h.ptr[w[(n + 1) - 1]]
      BY <2>1, <1>1, <1>2
    <3>2. w[n] \in F
      BY <2>1, <1>2
    <3>3. (n + 1) - 1 = n
      OBVIOUS
    <3> QED
      BY <3>1, <3>2, <3>3, <1>2
  <2>2. CASE ~(n + 1 <= HEAP + 1)
    BY <2>2
  <2> QED
    BY <2>1, <2>2
<1>5. S = Nat
  <2> HIDE DEF S
  <2>1. S \in SUBSET Nat
    BY DEF S
  <2> QED
    BY <1>3, <1>4, <2>1, Lemmas!NatBySets
<1>6. i \in S
  <2> HIDE DEF S
  <2> QED
    BY <1>2, <1>5
<1> QED
  BY <1>2, <1>6 DEF w

\* A walk meets every free block within a turn of the addresses.
LEMMA WalkReaches ==
  ASSUME Limits, NEW h, NEW F, Ring(h, F), NEW c \in F, NEW s \in {0, 1}
  PROVE  \E j \in s .. s + HEAP : Walk(h)[j] = c
<1> PICK w : w = Walk(h)
  OBVIOUS
<1>1. \A i \in 0 .. HEAP + 1 : w[i] \in F
  BY WalkInRing
<1>2. \A i \in 1 .. HEAP + 1 : w[i] = h.ptr[w[i - 1]]
  BY WalkSteps
<1>3. PICK lo \in Nat : F \in SUBSET (lo .. lo + HEAP)
  BY AddressFacts DEF Ring
<1>4. HEAP \in Nat /\ InOrder(F, h.ptr)
  BY DEF Limits, Ring
<1>5. \A a \in F : Away(a, c) \in 0 .. HEAP /\ (a # c => Away(h.ptr[a], c) < Away(a, c))
  BY <1>3, <1>4, Nearer
<1>6. \A a \in F : h.ptr[a] \in F
  BY RingFacts
<1> DEFINE Met(i, d) == \E j \in i .. i + d : w[j] = c
           S == {d \in Nat : \A i \in 0 .. HEAP + 1 :
                   i + d <= HEAP + 1 /\ Away(w[i], c) <= d => Met(i, d)}
<1>7. 0 \in S
  <2> SUFFICES ASSUME NEW i \in 0 .. HEAP + 1, Away(w[i], c) <= 0 PROVE Met(i, 0)
    OBVIOUS
  <2>1. w[i] \in F
    BY <1>1
  <2>2. Away(w[i], c) \in 0 .. HEAP /\ (w[i] # c => Away(h.ptr[w[i]], c) < Away(w[i], c))
    BY <1>5, <2>1
  <2>3. Away(h.ptr[w[i]], c) \in 0 .. HEAP
    BY <1>5, <1>6, <2>1
  <2>4. w[i] = c
    BY <1>4, <2>2, <2>3
  <2> QED
    BY <2>4
<1>8. ASSUME NEW d \in S PROVE d + 1 \in S
  <2> SUFFICES ASSUME NEW i \in 0 .. HEAP + 1, i + (d + 1) <= HEAP + 1, Away(w[i], c) <= d + 1
               PROVE  Met(i, d + 1)
    OBVIOUS
  <2>1. w[i] \in F /\ d \in Nat /\ i \in Nat
    BY <1>1, <1>4
  <2>2. CASE w[i] = c
    BY <2>1, <2>2
  <2>3. CASE w[i] # c
    <3>1. i + 1 \in 1 .. HEAP + 1 /\ (i + 1) - 1 = i
      BY <1>4, <2>1
    <3>2. w[i + 1] = h.ptr[w[i]]
      BY <1>2, <3>1
    <3>3. Away(h.ptr[w[i]], c) < Away(w[i], c) /\ Away(w[i], c) \in 0 .. HEAP
          /\ Away(h.ptr[w[i]], c) \in 0 .. HEAP
      BY <1>5, <1>6, <2>1, <2>3
    <3>4. Away(w[i + 1], c) <= d
      BY <3>2, <3>3, <2>1, <1>4
    <3>5. i + 1 \in 0 .. HEAP + 1 /\ (i + 1) + d <= HEAP + 1
      BY <3>1, <2>1, <1>4
    <3>6. Met(i + 1, d)
      BY <3>4, <3>5
    <3>7. PICK j \in (i + 1) .. (i + 1) + d : w[j] = c
      BY <3>6
    <3>8. j \in i .. i + (d + 1)
      BY <2>1, <3>7
    <3> QED
      BY <3>7, <3>8
  <2> QED
    BY <2>2, <2>3
<1>9. S = Nat
  <2> HIDE DEF S
  <2>1. S \in SUBSET Nat
    BY DEF S
  <2> QED
    BY <1>7, <1>8, <2>1, Lemmas!NatBySets
<1>10. Met(s, HEAP)
  <2> HIDE DEF Met
  <2>1. s \in 0 .. HEAP + 1 /\ s + HEAP <= HEAP + 1
    BY <1>4
  <2>2. Away(w[s], c) \in 0 .. HEAP
    BY <1>1, <1>5, <2>1
  <2>3. HEAP \in S
    <3> HIDE DEF S
    <3> QED
      BY <1>4, <1>9
  <2> QED
    BY <2>1, <2>2, <2>3 DEF S
<1> QED
  BY <1>10

LEMMA MinOf ==
  ASSUME NEW T \in SUBSET Nat, T # {}
  PROVE  Min(T) \in T /\ \A y \in T : Min(T) <= y
<1>1. \E x \in T : \A y \in T : x <= y
  BY LeastOf
<1> QED
  BY <1>1 DEF Min

\* A search looks at every free block once, until it is where it began.
LEMMA TurnIsRing ==
  ASSUME Limits, NEW h, NEW F, Ring(h, F)
  PROVE  /\ Turn(h) \subseteq 1 .. HEAP + 1
         /\ {Walk(h)[i] : i \in Turn(h)} = F
<1> PICK w : w = Walk(h)
  OBVIOUS
<1> DEFINE back == {i \in 1 .. HEAP + 1 : w[i] = h.freep}
<1>1. HEAP \in Nat /\ h.freep \in F
  BY DEF Limits, Ring
<1>2. back # {}
  <2>1. PICK j \in 1 .. 1 + HEAP : w[j] = h.freep
    BY <1>1, WalkReaches
  <2> QED
    BY <1>1, <2>1
<1>3. back \in SUBSET Nat
  OBVIOUS
<1> HIDE DEF back
<1>4. PICK k : k = Min(back)
  OBVIOUS
<1>5. k \in back /\ \A y \in back : k <= y
  BY <1>2, <1>3, <1>4, MinOf
<1>6. k \in 1 .. HEAP + 1 /\ w[k] = h.freep
  BY <1>5 DEF back
<1>7. Turn(h) = 1 .. k
  BY <1>4 DEF Turn, back
<1> DEFINE W == {w[i] : i \in 1 .. k}
<1>8. w[0] = h.freep /\ \A i \in 1 .. HEAP + 1 : w[i] = h.ptr[w[i - 1]]
  BY WalkSteps
<1>9. W \in SUBSET F
  <2>1. ASSUME NEW i \in 1 .. k PROVE w[i] \in F
    <3>1. i \in 0 .. HEAP + 1
      BY <1>1, <1>6
    <3> QED
      BY <3>1, WalkInRing
  <2> QED
    BY <2>1
<1>10. W # {}
  BY <1>6
<1>11. ASSUME NEW a \in W PROVE h.ptr[a] \in W
  <2>1. PICK i \in 1 .. k : a = w[i]
    OBVIOUS
  <2>2. CASE i < k
    <3>1. i + 1 \in 1 .. k /\ i + 1 \in 1 .. HEAP + 1 /\ (i + 1) - 1 = i
      BY <1>1, <1>6, <2>2
    <3>2. w[i + 1] = h.ptr[a]
      BY <1>8, <2>1, <3>1
    <3> QED
      BY <3>1, <3>2
  <2>3. CASE i = k
    <3>1. 1 \in 1 .. k /\ 1 \in 1 .. HEAP + 1 /\ 1 - 1 = 0
      BY <1>1, <1>6
    <3>2. w[1] = h.ptr[w[0]]
      BY <1>8, <3>1
    <3>3. w[1] = h.ptr[a]
      BY <1>6, <1>8, <2>1, <2>3, <3>2
    <3> QED
      BY <3>1, <3>3
  <2> QED
    BY <1>6, <2>2, <2>3
<1>12. W = F
  <2> HIDE DEF W
  <2>1. HEAP + 1 \in Nat /\ F \in SUBSET (0 .. HEAP + 1) /\ InOrder(F, h.ptr)
    BY RingFacts DEF Ring
  <2> QED
    BY <1>9, <1>10, <1>11, <2>1, AllOfOrder
<1> QED
  BY <1>1, <1>6, <1>7, <1>12

LEMMA FreeListIsRing ==
  ASSUME Limits, NEW h, NEW F, Ring(h, F)
  PROVE  FreeList(h) = F
<1>1. h.freep # -1
  <2>1. h.freep \in F /\ F \in SUBSET (0 .. HEAP + 1)
    BY RingFacts DEF Ring
  <2> QED
    BY <2>1
<1> QED
  BY <1>1, TurnIsRing DEF FreeList, NULL

-----------------------------------------------------------------------------
(* The blocks *)

\* The free blocks F, as long as z says, and the blocks B in use fill the units
\* below the break, and no two overlap.
Ends(z, a) == a + z[a]
After(b) == b.header + b.units
Block(a, n) == [header |-> a, units |-> n]

Tiles(F, z, B, pb) ==
  /\ \A a \in F : z[a] \in Nat /\ (z[a] = 0 <=> a = BASE)
  /\ \A a \in F \ {BASE} : 1 <= a /\ Ends(z, a) <= pb
  /\ \A b \in B : /\ b \in [header : 1 .. HEAP, units : Nat \ {0}]
                  /\ After(b) <= pb /\ z[b.header] = b.units
  /\ \A a, c \in F : a < c => Ends(z, a) <= c
  /\ \A a \in F, b \in B : Ends(z, a) <= b.header \/ After(b) <= a
  /\ \A b, d \in B : b # d => After(b) <= d.header \/ After(d) <= b.header
  /\ \A u \in 1 .. pb - 1 : \/ \E a \in F : a <= u /\ u < Ends(z, a)
                            \/ \E b \in B : b.header <= u /\ u < After(b)

\* A block in use is free.
LEMMA TilesFreed ==
  ASSUME Limits, NEW F \in SUBSET (0 .. HEAP + 1), NEW z, NEW B, NEW pb \in 1 .. HEAP,
         BASE \in F, Tiles(F, z, B, pb), NEW b \in B
  PROVE  /\ b.header \notin F /\ b.header \in 1 .. HEAP
         /\ Tiles(F \union {b.header}, z, B \ {b}, pb)
<1> PICK x : x = b.header
  OBVIOUS
<1> PICK n : n = b.units
  OBVIOUS
<1>1. /\ HEAP \in Nat /\ x \in 1 .. HEAP /\ n \in Nat \ {0} /\ z[x] = n /\ x + n <= pb
      /\ pb \in Int /\ \A a \in F : a \in Int
      /\ BASE \in {0, HEAP + 1}
  BY DEF Tiles, Limits, After
<1>2. \A a \in F : z[a] \in Nat /\ (z[a] = 0 <=> a = BASE)
  BY DEF Tiles
<1>3. \A a \in F : a + z[a] <= x \/ x + n <= a
  BY DEF Tiles, Ends, After
<1>4. x \notin F
  BY <1>1, <1>2, <1>3
<1>5. x # BASE
  BY <1>1
<1> PICK G : G = F \union {x}
  OBVIOUS
<1> PICK D : D = B \ {b}
  OBVIOUS
<1>6. \A a \in G : z[a] \in Nat /\ (z[a] = 0 <=> a = BASE)
  BY <1>1, <1>2, <1>5
<1>7. \A a \in G \ {BASE} : 1 <= a /\ Ends(z, a) <= pb
  BY <1>1 DEF Tiles, Ends
<1>8. \A d \in D : /\ d \in [header : 1 .. HEAP, units : Nat \ {0}]
                   /\ After(d) <= pb /\ z[d.header] = d.units
  BY DEF Tiles
<1>9. \A a, c \in G : a < c => Ends(z, a) <= c
  <2> SUFFICES ASSUME NEW a \in G, NEW c \in G, a < c PROVE Ends(z, a) <= c
    OBVIOUS
  <2>1. CASE a \in F /\ c \in F
    BY <2>1 DEF Tiles
  <2>2. CASE a = x /\ c \in F
    BY <2>2, <1>1, <1>2, <1>3 DEF Ends
  <2>3. CASE a \in F /\ c = x
    BY <2>3, <1>1, <1>2, <1>3 DEF Ends
  <2> QED
    BY <1>1, <2>1, <2>2, <2>3
<1>10. \A a \in G, d \in D : Ends(z, a) <= d.header \/ After(d) <= a
  <2> SUFFICES ASSUME NEW a \in G, NEW d \in D PROVE Ends(z, a) <= d.header \/ After(d) <= a
    OBVIOUS
  <2>1. CASE a \in F
    BY <2>1 DEF Tiles
  <2>2. CASE a = x
    <3>1. After(b) <= d.header \/ After(d) <= b.header
      BY DEF Tiles
    <3> QED
      BY <2>2, <3>1, <1>1 DEF Ends, After
  <2> QED
    BY <2>1, <2>2
<1>11. \A d, e \in D : d # e => After(d) <= e.header \/ After(e) <= d.header
  BY DEF Tiles
<1>12. \A u \in 1 .. pb - 1 : \/ \E a \in G : a <= u /\ u < Ends(z, a)
                              \/ \E d \in D : d.header <= u /\ u < After(d)
  <2> SUFFICES ASSUME NEW u \in 1 .. pb - 1
               PROVE  \/ \E a \in G : a <= u /\ u < Ends(z, a)
                      \/ \E d \in D : d.header <= u /\ u < After(d)
    OBVIOUS
  <2>1. CASE \E a \in F : a <= u /\ u < Ends(z, a)
    BY <2>1
  <2>2. CASE \E d \in B : d.header <= u /\ u < After(d)
    <3>1. PICK d \in B : d.header <= u /\ u < After(d)
      BY <2>2
    <3>2. CASE d = b
      BY <3>1, <3>2, <1>1 DEF Ends, After
    <3> QED
      BY <3>1, <3>2
  <2> QED
    BY <2>1, <2>2 DEF Tiles
<1>13. Tiles(G, z, D, pb)
  BY <1>6, <1>7, <1>8, <1>9, <1>10, <1>11, <1>12 DEF Tiles
<1> QED
  BY <1>1, <1>4, <1>13

\* The sizes k after the free block x is joined with y behind it
JoinedUp(F, z, B, x, y, k) ==
  /\ x \in F /\ x # BASE /\ y \in F /\ y # BASE /\ Ends(z, x) = y
  /\ k[x] = z[x] + z[y] /\ \A a \in F \ {x} : k[a] = z[a]
  /\ \A b \in B : k[b.header] = z[b.header]

\* A free block is joined with the one it touches.
LEMMA TilesJoined ==
  ASSUME Limits, NEW F \in SUBSET (0 .. HEAP + 1), NEW z, NEW B, NEW pb \in 1 .. HEAP,
         Tiles(F, z, B, pb), NEW x, NEW y, NEW k, JoinedUp(F, z, B, x, y, k)
  PROVE  Tiles(F \ {y}, k, B, pb)
<1> PICK G : G = F \ {y}
  OBVIOUS
<1>0. /\ x \in F \ {BASE} /\ y \in F \ {BASE} /\ Ends(z, x) = y
      /\ k[x] = z[x] + z[y] /\ \A a \in F \ {x} : k[a] = z[a]
      /\ \A b \in B : k[b.header] = z[b.header]
  BY DEF JoinedUp
<1>1. HEAP \in Nat /\ pb \in Int /\ \A a \in F : a \in Int
  BY <1>0 DEF Limits
<1>2. \A a \in F : z[a] \in Nat /\ (z[a] = 0 <=> a = BASE)
  BY <1>0 DEF Tiles
<1>3. x < y
  BY <1>0, <1>1, <1>2 DEF Ends
<1>4. Ends(k, x) = Ends(z, y) /\ \A a \in F \ {x} : Ends(k, a) = Ends(z, a)
  BY <1>0, <1>1, <1>2 DEF Ends
<1>5. \A a \in G : k[a] \in Nat /\ (k[a] = 0 <=> a = BASE)
  BY <1>0, <1>2
<1>6. \A a \in G \ {BASE} : 1 <= a /\ Ends(k, a) <= pb
  BY <1>0, <1>4 DEF Tiles
<1>7. \A b \in B : /\ b \in [header : 1 .. HEAP, units : Nat \ {0}]
                   /\ After(b) <= pb /\ k[b.header] = b.units
  BY <1>0 DEF Tiles
<1>8. \A a, c \in G : a < c => Ends(k, a) <= c
  <2> SUFFICES ASSUME NEW a \in G, NEW c \in G, a < c PROVE Ends(k, a) <= c
    OBVIOUS
  <2>1. CASE a # x
    BY <1>0, <2>1, <1>4 DEF Tiles
  <2>2. CASE a = x
    <3>1. y <= c
      BY <1>0, <2>2 DEF Tiles
    <3>2. y < c
      BY <1>0, <3>1, <1>1
    <3> QED
      BY <1>0, <2>2, <3>2, <1>4 DEF Tiles
  <2> QED
    BY <1>0, <2>1, <2>2
<1>9. \A a \in G, b \in B : Ends(k, a) <= b.header \/ After(b) <= a
  <2> SUFFICES ASSUME NEW a \in G, NEW b \in B PROVE Ends(k, a) <= b.header \/ After(b) <= a
    OBVIOUS
  <2>1. CASE a # x
    BY <1>0, <2>1, <1>4 DEF Tiles
  <2>2. CASE a = x
    <3>1. (y <= b.header \/ After(b) <= x) /\ (Ends(z, y) <= b.header \/ After(b) <= y)
      BY <1>0 DEF Tiles
    <3>2. b.header \in Nat /\ b.units \in Nat \ {0}
      BY <1>0, <1>7
    <3> QED
      BY <1>0, <2>2, <3>1, <3>2, <1>1, <1>3, <1>4 DEF After
  <2> QED
    BY <1>0, <2>1, <2>2
<1>10. \A d, e \in B : d # e => After(d) <= e.header \/ After(e) <= d.header
  BY <1>0 DEF Tiles
<1>11. \A u \in 1 .. pb - 1 : \/ \E a \in G : a <= u /\ u < Ends(k, a)
                              \/ \E d \in B : d.header <= u /\ u < After(d)
  <2> SUFFICES ASSUME NEW u \in 1 .. pb - 1, NEW a \in F, a <= u, u < Ends(z, a)
               PROVE  \E c \in G : c <= u /\ u < Ends(k, c)
    BY <1>0 DEF Tiles
  <2>1. CASE a # x /\ a # y
    BY <1>0, <2>1, <1>4
  <2>2. CASE a = x
    <3>1. u < Ends(z, y)
      BY <1>0, <2>2, <1>1, <1>2, <1>3 DEF Ends
    <3> QED
      BY <1>0, <2>2, <3>1, <1>1, <1>3, <1>4
  <2>3. CASE a = y
    <3>1. x <= u
      BY <1>0, <2>3, <1>1, <1>3
    <3> QED
      BY <1>0, <2>3, <3>1, <1>1, <1>3, <1>4
  <2> QED
    BY <1>0, <2>1, <2>2, <2>3
<1>12. Tiles(G, k, B, pb)
  BY <1>0, <1>5, <1>6, <1>7, <1>8, <1>9, <1>10, <1>11 DEF Tiles
<1> QED
  BY <1>12

LEMMA BlockType ==
  ASSUME NEW a \in 1 .. HEAP, NEW n \in Nat \ {0}
  PROVE  Block(a, n) \in [header : 1 .. HEAP, units : Nat \ {0}]
BY DEF Block

\* A free block is taken as it is.
LEMMA TilesTaken ==
  ASSUME Limits, NEW F \in SUBSET (0 .. HEAP + 1), NEW z, NEW B, NEW pb \in 1 .. HEAP,
         Tiles(F, z, B, pb), NEW p \in F \ {BASE}
  PROVE  /\ p \in 1 .. HEAP /\ z[p] \in Nat \ {0} /\ Ends(z, p) <= pb
         /\ \A b \in B : After(b) <= p \/ After(Block(p, z[p])) <= b.header
         /\ Tiles(F \ {p}, z, B \union {Block(p, z[p])}, pb)
<1> PICK d : d = Block(p, z[p])
  OBVIOUS
<1> PICK G : G = F \ {p}
  OBVIOUS
<1> PICK D : D = B \union {d}
  OBVIOUS
<1>1. HEAP \in Nat /\ pb \in 1 .. HEAP /\ p \in Int /\ \A a \in F : a \in Int
  BY DEF Limits
<1>2. z[p] \in Nat \ {0} /\ 1 <= p /\ p + z[p] <= pb
  BY DEF Tiles, Ends
<1>3. d.header = p /\ d.units = z[p] /\ After(d) = Ends(z, p)
  BY DEF After, Ends, Block
<1>4. p \in 1 .. HEAP
  BY <1>1, <1>2
<1>5. \A b \in D : /\ b \in [header : 1 .. HEAP, units : Nat \ {0}]
                   /\ After(b) <= pb /\ z[b.header] = b.units
  <2>1. d \in [header : 1 .. HEAP, units : Nat \ {0}] /\ After(d) <= pb /\ z[d.header] = d.units
    BY <1>2, <1>3, <1>4, BlockType DEF Ends
  <2> QED
    BY <2>1 DEF Tiles
<1>6. \A b \in B : After(b) <= p \/ After(d) <= b.header
  BY <1>3 DEF Tiles
<1>7. \A a \in G : Ends(z, a) <= p \/ After(d) <= a
  BY <1>1, <1>3 DEF Tiles
<1>8. \A a \in G, b \in D : Ends(z, a) <= b.header \/ After(b) <= a
  BY <1>3, <1>7 DEF Tiles
<1>9. \A b, e \in D : b # e => After(b) <= e.header \/ After(e) <= b.header
  BY <1>3, <1>6 DEF Tiles
<1>10. \A u \in 1 .. pb - 1 : \/ \E a \in G : a <= u /\ u < Ends(z, a)
                              \/ \E b \in D : b.header <= u /\ u < After(b)
  <2> SUFFICES ASSUME NEW u \in 1 .. pb - 1, NEW a \in F, a <= u, u < Ends(z, a)
               PROVE  \/ \E c \in G : c <= u /\ u < Ends(z, c)
                      \/ \E b \in D : b.header <= u /\ u < After(b)
    BY DEF Tiles
  <2> QED
    BY <1>3
<1>11. Tiles(G, z, D, pb)
  BY <1>5, <1>8, <1>9, <1>10 DEF Tiles
<1> QED
  BY <1>2, <1>4, <1>6, <1>11 DEF Ends

\* The sizes k after a block of n at q is cut off the free block p
CutOff(F, z, B, p, n, q, k) ==
  /\ p \in F /\ p # BASE /\ n \in Nat \ {0} /\ n < z[p] /\ q = p + (z[p] - n)
  /\ k[p] = z[p] - n /\ k[q] = n /\ \A a \in F \ {p, q} : k[a] = z[a]
  /\ \A b \in B : b.header # q => k[b.header] = z[b.header]

\* The blocks once the block at q is in use
InTwo(F, B, p, n, q, k, pb) ==
  /\ q \in 1 .. HEAP /\ q \notin F /\ Ends(k, p) = q
  /\ \A b \in B : After(b) <= q \/ After(Block(q, n)) <= b.header
  /\ Tiles(F, k, B \union {Block(q, n)}, pb)

\* The tail of a free block is cut off.
LEMMA TilesCut ==
  ASSUME Limits, NEW F \in SUBSET (0 .. HEAP + 1), NEW z, NEW B, NEW pb \in 1 .. HEAP,
         Tiles(F, z, B, pb), NEW p, NEW n, NEW q, NEW k, CutOff(F, z, B, p, n, q, k)
  PROVE  InTwo(F, B, p, n, q, k, pb)
<1> PICK d : d = Block(q, n)
  OBVIOUS
<1> PICK D : D = B \union {d}
  OBVIOUS
<1>0. /\ p \in F \ {BASE} /\ n \in Nat \ {0} /\ n < z[p] /\ q = p + (z[p] - n)
      /\ k[p] = z[p] - n /\ k[q] = n /\ \A a \in F \ {p, q} : k[a] = z[a]
      /\ \A b \in B : b.header # q => k[b.header] = z[b.header]
  BY DEF CutOff
<1>1. HEAP \in Nat /\ pb \in 1 .. HEAP /\ p \in Int /\ \A a \in F : a \in Int
  BY <1>0 DEF Limits
<1>2. z[p] \in Nat \ {0} /\ 1 <= p /\ p + z[p] <= pb
  BY <1>0 DEF Tiles, Ends
<1>3. d.header = q /\ d.units = n /\ After(d) = Ends(z, p)
  BY <1>0, <1>1, <1>2 DEF After, Ends, Block
<1>4. q \in 1 .. HEAP /\ p < q /\ q < Ends(z, p) /\ Ends(k, p) = q /\ q \in Int
  BY <1>0, <1>1, <1>2 DEF Ends
<1>5. \A a \in F : p < a => Ends(z, p) <= a
  BY <1>0 DEF Tiles
<1>6. q \notin F
  BY <1>0, <1>1, <1>2, <1>4, <1>5 DEF Ends
<1>7. \A b \in B : /\ b.header \in Nat /\ b.units \in Nat \ {0}
                   /\ Ends(z, p) <= b.header \/ After(b) <= p
  BY <1>0 DEF Tiles
<1>8. \A b \in B : b.header # q
  BY <1>0, <1>1, <1>2, <1>4, <1>7 DEF Ends, After
<1>9. \A a \in F \ {p} : k[a] = z[a] /\ Ends(k, a) = Ends(z, a)
  BY <1>0, <1>6 DEF Ends
<1>10. \A a \in F : k[a] \in Nat /\ (k[a] = 0 <=> a = BASE)
  <2>1. k[p] \in Nat /\ k[p] # 0
    BY <1>0, <1>2
  <2> QED
    BY <1>0, <1>9, <2>1 DEF Tiles
<1>11. \A a \in F \ {BASE} : 1 <= a /\ Ends(k, a) <= pb
  <2>1. 1 <= p /\ Ends(k, p) <= pb
    BY <1>0, <1>1, <1>2, <1>4 DEF Ends
  <2> QED
    BY <1>0, <1>9, <2>1 DEF Tiles
<1>12. \A b \in D : /\ b \in [header : 1 .. HEAP, units : Nat \ {0}]
                    /\ After(b) <= pb /\ k[b.header] = b.units
  <2>1. d \in [header : 1 .. HEAP, units : Nat \ {0}] /\ After(d) <= pb /\ k[d.header] = d.units
    BY <1>0, <1>2, <1>3, <1>4, BlockType DEF Ends
  <2> QED
    BY <1>0, <1>8, <2>1 DEF Tiles
<1>13. \A a, c \in F : a < c => Ends(k, a) <= c
  <2> SUFFICES ASSUME NEW a \in F, NEW c \in F, a < c PROVE Ends(k, a) <= c
    OBVIOUS
  <2>1. CASE a = p
    BY <1>0, <2>1, <1>1, <1>2, <1>4, <1>5 DEF Ends
  <2>2. CASE a # p
    BY <1>0, <2>2, <1>9 DEF Tiles
  <2> QED
    BY <1>0, <2>1, <2>2
<1>14. \A b \in B : After(b) <= q \/ After(d) <= b.header
  BY <1>0, <1>1, <1>3, <1>4, <1>7 DEF After
<1>15. \A a \in F, b \in D : Ends(k, a) <= b.header \/ After(b) <= a
  <2> SUFFICES ASSUME NEW a \in F, NEW b \in D PROVE Ends(k, a) <= b.header \/ After(b) <= a
    OBVIOUS
  <2>1. CASE b = d /\ a = p
    BY <1>0, <2>1, <1>1, <1>3, <1>4
  <2>2. CASE b = d /\ a # p
    <3>1. p < a => After(d) <= a
      BY <1>0, <1>3, <1>5
    <3>2. a < p => Ends(z, a) <= p
      BY <1>0 DEF Tiles
    <3>3. a < p => Ends(k, a) <= q
      BY <1>0, <2>2, <3>2, <1>1, <1>2, <1>4, <1>9, <1>10 DEF Ends
    <3> QED
      BY <1>0, <2>2, <3>1, <3>3, <1>1, <1>3
  <2>3. CASE b \in B /\ a = p
    BY <1>0, <2>3, <1>1, <1>2, <1>4, <1>7 DEF Ends
  <2>4. CASE b \in B /\ a # p
    BY <1>0, <2>4, <1>9 DEF Tiles
  <2> QED
    BY <1>0, <2>1, <2>2, <2>3, <2>4
<1>16. \A b, e \in D : b # e => After(b) <= e.header \/ After(e) <= b.header
  BY <1>0, <1>3, <1>14 DEF Tiles
<1>17. \A u \in 1 .. pb - 1 : \/ \E a \in F : a <= u /\ u < Ends(k, a)
                              \/ \E b \in D : b.header <= u /\ u < After(b)
  <2> SUFFICES ASSUME NEW u \in 1 .. pb - 1, NEW a \in F, a <= u, u < Ends(z, a)
               PROVE  \/ \E c \in F : c <= u /\ u < Ends(k, c)
                      \/ \E b \in D : b.header <= u /\ u < After(b)
    BY <1>0 DEF Tiles
  <2>1. CASE a # p
    BY <1>0, <2>1, <1>9
  <2>2. CASE a = p /\ u < q
    BY <1>0, <2>2, <1>4
  <2>3. CASE a = p /\ ~(u < q)
    BY <1>0, <2>3, <1>3, <1>4
  <2> QED
    BY <1>0, <2>1, <2>2, <2>3
<1>18. Tiles(F, k, D, pb)
  BY <1>0, <1>10, <1>11, <1>12, <1>13, <1>15, <1>16, <1>17 DEF Tiles
<1> QED
  BY <1>4, <1>6, <1>14, <1>18 DEF InTwo

\* The break is moved over a new block.
LEMMA TilesGrown ==
  ASSUME Limits, NEW F \in SUBSET (0 .. HEAP + 1), NEW z, NEW B, NEW pb \in 1 .. HEAP,
         BASE \in F, Tiles(F, z, B, pb), NEW n \in Nat \ {0}, pb + n < HEAP + 1,
         NEW k, k[pb] = n, \A a \in Addresses \ {pb} : k[a] = z[a],
         F \subseteq Addresses
  PROVE  /\ pb + n \in 1 .. HEAP
         /\ Tiles(F, k, B \union {Block(pb, n)}, pb + n)
<1> PICK d : d = Block(pb, n)
  OBVIOUS
<1> PICK D : D = B \union {d}
  OBVIOUS
<1>1. HEAP \in Nat /\ \A a \in F : a \in Int
  BY DEF Limits
<1>2. pb \in 1 .. HEAP /\ pb + n \in 1 .. HEAP /\ pb # BASE /\ BASE \in {0, HEAP + 1}
  BY <1>1 DEF Limits
<1>3. d.header = pb /\ d.units = n /\ After(d) = pb + n
  BY DEF After, Block
<1>4. \A a \in F : z[a] \in Nat /\ (z[a] = 0 <=> a = BASE)
  BY DEF Tiles
<1>5. \A a \in F \ {BASE} : 1 <= a /\ Ends(z, a) <= pb
  BY DEF Tiles
<1>6. pb \notin F
  BY <1>1, <1>2, <1>4, <1>5 DEF Ends
<1>7. \A a \in F : k[a] = z[a] /\ Ends(k, a) = Ends(z, a)
  BY <1>6 DEF Ends
<1>8. \A b \in B : /\ b \in [header : 1 .. HEAP, units : Nat \ {0}]
                   /\ After(b) <= pb /\ z[b.header] = b.units
  BY DEF Tiles
<1>9. \A b \in B : k[b.header] = b.units
  <2> SUFFICES ASSUME NEW b \in B PROVE k[b.header] = b.units
    OBVIOUS
  <2>1. b.header # pb /\ b.header \in 1 .. HEAP
    BY <1>8, <1>2 DEF After
  <2>2. b.header \in Addresses
    BY <2>1, AddressFacts
  <2> QED
    BY <2>1, <2>2, <1>8
<1>10. \A a \in F : k[a] \in Nat /\ (k[a] = 0 <=> a = BASE)
  BY <1>4, <1>7
<1>11. \A a \in F \ {BASE} : 1 <= a /\ Ends(k, a) <= pb + n
  BY <1>1, <1>2, <1>4, <1>5, <1>7 DEF Ends
<1>12. \A b \in D : /\ b \in [header : 1 .. HEAP, units : Nat \ {0}]
                    /\ After(b) <= pb + n /\ k[b.header] = b.units
  <2>1. ASSUME NEW b \in B PROVE After(b) <= pb + n
    BY <1>2, <1>8 DEF After
  <2>2. d \in [header : 1 .. HEAP, units : Nat \ {0}] /\ After(d) <= pb + n /\ k[d.header] = d.units
    BY <1>2, <1>3, BlockType
  <2> QED
    BY <2>1, <2>2, <1>8, <1>9
<1>13. \A a, c \in F : a < c => Ends(k, a) <= c
  BY <1>7 DEF Tiles
<1>14. \A a \in F : Ends(k, a) <= pb \/ pb + n <= a
  <2> SUFFICES ASSUME NEW a \in F PROVE Ends(k, a) <= pb \/ pb + n <= a
    OBVIOUS
  <2>1. CASE a = BASE
    BY <2>1, <1>1, <1>2, <1>4, <1>7 DEF Ends
  <2>2. CASE a # BASE
    BY <2>2, <1>5, <1>7
  <2> QED
    BY <2>1, <2>2
<1>15. \A a \in F, b \in D : Ends(k, a) <= b.header \/ After(b) <= a
  BY <1>3, <1>7, <1>14 DEF Tiles
<1>16. \A b, e \in D : b # e => After(b) <= e.header \/ After(e) <= b.header
  BY <1>3, <1>8 DEF Tiles
<1>17. \A u \in 1 .. (pb + n) - 1 : \/ \E a \in F : a <= u /\ u < Ends(k, a)
                                    \/ \E b \in D : b.header <= u /\ u < After(b)
  <2> SUFFICES ASSUME NEW u \in 1 .. (pb + n) - 1
               PROVE  \/ \E a \in F : a <= u /\ u < Ends(k, a)
                      \/ \E b \in D : b.header <= u /\ u < After(b)
    OBVIOUS
  <2>1. CASE u < pb
    <3>1. u \in 1 .. pb - 1
      BY <2>1, <1>2
    <3>2. \/ \E a \in F : a <= u /\ u < Ends(z, a)
          \/ \E b \in B : b.header <= u /\ u < After(b)
      BY <3>1 DEF Tiles
    <3> QED
      BY <3>2, <1>7
  <2>2. CASE ~(u < pb)
    BY <2>2, <1>2, <1>3
  <2> QED
    BY <2>1, <2>2
<1>18. Tiles(F, k, D, pb + n)
  BY <1>10, <1>11, <1>12, <1>13, <1>15, <1>16, <1>17 DEF Tiles
<1> QED
  BY <1>2, <1>18

SameSizes(F, z, B, k) ==
  (\A a \in F : k[a] = z[a]) /\ \A b \in B : k[b.header] = z[b.header]

LEMMA TilesSame ==
  ASSUME NEW F, NEW z, NEW B, NEW pb, Tiles(F, z, B, pb), NEW k, SameSizes(F, z, B, k)
  PROVE  Tiles(F, k, B, pb)
<1>1. /\ \A a \in F : k[a] = z[a] /\ Ends(k, a) = Ends(z, a)
      /\ \A b \in B : k[b.header] = z[b.header]
  BY DEF Ends, SameSizes
<1> QED
  BY <1>1 DEF Tiles

-----------------------------------------------------------------------------
(* The operations of the heap *)

Words ==
  [ptr : [Addresses -> Int], size : [Addresses -> Nat],
   program_break : 1 .. HEAP, freep : Int]

\* No two free blocks touch.
Apart(F, z) == \A a \in F \ {BASE} : Ends(z, a) \notin F

\* The blocks of h: free ones at F, and B in use
Sound(h, F, B) ==
  /\ h \in Words /\ Ring(h, F)
  /\ Tiles(F, h.size, B, h.program_break) /\ Apart(F, h.size)

LEMMA PlaceFacts ==
  ASSUME Limits, NEW h, NEW F, Ring(h, F), NEW x \in Int, x \notin F
  PROVE  Place(h, x) \in F /\ Goes(Place(h, x), h.ptr[Place(h, x)], x)
<1> PICK w : w = Walk(h)
  OBVIOUS
<1> DEFINE behind == {i \in 0 .. HEAP : Between(h, w[i], x)}
<1>1. HEAP \in Nat /\ HEAP + 1 \in Nat /\ F \in SUBSET (0 .. HEAP + 1) /\ F # {} /\ InOrder(F, h.ptr)
  BY RingFacts DEF Limits, Ring
<1>2. PICK p \in F : Goes(p, h.ptr[p], x)
  BY <1>1, PlaceFor
<1>3. PICK j \in 0 .. 0 + HEAP : w[j] = p
  BY WalkReaches
<1>4. j \in behind
  BY <1>1, <1>2, <1>3 DEF Between, Goes
<1>5. behind \in SUBSET Nat /\ behind # {}
  BY <1>4
<1> HIDE DEF behind
<1>6. PICK k : k = Min(behind)
  OBVIOUS
<1>7. k \in behind
  BY <1>5, <1>6, MinOf
<1>8. k \in 0 .. HEAP /\ Between(h, w[k], x)
  BY <1>7 DEF behind
<1>9. Place(h, x) = w[k]
  BY <1>6 DEF Place, behind
<1>10. k \in 0 .. HEAP + 1
  BY <1>1, <1>8
<1>11. w[k] \in F
  BY <1>10, WalkInRing
<1> QED
  BY <1>8, <1>9, <1>11 DEF Between, Goes

\* A block put among free ones touches at most those it comes between.
LEMMA Touches ==
  ASSUME Limits, NEW F \in SUBSET (0 .. HEAP + 1), NEW z, NEW B, NEW pb \in 1 .. HEAP,
         NEW x \in 1 .. HEAP, x \notin F, BASE \in F, Tiles(F \union {x}, z, B, pb),
         NEW p \in F, NEW n \in F, Behind(F, p, n), Goes(p, n, x)
  PROVE  /\ \A a \in F : Ends(z, a) = x => a = p /\ a # BASE
         /\ Ends(z, x) \in F => Ends(z, x) = n /\ n # BASE
<1>1. HEAP \in Nat /\ pb \in 1 .. HEAP /\ x \in Int /\ p \in Int /\ n \in Int
      /\ \A a \in F : a \in Int
  BY DEF Limits
<1>2. \A a \in F \union {x} : z[a] \in Nat /\ (z[a] = 0 <=> a = BASE)
  BY DEF Tiles
<1>3. \A a, c \in F \union {x} : a < c => Ends(z, a) <= c
  BY DEF Tiles
<1>4. x # BASE /\ x + z[x] <= pb /\ BASE \in {0, HEAP + 1}
  BY <1>1 DEF Tiles, Limits, Ends
<1>5. ASSUME NEW a \in F, Ends(z, a) = x PROVE a = p /\ a # BASE
  <2>1. a # BASE
    BY <1>1, <1>2, <1>4, <1>5 DEF Ends
  <2>2. a < x /\ a \in Int
    BY <1>1, <1>2, <1>5, <2>1 DEF Ends
  <2>3. a <= p /\ p < x
    BY <1>1, <2>2 DEF Behind, Goes
  <2>4. a < p => x <= p
    BY <1>3, <1>5
  <2> QED
    BY <1>1, <2>1, <2>2, <2>3, <2>4
<1>6. ASSUME Ends(z, x) \in F PROVE Ends(z, x) = n /\ n # BASE
  <2> PICK c \in F : c = Ends(z, x)
    BY <1>6
  <2>1. c \in Int /\ x < c /\ c # BASE
    BY <1>1, <1>2, <1>4 DEF Ends
  <2>2. x < n /\ n <= c
    BY <1>1, <2>1 DEF Behind, Goes
  <2>3. c <= n
    BY <1>3, <2>2
  <2> QED
    BY <1>1, <2>1, <2>2, <2>3
<1> QED
  BY <1>5, <1>6

LEMMA WordsParts ==
  ASSUME NEW h \in Words
  PROVE  /\ h.ptr \in [Addresses -> Int] /\ h.size \in [Addresses -> Nat]
         /\ h.program_break \in 1 .. HEAP /\ h.freep \in Int
         /\ h = [ptr |-> h.ptr, size |-> h.size, program_break |-> h.program_break, freep |-> h.freep]
BY DEF Words

\* a is led to b, or joined with it if they touch: Joined and LinkedIn both
Meet(h, a, b) ==
  IF a + h.size[a] = b
  THEN [h EXCEPT !.size[a] = @ + h.size[b], !.ptr[a] = h.ptr[b]]
  ELSE [h EXCEPT !.ptr[a] = b]

Met(h, k, a, b) ==
  /\ k \in Words /\ k.program_break = h.program_break
  /\ \A c \in Addresses \ {a} : k.ptr[c] = h.ptr[c] /\ k.size[c] = h.size[c]
  /\ Ends(h.size, a) = b => k.ptr[a] = h.ptr[b] /\ k.size[a] = h.size[a] + h.size[b]
  /\ Ends(h.size, a) # b => k.ptr[a] = b /\ k.size[a] = h.size[a]

LEMMA MeetFacts ==
  ASSUME NEW h \in Words, NEW a \in Addresses, NEW b \in Addresses, b \in Int
  PROVE  Met(h, Meet(h, a, b), a, b)
<1> PICK k : k = Meet(h, a, b)
  OBVIOUS
<1>1. CASE a + h.size[a] = b
  <2> PICK g : g = [h.ptr EXCEPT ![a] = h.ptr[b]]
    OBVIOUS
  <2> PICK y : y = [h.size EXCEPT ![a] = h.size[a] + h.size[b]]
    OBVIOUS
  <2>1. /\ g \in [Addresses -> Int] /\ g[a] = h.ptr[b]
        /\ \A c \in Addresses \ {a} : g[c] = h.ptr[c]
    BY WordsParts
  <2>2. /\ y \in [Addresses -> Nat] /\ y[a] = h.size[a] + h.size[b]
        /\ \A c \in Addresses \ {a} : y[c] = h.size[c]
    BY WordsParts
  <2>3. k = [ptr |-> g, size |-> y, program_break |-> h.program_break, freep |-> h.freep]
    BY <1>1 DEF Words, Meet
  <2>4. k \in Words /\ k.ptr = g /\ k.size = y /\ k.program_break = h.program_break
    BY <2>3, <2>1, <2>2 DEF Words
  <2> QED
    BY <1>1, <2>1, <2>2, <2>4 DEF Met, Ends
<1>2. CASE a + h.size[a] # b
  <2> PICK g : g = [h.ptr EXCEPT ![a] = b]
    OBVIOUS
  <2>1. /\ g \in [Addresses -> Int] /\ g[a] = b
        /\ \A c \in Addresses \ {a} : g[c] = h.ptr[c]
    BY WordsParts
  <2>2. k = [ptr |-> g, size |-> h.size, program_break |-> h.program_break, freep |-> h.freep]
    BY <1>2 DEF Words, Meet
  <2>3. k \in Words /\ k.ptr = g /\ k.size = h.size /\ k.program_break = h.program_break
    BY <2>2, <2>1 DEF Words
  <2> QED
    BY <1>2, <2>1, <2>3 DEF Met, Ends
<1> QED
  BY <1>1, <1>2

LEMMA FreeBlockMeets ==
  ASSUME NEW h, NEW p, NEW x
  PROVE  Joined(h, p, x) = Meet(h, x, h.ptr[p]) /\ Linked(h, p, x) = Meet(h, p, x)
BY DEF Joined, Linked, Meet

LEMMA FreepSet ==
  ASSUME NEW h \in Words, NEW l \in Int
  PROVE  /\ [h EXCEPT !.freep = l] \in Words /\ [h EXCEPT !.freep = l].ptr = h.ptr
         /\ [h EXCEPT !.freep = l].size = h.size /\ [h EXCEPT !.freep = l].freep = l
         /\ [h EXCEPT !.freep = l].program_break = h.program_break
BY DEF Words

\* v leads to x, and a search begins at l.
Skip(h, v, x, l) == [h EXCEPT !.ptr[v] = x, !.freep = l]

Skipped(h, k, v, x, l) ==
  /\ k \in Words /\ k.size = h.size /\ k.program_break = h.program_break /\ k.freep = l
  /\ k.ptr[v] = x /\ \A a \in Addresses \ {v} : k.ptr[a] = h.ptr[a]

LEMMA SkipFacts ==
  ASSUME NEW h \in Words, NEW v \in Addresses, NEW x \in Int, NEW l \in Int
  PROVE  Skipped(h, Skip(h, v, x, l), v, x, l)
<1> PICK k : k = Skip(h, v, x, l)
  OBVIOUS
<1> PICK g : g = [h.ptr EXCEPT ![v] = x]
  OBVIOUS
<1>1. g \in [Addresses -> Int] /\ g[v] = x /\ \A a \in Addresses \ {v} : g[a] = h.ptr[a]
  BY WordsParts
<1>2. k = [ptr |-> g, size |-> h.size, program_break |-> h.program_break, freep |-> l]
  BY DEF Words, Skip
<1>3. k \in Words /\ k.ptr = g /\ k.size = h.size /\ k.program_break = h.program_break /\ k.freep = l
  BY <1>2, <1>1 DEF Words
<1> QED
  BY <1>1, <1>3 DEF Skipped

\* p is cut to x units, and n units begin at q.
Cut(h, p, x, q, n, l) == [h EXCEPT !.size[p] = x, !.size[q] = n, !.freep = l]

WasCut(h, k, p, x, q, n, l) ==
  /\ k \in Words /\ k.ptr = h.ptr /\ k.program_break = h.program_break /\ k.freep = l
  /\ k.size[p] = x /\ k.size[q] = n
  /\ \A a \in Addresses \ {p, q} : k.size[a] = h.size[a]

LEMMA CutFacts ==
  ASSUME NEW h \in Words, NEW p \in Addresses, NEW q \in Addresses, p # q,
         NEW x \in Nat, NEW n \in Nat, NEW l \in Int
  PROVE  WasCut(h, Cut(h, p, x, q, n, l), p, x, q, n, l)
<1> PICK k : k = Cut(h, p, x, q, n, l)
  OBVIOUS
<1> PICK y : y = [[h.size EXCEPT ![p] = x] EXCEPT ![q] = n]
  OBVIOUS
<1>1. /\ y \in [Addresses -> Nat] /\ y[p] = x /\ y[q] = n
      /\ \A a \in Addresses \ {p, q} : y[a] = h.size[a]
  BY WordsParts
<1>2. k = [ptr |-> h.ptr, size |-> y, program_break |-> h.program_break, freep |-> l]
  BY DEF Words, Cut
<1>3. k \in Words /\ k.ptr = h.ptr /\ k.size = y /\ k.program_break = h.program_break /\ k.freep = l
  BY <1>2, <1>1 DEF Words
<1> QED
  BY <1>1, <1>3 DEF WasCut

\* What malloc found: n units that no block of B touches, and the heap without them
Taken(r, n, B) ==
  /\ r.header \in 1 .. HEAP /\ r.header + n <= HEAP + 1
  /\ \A b \in B : After(b) <= r.header \/ After(Block(r.header, n)) <= b.header
  /\ \E G : Sound(r.heap, G, B \union {Block(r.header, n)})

\* A block is taken out of the free list, or off the end of one that stays there.
LEMMA TakeFacts ==
  ASSUME Limits, NEW h, NEW F, NEW B, Sound(h, F, B), NEW n \in Nat \ {0},
         Found(h, n) # {},
         NEW r, r = Take(h, n)
  PROVE  Taken(r, n, B)
<1> PICK d : d = Block(r.header, n)
  OBVIOUS
<1> PICK w : w = Walk(h)
  OBVIOUS
<1> PICK found : found = Found(h, n)
  OBVIOUS
<1> PICK i : i = Min(found)
  OBVIOUS
<1>1. Turn(h) \subseteq 1 .. HEAP + 1 /\ h \in Words /\ Ring(h, F)
      /\ Tiles(F, h.size, B, h.program_break) /\ Apart(F, h.size)
  BY TurnIsRing DEF Sound
<1>2. found \in SUBSET Nat /\ found # {}
  BY <1>1 DEF Found
<1>3. i \in found
  BY <1>2, MinOf
<1>4. i \in 1 .. HEAP + 1 /\ h.size[w[i]] >= n
  BY <1>1, <1>3 DEF Found
<1>5. HEAP \in Nat /\ i \in 0 .. HEAP + 1 /\ i - 1 \in 0 .. HEAP + 1
  BY <1>4 DEF Limits
<1>6. PICK v \in F : v = w[i - 1]
  BY <1>1, <1>5, WalkInRing
<1>7. PICK p \in F : p = w[i]
  BY <1>1, <1>5, WalkInRing
<1>8. h.ptr[v] = p
  BY <1>4, <1>6, <1>7, WalkSteps
<1>9. PICK f \in [Addresses -> Int] : f = h.ptr
  BY <1>1, WordsParts
<1>10. PICK z \in [Addresses -> Nat] : z = h.size
  BY <1>1, WordsParts
<1>11. PICK pb \in 1 .. HEAP : pb = h.program_break
  BY <1>1, WordsParts
<1>12. h = [ptr |-> f, size |-> z, program_break |-> pb, freep |-> h.freep]
  BY <1>1, <1>9, <1>10, <1>11, WordsParts
<1>13. F \in SUBSET Addresses /\ F \in SUBSET (0 .. HEAP + 1) /\ F \in SUBSET Int
       /\ BASE \in F /\ InOrder(F, f) /\ Tiles(F, z, B, pb) /\ Apart(F, z)
  BY <1>1, <1>9, <1>10, <1>11, RingFacts DEF Ring
<1>14. z[p] >= n /\ z[p] \in Nat /\ p \in Int /\ p # BASE
  <2>1. z[p] >= n /\ z[p] \in Nat
    BY <1>4, <1>7, <1>10, <1>13
  <2>2. z[p] = 0 <=> p = BASE
    BY <1>13 DEF Tiles
  <2> QED
    BY <2>1, <2>2, <1>13
<1>15. v # p
  <2>1. v = p => Behind(F, p, p)
    BY <1>8, <1>9, <1>13, NextOf
  <2>2. BASE \in Int
    BY <1>13
  <2> QED
    BY <2>1, <2>2, <1>13, <1>14 DEF Behind
<1>16. v \in Int /\ v \in Addresses /\ p \in Addresses
  BY <1>13
<1>17. CASE z[p] - n = 0
  <2>1. r = [heap |-> [h EXCEPT !.ptr[v] = h.ptr[p], !.freep = v], header |-> p]
    BY <1>6, <1>7, <1>10, <1>17 DEF Take
  <2> PICK k : k = r.heap
    OBVIOUS
  <2>2. r.header = p /\ k = Skip(h, v, h.ptr[p], v)
    BY <2>1 DEF Skip
  <2> PICK g : g = k.ptr
    OBVIOUS
  <2>3. /\ k \in Words /\ k.size = h.size /\ k.program_break = h.program_break /\ k.freep = v
        /\ g[v] = h.ptr[p] /\ \A a \in Addresses \ {v} : g[a] = h.ptr[a]
    <3>1. h.ptr[p] \in Int
      BY <1>9, <1>16
    <3>2. Skipped(h, k, v, h.ptr[p], v)
      BY <1>1, <1>16, <2>2, <3>1, SkipFacts
    <3> QED
      BY <3>2 DEF Skipped
  <2>4. /\ k \in Words /\ k.ptr = g /\ k.size = z /\ k.program_break = pb /\ k.freep = v
        /\ g[v] = f[p] /\ \A a \in F \ {p, v} : g[a] = f[a]
    BY <1>9, <1>10, <1>11, <1>13, <2>3
  <2>5. InOrder(F \ {p}, g)
    <3>1. f[v] = p
      BY <1>8, <1>9
    <3>2. TakenOut(F, f, g, v, p)
      BY <1>15, <2>4, <3>1 DEF TakenOut
    <3> QED
      BY <3>2, <1>13, OrderWithout
  <2>6. Ring(k, F \ {p})
    BY <1>13, <1>14, <1>15, <2>4, <2>5 DEF Ring
  <2>7. d = Block(p, z[p]) /\ z[p] = n
    BY <1>14, <1>17, <2>2
  <2>8. /\ p \in 1 .. HEAP /\ Ends(z, p) <= pb
        /\ \A b \in B : After(b) <= p \/ After(d) <= b.header
        /\ Tiles(F \ {p}, z, B \union {d}, pb)
    BY <1>13, <1>14, <2>7, TilesTaken
  <2>9. Apart(F \ {p}, z)
    BY <1>13 DEF Apart
  <2>10. Sound(k, F \ {p}, B \union {d})
    BY <2>4, <2>6, <2>8, <2>9 DEF Sound
  <2>11. p + n <= HEAP + 1
    BY <1>5, <1>14, <2>7, <2>8 DEF Ends
  <2> QED
    BY <2>2, <2>8, <2>10, <2>11 DEF Taken
<1>18. CASE z[p] - n # 0
  <2>1. PICK rest \in Nat \ {0} : rest = z[p] - n
    BY <1>14, <1>18
  <2> PICK q : q = p + rest
    OBVIOUS
  <2>2. q = p + (z[p] - n) /\ n < z[p] /\ q \in Int
    BY <1>14, <2>1
  <2>3. r = [heap |-> [h EXCEPT !.size[p] = rest, !.size[p + rest] = n, !.freep = v],
             header |-> p + rest]
    BY <1>6, <1>7, <1>10, <1>18, <2>1 DEF Take
  <2> PICK k : k = r.heap
    OBVIOUS
  <2>4. r.header = q /\ k = Cut(h, p, rest, q, n, v)
    BY <2>3 DEF Cut
  <2>5. p \in 1 .. HEAP /\ Ends(z, p) <= pb
    BY <1>13, <1>14, TilesTaken
  <2>6. q \in 1 .. HEAP /\ q \in Addresses /\ q # p
    <3>1. q \in 1 .. HEAP /\ q # p
      BY <1>5, <1>11, <1>14, <2>1, <2>2, <2>5 DEF Ends
    <3> QED
      BY <3>1, AddressFacts
  <2> PICK y : y = k.size
    OBVIOUS
  <2>7. /\ k \in Words /\ k.ptr = h.ptr /\ k.program_break = h.program_break /\ k.freep = v
        /\ y[p] = rest /\ y[q] = n
        /\ \A a \in Addresses \ {p, q} : y[a] = h.size[a]
    <3>1. WasCut(h, k, p, rest, q, n, v)
      BY <1>1, <1>16, <2>1, <2>4, <2>6, CutFacts
    <3> QED
      BY <3>1 DEF WasCut
  <2>8. /\ k \in Words /\ k.ptr = f /\ k.size = y /\ k.program_break = pb /\ k.freep = v
        /\ y[p] = z[p] - n /\ y[q] = n
        /\ \A a \in Addresses \ {p, q} : y[a] = z[a]
    BY <1>9, <1>10, <1>11, <2>1, <2>7
  <2>9. d = Block(q, n)
    BY <2>4
  <2>10. \A b \in B : b.header # q => y[b.header] = z[b.header]
    <3> SUFFICES ASSUME NEW b \in B, b.header # q PROVE y[b.header] = z[b.header]
      OBVIOUS
    <3>1. b.header \in 1 .. HEAP /\ b.header # p
      <4>1. b \in [header : 1 .. HEAP, units : Nat \ {0}]
            /\ (Ends(z, p) <= b.header \/ After(b) <= p)
        BY <1>13 DEF Tiles
      <4> QED
        BY <4>1, <1>14, <2>1, <2>2 DEF Ends, After
    <3>2. b.header \in Addresses
      BY <3>1, AddressFacts
    <3> QED
      BY <3>1, <3>2, <2>8
  <2>11. /\ q \notin F /\ Ends(y, p) = q
         /\ \A b \in B : After(b) <= q \/ After(d) <= b.header
         /\ Tiles(F, y, B \union {d}, pb)
    <3>1. \A a \in F \ {p, q} : y[a] = z[a]
      BY <1>13, <2>8
    <3>2. CutOff(F, z, B, p, n, q, y)
      BY <1>14, <2>2, <2>8, <2>10, <3>1 DEF CutOff
    <3>3. InTwo(F, B, p, n, q, y, pb)
      BY <1>13, <3>2, TilesCut
    <3> QED
      BY <2>9, <3>3 DEF InTwo
  <2>12. Apart(F, y)
    BY <1>13, <2>6, <2>8, <2>11 DEF Apart, Ends
  <2>13. Ring(k, F)
    BY <1>13, <2>8 DEF Ring
  <2>14. Sound(k, F, B \union {d})
    BY <2>8, <2>11, <2>12, <2>13 DEF Sound
  <2>15. q + n <= HEAP + 1
    BY <1>5, <1>14, <2>2, <2>5 DEF Ends
  <2> QED
    BY <2>4, <2>6, <2>11, <2>14, <2>15 DEF Taken
<1> QED
  BY <1>17, <1>18

\* The pointers once p leads to x
Led(j, p, x) == [j.ptr EXCEPT ![p] = x]

\* Halfway through FreeBlock: x has its way to the next block, and p is about to lead to x.
Half(j, F, B, pb, p, x, n) ==
  /\ j \in Words /\ j.program_break = pb /\ j.size[x] >= n
  /\ F \in SUBSET Addresses /\ BASE \in F /\ p \in F /\ x \in F /\ x # p /\ x # BASE
  /\ InOrder(F, Led(j, p, x))
  /\ Tiles(F, j.size, B, pb)
  /\ \A a \in F \ {BASE, p} : Ends(j.size, a) \notin F
  /\ p # BASE /\ Ends(j.size, p) \in F => Ends(j.size, p) = x

LEMMA JoinHalf ==
  ASSUME Limits, NEW h, NEW F, NEW B, Sound(h, F, B), NEW b \in B,
         NEW p \in F, Goes(p, h.ptr[p], b.header)
  PROVE  \E G : Half(Joined(h, p, b.header), G, B \ {b}, h.program_break, p, b.header, b.units)
<1> PICK x : x = b.header
  OBVIOUS
<1> PICK j : j = Joined(h, p, x)
  OBVIOUS
<1> PICK D : D = B \ {b}
  OBVIOUS
<1>1. /\ h \in Words /\ Ring(h, F) /\ Tiles(F, h.size, B, h.program_break) /\ Apart(F, h.size)
  BY DEF Sound
<1>2. PICK f \in [Addresses -> Int] : f = h.ptr
  BY <1>1, WordsParts
<1>3. PICK z \in [Addresses -> Nat] : z = h.size
  BY <1>1, WordsParts
<1>4. PICK pb \in 1 .. HEAP : pb = h.program_break
  BY <1>1, WordsParts
<1>5. F \in SUBSET Addresses /\ F \in SUBSET (0 .. HEAP + 1) /\ F \in SUBSET Int
      /\ BASE \in F /\ InOrder(F, f) /\ Tiles(F, z, B, pb) /\ Apart(F, z)
  BY <1>1, <1>2, <1>3, <1>4, RingFacts DEF Ring
<1>6. x \notin F /\ x \in 1 .. HEAP /\ Tiles(F \union {x}, z, D, pb)
  BY <1>5, TilesFreed
<1>7. PICK n \in F : n = f[p]
  BY <1>5, NextOf
<1>8. Behind(F, p, n) /\ Goes(p, n, x)
  BY <1>2, <1>5, <1>7, NextOf
<1>9. /\ \A a \in F : Ends(z, a) = x => a = p /\ a # BASE
      /\ Ends(z, x) \in F => Ends(z, x) = n /\ n # BASE
  BY <1>5, <1>6, <1>8, Touches
<1>10. /\ x \in Addresses /\ x # BASE /\ x # p /\ x # n /\ x \in Int
       /\ p \in Addresses /\ n \in Addresses /\ n \in Int /\ p \in Int
  BY <1>5, <1>6, AddressFacts
<1>11. Met(h, j, x, n)
  BY <1>1, <1>2, <1>7, <1>10, MeetFacts, FreeBlockMeets
<1>12. PICK g \in [Addresses -> Int] : g = j.ptr
  BY <1>11, WordsParts DEF Met
<1>13. PICK y \in [Addresses -> Nat] : y = j.size
  BY <1>11, WordsParts DEF Met
<1>14. /\ j \in Words /\ j.program_break = pb
       /\ \A c \in Addresses \ {x} : g[c] = f[c] /\ y[c] = z[c]
       /\ Ends(z, x) = n => g[x] = f[n] /\ y[x] = z[x] + z[n]
       /\ Ends(z, x) # n => g[x] = n /\ y[x] = z[x]
  BY <1>2, <1>3, <1>4, <1>11, <1>12, <1>13 DEF Met
<1>15. z[x] = b.units /\ z[x] \in Nat /\ z[n] \in Nat /\ z[x] # 0 /\ (n # BASE => z[n] # 0)
  BY <1>5, <1>6, <1>10 DEF Tiles
<1> PICK E : E = F \union {x}
  OBVIOUS
<1>16. PICK k : k[p] = x /\ k[x] = n /\ \A a \in F \ {p} : k[a] = f[a]
  <2> DEFINE k == [[f EXCEPT ![p] = x] EXCEPT ![x] = n]
  <2>1. k[p] = x /\ k[x] = n /\ \A a \in F \ {p} : k[a] = f[a]
    BY <1>5, <1>6, <1>10
  <2> QED
    BY <2>1
<1>17. InOrder(E, k)
  <2>1. PutIn(F, f, k, p, x)
    BY <1>6, <1>7, <1>8, <1>10, <1>16 DEF PutIn
  <2> QED
    BY <1>5, <2>1, OrderWith
<1>18. PICK i : i = Led(j, p, x) /\ i[p] = x /\ i[x] = g[x] /\ \A a \in F \ {p} : i[a] = f[a]
  <2> DEFINE i == [g EXCEPT ![p] = x]
  <2>1. i[p] = x /\ i[x] = g[x] /\ \A a \in F \ {p} : i[a] = f[a]
    BY <1>5, <1>6, <1>10, <1>14
  <2> QED
    BY <2>1, <1>12 DEF Led
<1>19. E \in SUBSET Addresses /\ E \in SUBSET (0 .. HEAP + 1) /\ E \in SUBSET Int
       /\ BASE \in E /\ p \in E /\ x \in E /\ n \in E
  BY <1>5, <1>10, AddressFacts
<1>20. \A d \in D : d.header # x /\ d.header \in Addresses
  <2> SUFFICES ASSUME NEW d \in D PROVE d.header # x /\ d.header \in Addresses
    OBVIOUS
  <2>1. d \in [header : 1 .. HEAP, units : Nat \ {0}] /\ b \in [header : 1 .. HEAP, units : Nat \ {0}]
        /\ (After(b) <= d.header \/ After(d) <= b.header)
    BY <1>5 DEF Tiles
  <2>2. d.header # x
    BY <2>1 DEF After
  <2> QED
    BY <2>1, <2>2, AddressFacts
<1>21. \A a \in F \ {BASE} : Ends(z, a) \notin F
  BY <1>5 DEF Apart
<1>22. CASE Ends(z, x) = n
  <2>1. g[x] = f[n] /\ y[x] = z[x] + z[n] /\ n # BASE /\ y[x] >= b.units
    BY <1>9, <1>14, <1>15, <1>22
  <2>2. n # p
    <3>1. n = p => \A c \in F : c = p
      BY <1>5, <1>8, <1>10 DEF Behind
    <3> QED
      BY <1>5, <2>1, <3>1
  <2> PICK G : G = E \ {n}
    OBVIOUS
  <2>3. InOrder(G, i)
    <3>1. n \in F \ {p} /\ k[n] = f[n]
      BY <1>16, <2>2
    <3>2. k[x] = n /\ x # n /\ i[x] = k[n]
      BY <1>10, <1>16, <1>18, <2>1, <3>1
    <3>3. \A a \in E \ {n, x} : i[a] = k[a]
      BY <1>16, <1>18
    <3>4. TakenOut(E, k, i, x, n)
      BY <1>19, <3>2, <3>3 DEF TakenOut
    <3> QED
      BY <1>17, <1>19, <3>4, OrderWithout
  <2>4. JoinedUp(E, z, D, x, n, y)
    BY <1>10, <1>14, <1>19, <1>20, <1>22, <2>1 DEF JoinedUp
  <2>5. Tiles(G, y, D, pb) /\ Ends(y, x) = Ends(z, n)
    <3>1. Tiles(G, y, D, pb)
      BY <1>6, <1>19, <2>4, TilesJoined
    <3>2. Ends(y, x) = Ends(z, n)
      BY <1>10, <1>15, <1>22, <2>1 DEF Ends
    <3> QED
      BY <3>1, <3>2
  <2>6. \A a \in G \ {BASE, p} : Ends(y, a) \notin G
    <3> SUFFICES ASSUME NEW a \in G \ {BASE, p} PROVE Ends(y, a) \notin E
      OBVIOUS
    <3>1. CASE a = x
      <4>1. Ends(z, n) \notin F
        BY <1>21, <2>1
      <4>2. Ends(z, n) # x
        BY <1>9, <2>2
      <4> QED
        BY <3>1, <2>5, <4>1, <4>2
    <3>2. CASE a # x
      <4>1. a \in F /\ y[a] = z[a]
        BY <3>2, <1>5, <1>14
      <4>2. Ends(z, a) \notin F /\ Ends(z, a) # x
        BY <1>9, <1>21, <4>1
      <4> QED
        BY <4>1, <4>2 DEF Ends
    <3> QED
      BY <3>1, <3>2
  <2>7. p # BASE /\ Ends(y, p) \in G => Ends(y, p) = x
    BY <1>10, <1>14, <1>21 DEF Ends
  <2>8. Half(j, G, D, pb, p, x, b.units)
    BY <1>10, <1>12, <1>13, <1>14, <1>18, <1>19, <2>1, <2>2, <2>3, <2>5, <2>6, <2>7 DEF Half
  <2> QED
    BY <1>4, <2>8
<1>23. CASE Ends(z, x) # n
  <2>1. g[x] = n /\ y[x] = z[x] /\ y[x] >= b.units
    BY <1>14, <1>15, <1>23
  <2>2. InOrder(E, i)
    <3>1. \A a \in E : i[a] = k[a]
      BY <1>16, <1>18, <2>1
    <3> QED
      BY <1>17, <3>1 DEF InOrder
  <2>3. Tiles(E, y, D, pb)
    <3>1. \A a \in E : y[a] = z[a]
      BY <1>5, <1>14, <2>1
    <3>2. \A d \in D : y[d.header] = z[d.header]
      BY <1>14, <1>20
    <3> QED
      BY <1>6, <3>1, <3>2, TilesSame DEF SameSizes
  <2>4. \A a \in E \ {BASE, p} : Ends(y, a) \notin E
    <3> SUFFICES ASSUME NEW a \in E \ {BASE, p} PROVE Ends(y, a) \notin E
      OBVIOUS
    <3>1. CASE a = x
      <4>1. Ends(z, x) \notin F
        BY <1>9, <1>23
      <4>2. Ends(z, x) # x
        BY <1>10, <1>15 DEF Ends
      <4> QED
        BY <3>1, <2>1, <4>1, <4>2 DEF Ends
    <3>2. CASE a # x
      <4>1. a \in F /\ y[a] = z[a]
        BY <3>2, <1>5, <1>14
      <4>2. Ends(z, a) \notin F /\ Ends(z, a) # x
        BY <1>9, <1>21, <4>1
      <4> QED
        BY <4>1, <4>2 DEF Ends
    <3> QED
      BY <3>1, <3>2
  <2>5. p # BASE /\ Ends(y, p) \in E => Ends(y, p) = x
    BY <1>10, <1>14, <1>21 DEF Ends
  <2>6. Half(j, E, D, pb, p, x, b.units)
    BY <1>10, <1>12, <1>13, <1>14, <1>18, <1>19, <2>1, <2>2, <2>3, <2>4, <2>5 DEF Half
  <2> QED
    BY <1>4, <2>6
<1> QED
  BY <1>22, <1>23

\* A search begins at p.
Begun(h, p) == [h EXCEPT !.freep = p]

\* What free has made: a heap with B in use, and n free units in one block
Freed(r, B, pb, n) ==
  /\ r.program_break = pb
  /\ \E G : Sound(r, G, B) /\ \E a \in G : r.size[a] >= n

LEMMA LinkWhole ==
  ASSUME Limits, NEW j, NEW F, NEW B, NEW pb \in 1 .. HEAP, NEW p, NEW x, NEW n \in Nat,
         Half(j, F, B, pb, p, x, n)
  PROVE  Freed(Begun(Linked(j, p, x), p), B, pb, n)
<1> PICK l : l = Linked(j, p, x)
  OBVIOUS
<1> PICK r : r = Begun(l, p)
  OBVIOUS
<1>1. /\ j \in Words /\ j.program_break = pb /\ j.size[x] >= n
      /\ F \in SUBSET Addresses /\ BASE \in F /\ p \in F /\ x \in F /\ x # p /\ x # BASE
      /\ InOrder(F, Led(j, p, x))
      /\ Tiles(F, j.size, B, pb)
      /\ \A a \in F \ {BASE, p} : Ends(j.size, a) \notin F
      /\ p # BASE /\ Ends(j.size, p) \in F => Ends(j.size, p) = x
  BY DEF Half
<1>2. PICK f \in [Addresses -> Int] : f = j.ptr
  BY <1>1, WordsParts
<1>3. PICK z \in [Addresses -> Nat] : z = j.size
  BY <1>1, WordsParts
<1>4. F \in SUBSET (0 .. HEAP + 1) /\ F \in SUBSET Int /\ p \in Addresses /\ x \in Addresses
      /\ p \in Int /\ x \in Int
  BY <1>1, AddressFacts
<1>5. Met(j, l, p, x)
  BY <1>1, <1>4, MeetFacts, FreeBlockMeets
<1>6. l \in Words
  BY <1>5 DEF Met
<1>7. r \in Words /\ r.ptr = l.ptr /\ r.size = l.size /\ r.freep = p /\ r.program_break = pb
  BY <1>1, <1>4, <1>5, <1>6, FreepSet DEF Met, Begun
<1> PICK g : g = r.ptr
  OBVIOUS
<1> PICK y : y = r.size
  OBVIOUS
<1>8. /\ \A c \in Addresses \ {p} : g[c] = f[c] /\ y[c] = z[c]
      /\ Ends(z, p) = x => g[p] = f[x] /\ y[p] = z[p] + z[x]
      /\ Ends(z, p) # x => g[p] = x /\ y[p] = z[p]
  BY <1>2, <1>3, <1>5, <1>7 DEF Met
<1>9. PICK i : InOrder(F, i) /\ i[p] = x /\ \A a \in F \ {p} : i[a] = f[a]
  <2> DEFINE i == Led(j, p, x)
  <2>1. i[p] = x /\ \A a \in F \ {p} : i[a] = f[a]
    BY <1>1, <1>2, <1>4 DEF Led
  <2> QED
    BY <1>1, <2>1
<1>10. Tiles(F, z, B, pb) /\ z[x] >= n /\ (\A a \in F \ {BASE, p} : Ends(z, a) \notin F)
       /\ (p # BASE /\ Ends(z, p) \in F => Ends(z, p) = x)
  BY <1>1, <1>3
<1>11. \A a \in F \ {p} : g[a] = f[a] /\ y[a] = z[a]
  BY <1>1, <1>8
<1>12. CASE Ends(z, p) = x
  <2>1. p # BASE
    <3>1. z[p] = 0 <=> p = BASE
      BY <1>1, <1>10 DEF Tiles
    <3> QED
      BY <1>1, <1>4, <1>12, <3>1 DEF Ends
  <2>2. \A d \in B : y[d.header] = z[d.header]
    <3> SUFFICES ASSUME NEW d \in B PROVE y[d.header] = z[d.header]
      OBVIOUS
    <3>1. d \in [header : 1 .. HEAP, units : Nat \ {0}]
          /\ (Ends(z, p) <= d.header \/ After(d) <= p) /\ z[p] \in Nat /\ z[p] # 0
      BY <1>1, <1>10, <2>1 DEF Tiles
    <3>2. d.header # p
      BY <1>4, <3>1 DEF After, Ends
    <3>3. d.header \in Addresses
      BY <3>1, AddressFacts
    <3> QED
      BY <1>8, <3>2, <3>3
  <2>3. JoinedUp(F, z, B, p, x, y)
    BY <1>1, <1>8, <1>11, <1>12, <2>1, <2>2 DEF JoinedUp
  <2> PICK G : G = F \ {x}
    OBVIOUS
  <2>4. Tiles(G, y, B, pb) /\ Ends(y, p) = Ends(z, x) /\ y[p] >= z[x]
    <3>1. Tiles(G, y, B, pb)
      BY <1>4, <1>10, <2>3, TilesJoined
    <3>2. z[p] \in Nat /\ z[x] \in Nat /\ y[p] = z[p] + z[x]
      BY <1>4, <1>8, <1>12
    <3>3. Ends(y, p) = Ends(z, x) /\ y[p] >= z[x]
      BY <1>4, <1>12, <3>2 DEF Ends
    <3> QED
      BY <3>1, <3>3
  <2>5. InOrder(G, g)
    <3>1. g[p] = i[x] /\ \A a \in F \ {x, p} : g[a] = i[a]
      BY <1>1, <1>8, <1>9, <1>11, <1>12
    <3>2. TakenOut(F, i, g, p, x)
      BY <1>1, <1>9, <3>1 DEF TakenOut
    <3> QED
      BY <1>4, <1>9, <3>2, OrderWithout
  <2>6. Apart(G, y)
    <3> SUFFICES ASSUME NEW a \in G \ {BASE} PROVE Ends(y, a) \notin F
      BY DEF Apart
    <3>1. CASE a = p
      BY <3>1, <1>1, <1>10, <2>4
    <3>2. CASE a # p
      BY <3>2, <1>10, <1>11 DEF Ends
    <3> QED
      BY <3>1, <3>2
  <2>7. Sound(r, G, B)
    BY <1>1, <1>7, <2>4, <2>5, <2>6 DEF Sound, Ring
  <2>8. p \in G /\ r.size[p] >= n
    <3>1. y[p] \in Nat /\ z[x] \in Nat
      BY <1>1, <1>4, <1>10, <2>4 DEF Tiles
    <3> QED
      BY <1>1, <1>10, <2>4, <3>1
  <2> QED
    BY <1>7, <2>7, <2>8 DEF Freed
<1>13. CASE Ends(z, p) # x
  <2>1. g[p] = x /\ y[p] = z[p]
    BY <1>8, <1>13
  <2>2. \A a \in F : g[a] = i[a] /\ y[a] = z[a]
    BY <1>9, <1>11, <2>1
  <2>3. InOrder(F, g)
    BY <1>9, <2>2 DEF InOrder
  <2>4. \A d \in B : y[d.header] = z[d.header]
    <3> SUFFICES ASSUME NEW d \in B PROVE y[d.header] = z[d.header]
      OBVIOUS
    <3>1. d \in [header : 1 .. HEAP, units : Nat \ {0}]
      BY <1>10 DEF Tiles
    <3>2. d.header \in Addresses
      BY <3>1, AddressFacts
    <3> QED
      BY <1>8, <2>1, <3>2
  <2>5. Tiles(F, y, B, pb)
    BY <1>10, <2>2, <2>4, TilesSame DEF SameSizes
  <2>6. Apart(F, y)
    <3> SUFFICES ASSUME NEW a \in F \ {BASE} PROVE Ends(z, a) \notin F
      BY <2>2 DEF Apart, Ends
    <3> QED
      BY <1>10, <1>13
  <2>7. Sound(r, F, B)
    BY <1>1, <1>7, <2>3, <2>5, <2>6 DEF Sound, Ring
  <2> QED
    BY <1>1, <1>7, <1>10, <2>2, <2>7 DEF Freed
<1> QED
  BY <1>12, <1>13

\* A block in use joins the free ones, with those it touches.
LEMMA FreeFacts ==
  ASSUME Limits, NEW h, NEW F, NEW B, Sound(h, F, B), NEW b \in B
  PROVE  Freed(FreeBlock(h, b.header), B \ {b}, h.program_break, b.units)
<1> PICK x : x = b.header
  OBVIOUS
<1> PICK p : p = Place(h, x)
  OBVIOUS
<1> PICK pb : pb = h.program_break
  OBVIOUS
<1>1. h \in Words /\ Ring(h, F) /\ Tiles(F, h.size, B, pb)
  BY DEF Sound
<1>2. pb \in 1 .. HEAP /\ F \in SUBSET (0 .. HEAP + 1) /\ BASE \in F
  BY <1>1, WordsParts, RingFacts DEF Ring
<1>3. x \notin F /\ x \in 1 .. HEAP
  BY <1>1, <1>2, TilesFreed
<1>4. x \in Int /\ b.units \in Nat
  BY <1>1, <1>3 DEF Tiles
<1>5. p \in F /\ Goes(p, h.ptr[p], x)
  BY <1>1, <1>3, <1>4, PlaceFacts
<1>6. PICK G : Half(Joined(h, p, x), G, B \ {b}, pb, p, x, b.units)
  BY <1>5, JoinHalf
<1>7. FreeBlock(h, x) = Begun(Linked(Joined(h, p, x), p, x), p)
  BY DEF FreeBlock, Begun
<1> QED
  BY <1>2, <1>4, <1>6, <1>7, LinkWhole

-----------------------------------------------------------------------------
(* malloc and free *)

\* The break is moved over n units, which are a block.
Broken(h, n) == [h EXCEPT !.program_break = @ + n, !.size[h.program_break] = n]

Moved(h, m) == [h EXCEPT !.program_break = m]

LEMMA MovedFacts ==
  ASSUME NEW h \in Words, NEW m \in 1 .. HEAP
  PROVE  /\ Moved(h, m) \in Words /\ Moved(h, m).ptr = h.ptr /\ Moved(h, m).size = h.size
         /\ Moved(h, m).freep = h.freep /\ Moved(h, m).program_break = m
<1>1. Moved(h, m) = [ptr |-> h.ptr, size |-> h.size, program_break |-> m, freep |-> h.freep]
  BY DEF Words, Moved
<1>2. Moved(h, m) \in Words
  BY DEF Words, Moved
<1> QED
  BY <1>1, <1>2

LEMMA BrokenSize ==
  ASSUME NEW g \in Words, NEW s \in [Addresses -> Nat]
  PROVE  [g EXCEPT !.size = s]
           = [ptr |-> g.ptr, size |-> s, program_break |-> g.program_break, freep |-> g.freep]
BY DEF Words

LEMMA BrokenFacts ==
  ASSUME NEW h \in Words, NEW n \in Nat, h.program_break \in Addresses,
         h.program_break + n \in 1 .. HEAP
  PROVE  /\ Broken(h, n) \in Words /\ Broken(h, n).ptr = h.ptr /\ Broken(h, n).freep = h.freep
         /\ Broken(h, n).size = [h.size EXCEPT ![h.program_break] = n]
         /\ Broken(h, n).program_break = h.program_break + n
<1> PICK y : y = [h.size EXCEPT ![h.program_break] = n]
  OBVIOUS
<1>1. y \in [Addresses -> Nat]
  BY WordsParts
<1>2. Broken(h, n) = [ptr |-> h.ptr, size |-> y, program_break |-> h.program_break + n, freep |-> h.freep]
  <2> PICK g : g = Moved(h, h.program_break + n)
    OBVIOUS
  <2>1. /\ g \in Words /\ g.ptr = h.ptr /\ g.size = h.size /\ g.freep = h.freep
        /\ g.program_break = h.program_break + n
    BY MovedFacts
  <2>2. Broken(h, n) = [g EXCEPT !.size[h.program_break] = n]
    BY DEF Broken, Moved
  <2>3. [g EXCEPT !.size[h.program_break] = n] = [g EXCEPT !.size = y]
    BY <2>1
  <2>4. [g EXCEPT !.size = y]
          = [ptr |-> g.ptr, size |-> y, program_break |-> g.program_break, freep |-> g.freep]
    BY <1>1, <2>1, BrokenSize
  <2> QED
    BY <2>1, <2>2, <2>3, <2>4
<1> QED
  BY <1>1, <1>2 DEF Words

LEMMA NoWrap ==
  ASSUME NEW m \in Nat, NEW x \in Nat, x < m
  PROVE  x % m = x
OBVIOUS

\* A demand that is small: the new break does not wrap.
Moves(n) == n \in Nat \ {0} /\ n + HEAP <= SPAN

LEMMA BreakMoves ==
  ASSUME Limits, NEW h, NEW n, Moves(n), h.program_break \in 1 .. HEAP
  PROVE  Break(h, n) = h.program_break + n
<1> PICK pb \in 1 .. HEAP : pb = h.program_break
  OBVIOUS
<1>1. pb - 1 + n \in Nat /\ pb - 1 + n < SPAN /\ SPAN \in Nat
  BY DEF Limits, Moves
<1>2. (pb - 1 + n) % SPAN = pb - 1 + n
  BY <1>1, NoWrap
<1> QED
  BY <1>1, <1>2 DEF Break, First, Moves

LEMMA GrownFacts ==
  ASSUME Limits, NEW h, NEW F, NEW B, Sound(h, F, B), NEW n \in Nat \ {0}, Moves(n), Fits(h, n)
  PROVE  \E G : Sound(Grown(h, n), G, B) /\ \E a \in G : Grown(h, n).size[a] >= n
<1> PICK k : k = Broken(h, n)
  OBVIOUS
<1>1. h \in Words /\ Ring(h, F) /\ Tiles(F, h.size, B, h.program_break) /\ Apart(F, h.size)
  BY DEF Sound
<1>2. PICK pb \in 1 .. HEAP : pb = h.program_break
  BY <1>1, WordsParts
<1>3. PICK z \in [Addresses -> Nat] : z = h.size
  BY <1>1, WordsParts
<1>18. Break(h, n) = pb + n
  BY <1>2, BreakMoves
<1>4. HEAP \in Nat /\ pb + n < HEAP + 1 /\ pb + n \in 1 .. HEAP /\ pb \in Addresses
  BY <1>2, <1>18, AddressFacts DEF Limits, Fits
<1>5. /\ k \in Words /\ k.ptr = h.ptr /\ k.freep = h.freep /\ k.program_break = pb + n
      /\ k.size = [z EXCEPT ![pb] = n]
  BY <1>1, <1>2, <1>3, <1>4, BrokenFacts
<1>6. PICK y \in [Addresses -> Nat] : y = k.size
  BY <1>5, WordsParts
<1>7. y[pb] = n /\ \A a \in Addresses \ {pb} : y[a] = z[a]
  BY <1>4, <1>5, <1>6
<1>8. F \in SUBSET Addresses /\ F \in SUBSET (0 .. HEAP + 1) /\ BASE \in F
      /\ Tiles(F, z, B, pb) /\ Apart(F, z)
  BY <1>1, <1>2, <1>3, RingFacts DEF Ring
<1> PICK b : b = Block(pb, n)
  OBVIOUS
<1>9. Tiles(F, y, B \union {b}, pb + n)
  BY <1>4, <1>7, <1>8, TilesGrown
<1>10. pb \notin F
  <2>1. pb \in F => pb # BASE
    BY AddressFacts
  <2>2. pb \in F => Ends(z, pb) <= pb /\ z[pb] \in Nat \ {0}
    BY <1>8, <2>1 DEF Tiles
  <2> QED
    BY <2>2 DEF Ends
<1>11. Apart(F, y)
  BY <1>7, <1>8, <1>10 DEF Apart, Ends
<1>12. Sound(k, F, B \union {b})
  BY <1>1, <1>5, <1>6, <1>9, <1>11 DEF Sound, Ring
<1>13. b.header = pb /\ b.units = n
  BY DEF Block
<1>14. Freed(FreeBlock(k, pb), (B \union {b}) \ {b}, pb + n, n)
  <2> PICK C : C = B \union {b}
    OBVIOUS
  <2>1. b \in C /\ Sound(k, F, C) /\ k.program_break = pb + n
    BY <1>5, <1>12
  <2>2. Freed(FreeBlock(k, b.header), C \ {b}, k.program_break, b.units)
    BY <2>1, FreeFacts
  <2> QED
    BY <1>13, <2>1, <2>2
<1>15. b \notin B
  <2> SUFFICES ASSUME b \in B PROVE FALSE
    OBVIOUS
  <2>1. After(b) <= pb
    BY <1>8 DEF Tiles
  <2> QED
    BY <1>13, <2>1 DEF After
<1>16. (B \union {b}) \ {b} = B
  BY <1>15
<1>17. Grown(h, n) = FreeBlock(k, pb)
  BY <1>2, <1>18 DEF Grown, Broken
<1> QED
  BY <1>14, <1>16, <1>17 DEF Freed

LEMMA RoomFound ==
  ASSUME Limits, NEW h, NEW F, NEW B, Sound(h, F, B), NEW n, NEW a \in F, h.size[a] >= n
  PROVE  Found(h, n) # {}
<1>1. PICK i \in Turn(h) : a = Walk(h)[i]
  BY TurnIsRing DEF Sound
<1> QED
  BY <1>1 DEF Found

LEMMA MallocedFacts ==
  ASSUME Limits, NEW h, NEW F, NEW B, Sound(h, F, B), NEW n \in Nat \ {0}, Moves(n)
  PROVE  \/ Malloced(h, n).header = -1 /\ Malloced(h, n).heap = h
         \/ Taken(Malloced(h, n), n, B)
<1>1. CASE Found(h, n) # {}
  <2>1. Taken(Take(h, n), n, B)
    BY <1>1, TakeFacts
  <2> QED
    BY <1>1, <2>1 DEF Malloced
<1>2. CASE Found(h, n) = {} /\ Fits(h, n)
  <2> PICK k : k = Grown(h, n)
    OBVIOUS
  <2>1. PICK G : Sound(k, G, B) /\ \E a \in G : k.size[a] >= n
    BY <1>2, GrownFacts
  <2>2. Found(k, n) # {}
    BY <2>1, RoomFound
  <2>3. Taken(Take(k, n), n, B)
    BY <2>1, <2>2, TakeFacts
  <2> QED
    BY <1>2, <2>3 DEF Malloced
<1>3. CASE Found(h, n) = {} /\ ~Fits(h, n)
  BY <1>3 DEF Malloced, NULL
<1> QED
  BY <1>1, <1>2, <1>3

\* The words that programs may write are not among those that count.
LEMMA KeptFacts ==
  ASSUME Limits, NEW h, NEW F, NEW B, Sound(h, F, B)
  PROVE  Sound(Kept(h, B), F, B)
<1> PICK k : k = Kept(h, B)
  OBVIOUS
<1>1. h \in Words /\ Ring(h, F) /\ Tiles(F, h.size, B, h.program_break) /\ Apart(F, h.size)
  BY DEF Sound
<1>2. PICK f \in [Addresses -> Int] : f = h.ptr
  BY <1>1, WordsParts
<1>3. PICK z \in [Addresses -> Nat] : z = h.size
  BY <1>1, WordsParts
<1>4. h = [ptr |-> f, size |-> z, program_break |-> h.program_break, freep |-> h.freep]
      /\ h.program_break \in 1 .. HEAP /\ h.freep \in Int
  BY <1>1, <1>2, <1>3, WordsParts
<1> PICK H : H = F \union {b.header : b \in B}
  OBVIOUS
<1> PICK g : g = [a \in Addresses |-> IF a \in F THEN f[a] ELSE -1]
  OBVIOUS
<1> PICK y : y = [a \in Addresses |-> IF a \in H THEN z[a] ELSE 0]
  OBVIOUS
<1>5. k = [h EXCEPT !.ptr = g, !.size = y]
  BY <1>1, <1>2, <1>3, TurnIsRing DEF Kept, NULL
<1>6. k = [ptr |-> g, size |-> y, program_break |-> h.program_break, freep |-> h.freep]
  BY <1>4, <1>5
<1>7. g \in [Addresses -> Int] /\ y \in [Addresses -> Nat]
  OBVIOUS
<1>8. k \in Words /\ k.ptr = g /\ k.size = y /\ k.program_break = h.program_break /\ k.freep = h.freep
  BY <1>4, <1>6, <1>7 DEF Words
<1>9. F \in SUBSET Addresses
  BY <1>1 DEF Ring
<1>10. \A a \in F : g[a] = f[a] /\ y[a] = z[a]
  BY <1>9
<1>11. \A b \in B : y[b.header] = z[b.header]
  <2> SUFFICES ASSUME NEW b \in B PROVE y[b.header] = z[b.header]
    OBVIOUS
  <2>1. b \in [header : 1 .. HEAP, units : Nat \ {0}]
    BY <1>1 DEF Tiles
  <2>2. b.header \in Addresses /\ b.header \in H
    BY <2>1, AddressFacts
  <2> QED
    BY <2>2
<1>12. Tiles(F, y, B, h.program_break)
  <2>1. Tiles(F, z, B, h.program_break)
    BY <1>1, <1>3
  <2>2. SameSizes(F, z, B, y)
    BY <1>10, <1>11 DEF SameSizes
  <2> QED
    BY <2>1, <2>2, TilesSame
<1>13. Apart(F, y)
  BY <1>1, <1>3, <1>10 DEF Apart, Ends
<1>14. InOrder(F, g)
  BY <1>1, <1>2, <1>10 DEF InOrder, Ring
<1> QED
  BY <1>1, <1>8, <1>12, <1>13, <1>14 DEF Sound, Ring

LEMMA UnitsAsked ==
  ASSUME Limits, SmallDemands, NEW nbytes \in Demands
  PROVE  /\ nunits(nbytes) = UnitsFor(nbytes) /\ nunits(nbytes) \in Nat \ {0}
         /\ Moves(nunits(nbytes))
<1> DEFINE x == nbytes + UNIT - 1
<1>1. /\ nbytes \in Nat /\ HEAP \in Nat /\ SPAN \in Nat
      /\ nbytes + 8 * (HEAP + 2) <= 8 * SPAN
  BY DEF Limits, SmallDemands, UNIT
<1>2. x \in Nat /\ x = nbytes + 7 /\ x < UNIT * SPAN /\ UNIT * SPAN \in Nat
  BY <1>1 DEF UNIT
<1>3. x % (UNIT * SPAN) = x
  BY <1>2, NoWrap
<1>4. nunits(nbytes) = x \div 8 + 1 /\ UnitsFor(nbytes) = x \div 8 + 1
  BY <1>3 DEF nunits, UnitsFor, UNIT
<1>5. x \div 8 \in Nat /\ 8 * (x \div 8) <= nbytes + 7
  BY <1>2
<1>6. x \div 8 + 1 + HEAP <= SPAN
  BY <1>1, <1>5
<1> QED
  BY <1>4, <1>5, <1>6 DEF Moves

\* base is set up: the only free block, of no units.
LEMMA AnchoredFacts ==
  ASSUME Limits, HeapInit
  PROVE  Sound(Anchored(heap), {BASE}, used)
<1> PICK k : k = Anchored(heap)
  OBVIOUS
<1> DEFINE f == [[a \in Addresses |-> -1] EXCEPT ![BASE] = BASE]
           z == [[a \in Addresses |-> 0] EXCEPT ![BASE] = 0]
<1>1. BASE \in Addresses /\ BASE \in 0 .. HEAP + 1 /\ 1 \in 1 .. HEAP /\ BASE \in Int
  BY AddressFacts DEF Limits
<1>2. heap = [ptr |-> [a \in Addresses |-> -1], size |-> [a \in Addresses |-> 0],
              program_break |-> 1, freep |-> -1] /\ used = {}
  BY DEF HeapInit, NULL, First
<1>3. k = [heap EXCEPT !.ptr[BASE] = BASE, !.size[BASE] = 0, !.freep = BASE]
  BY <1>2 DEF Anchored, NULL
<1>4. k = [ptr |-> f, size |-> z, program_break |-> 1, freep |-> BASE]
  BY <1>2, <1>3
<1>5. f \in [Addresses -> Int] /\ z \in [Addresses -> Nat] /\ f[BASE] = BASE /\ z[BASE] = 0
  BY <1>1
<1> HIDE DEF f, z
<1>6. k \in Words /\ k.ptr = f /\ k.size = z /\ k.program_break = 1 /\ k.freep = BASE
  BY <1>1, <1>4, <1>5 DEF Words
<1>7. Ring(k, {BASE})
  BY <1>1, <1>5, <1>6 DEF Ring, InOrder, Behind
<1>8. Tiles({BASE}, z, {}, 1)
  BY <1>1, <1>5 DEF Tiles
<1>9. Apart({BASE}, z)
  BY DEF Apart
<1> QED
  BY <1>2, <1>6, <1>7, <1>8, <1>9 DEF Sound

HeapIInv == HeapInit \/ \E F : Sound(heap, F, used)

LEMMA AnchoredSound ==
  ASSUME Limits, HeapIInv
  PROVE  \E F : Sound(Anchored(heap), F, used)
<1>1. CASE HeapInit
  BY <1>1, AnchoredFacts
<1>2. CASE \E F : Sound(heap, F, used)
  <2>1. PICK F : Sound(heap, F, used)
    BY <1>2
  <2>2. heap.freep \in F /\ F \in SUBSET (0 .. HEAP + 1)
    BY <2>1, RingFacts DEF Sound, Ring
  <2>3. heap.freep # -1
    BY <2>2
  <2>4. Anchored(heap) = heap
    BY <2>3 DEF Anchored, NULL
  <2> QED
    BY <2>1, <2>4
<1> QED
  BY <1>1, <1>2 DEF HeapIInv

LEMMA MallocStep ==
  ASSUME Limits, SmallDemands, HeapIInv, NEW nbytes \in Demands, malloc(nbytes)
  PROVE  /\ HeapIInv'
         /\ \/ used' = used
            \/ \E p \in 1 .. HEAP :
                 /\ p + nunits(nbytes) <= HEAP + 1
                 /\ \A b \in used : After(b) <= p \/ After(Block(p, nunits(nbytes))) <= b.header
                 /\ used' = used \union {Block(p, nunits(nbytes))}
<1> PICK n : n = nunits(nbytes)
  OBVIOUS
<1> PICK r : r = Malloced(Anchored(heap), n)
  OBVIOUS
<1>1. n \in Nat \ {0} /\ Moves(n)
  BY UnitsAsked
<1>2. used' = (IF r.header = -1 THEN used ELSE used \union {Block(r.header, n)})
      /\ heap' = Kept(r.heap, used')
  BY DEF malloc, Block, NULL
<1>3. PICK F : Sound(Anchored(heap), F, used)
  BY AnchoredSound
<1>4. \/ r.header = -1 /\ r.heap = Anchored(heap)
      \/ Taken(r, n, used)
  BY <1>1, <1>3, MallocedFacts
<1>5. CASE r.header = -1 /\ r.heap = Anchored(heap)
  <2>1. used' = used /\ heap' = Kept(r.heap, used)
    BY <1>2, <1>5
  <2>2. Sound(heap', F, used')
    BY <1>3, <1>5, <2>1, KeptFacts
  <2> QED
    BY <2>1, <2>2 DEF HeapIInv
<1>6. CASE Taken(r, n, used)
  <2>1. /\ r.header \in 1 .. HEAP /\ r.header + n <= HEAP + 1
        /\ \A b \in used : After(b) <= r.header \/ After(Block(r.header, n)) <= b.header
    BY <1>6 DEF Taken
  <2>2. PICK G : Sound(r.heap, G, used \union {Block(r.header, n)})
    BY <1>6 DEF Taken
  <2>3. r.header # -1
    BY <2>1
  <2>4. used' = used \union {Block(r.header, n)} /\ heap' = Kept(r.heap, used')
    BY <1>2, <2>3
  <2>5. Sound(heap', G, used')
    BY <2>2, <2>4, KeptFacts
  <2> QED
    BY <2>1, <2>4, <2>5 DEF HeapIInv
<1> QED
  BY <1>4, <1>5, <1>6

LEMMA FreeStep ==
  ASSUME Limits, HeapIInv, NEW b \in used, free(b)
  PROVE  HeapIInv' /\ used' = used \ {b}
<1>1. PICK F : Sound(heap, F, used)
  BY DEF HeapIInv, HeapInit
<1> PICK r : r = FreeBlock(heap, b.header)
  OBVIOUS
<1>2. used' = used \ {b} /\ heap' = Kept(r, used')
  BY DEF free
<1>3. PICK G : Sound(r, G, used \ {b})
  BY <1>1, FreeFacts DEF Freed
<1>4. Sound(heap', G, used')
  BY <1>2, <1>3, KeptFacts
<1> QED
  BY <1>2, <1>4 DEF HeapIInv

LEMMA LimitsHold == Limits
BY HeapAssumption DEF Limits

LEMMA HeapInductive ==
  ASSUME SmallDemands
  PROVE  HeapSpec => []HeapIInv
<1>1. Limits
  BY LimitsHold
<1>2. HeapInit => HeapIInv
  BY DEF HeapIInv
<1>3. HeapIInv /\ [HeapNext]_heapVars => HeapIInv'
  <2> SUFFICES ASSUME HeapIInv, [HeapNext]_heapVars PROVE HeapIInv'
    OBVIOUS
  <2>1. ASSUME NEW nbytes \in Demands, malloc(nbytes) PROVE HeapIInv'
    BY <1>1, <2>1, MallocStep
  <2>2. ASSUME NEW b \in used, free(b) PROVE HeapIInv'
    BY <1>1, <2>2, FreeStep
  <2>3. CASE UNCHANGED heapVars
    BY <2>3 DEF HeapIInv, HeapInit, heapVars
  <2> QED
    BY <2>1, <2>2, <2>3 DEF HeapNext
<1> QED
  BY <1>2, <1>3, PTL DEF HeapSpec

LEMMA SoundPartition ==
  ASSUME Limits, NEW F, Sound(heap, F, used)
  PROVE  Partition
<1> PICK z : z = heap.size
  OBVIOUS
<1>1. FreeList(heap) = F
  BY FreeListIsRing DEF Sound
<1>2. PICK pb \in 1 .. HEAP : pb = heap.program_break
  BY WordsParts DEF Sound
<1>3. Tiles(F, z, used, pb) /\ F \in SUBSET (0 .. HEAP + 1) /\ BASE \in F
  BY <1>2, RingFacts DEF Sound, Ring
<1>4. \A a \in F : a \in Int /\ z[a] \in Nat /\ (z[a] = 0 <=> a = BASE)
  BY <1>3 DEF Tiles
<1>5. \A b \in used : b.header \in 1 .. HEAP /\ b.units \in Nat \ {0} /\ After(b) <= pb
                      /\ z[b.header] = b.units
  BY <1>3 DEF Tiles
<1>6. \A a \in F : FreeSpan(heap, a) = a .. a + z[a] - 1
  BY DEF FreeSpan
<1>7. \A b \in used : UsedSpan(b) = b.header .. b.header + b.units - 1
  BY DEF UsedSpan
<1>8. ASSUME NEW a \in F, NEW c \in F, a # c
      PROVE  FreeSpan(heap, a) \intersect FreeSpan(heap, c) = {}
  <2>1. Ends(z, a) <= c \/ Ends(z, c) <= a
    BY <1>3, <1>4, <1>8 DEF Tiles
  <2>2. a \in Int /\ c \in Int /\ z[a] \in Nat /\ z[c] \in Nat
    BY <1>4
  <2>3. a + z[a] <= c \/ c + z[c] <= a
    BY <2>1 DEF Ends
  <2>4. ASSUME NEW u \in a .. a + z[a] - 1, u \in c .. c + z[c] - 1 PROVE FALSE
    BY <2>2, <2>3, <2>4
  <2> QED
    BY <1>6, <2>4
<1>9. ASSUME NEW b \in used, NEW a \in F
      PROVE  UsedSpan(b) \intersect FreeSpan(heap, a) = {}
  <2>1. Ends(z, a) <= b.header \/ After(b) <= a
    BY <1>3 DEF Tiles
  <2>2. a \in Int /\ z[a] \in Nat /\ b.header \in Nat /\ b.units \in Nat
    BY <1>4, <1>5
  <2>3. a + z[a] <= b.header \/ b.header + b.units <= a
    BY <2>1 DEF Ends, After
  <2>4. ASSUME NEW u \in a .. a + z[a] - 1, u \in b.header .. b.header + b.units - 1 PROVE FALSE
    BY <2>2, <2>3, <2>4
  <2> QED
    BY <1>6, <1>7, <2>4
<1> DEFINE spans == {FreeSpan(heap, a) : a \in F} \union {UsedSpan(b) : b \in used}
<1>10. ASSUME NEW u \in 1 .. pb - 1 PROVE u \in UNION spans
  <2>1. CASE \E a \in F : a <= u /\ u < Ends(z, a)
    <3>1. PICK a \in F : a <= u /\ u < Ends(z, a)
      BY <2>1
    <3>2. u \in FreeSpan(heap, a)
      BY <1>4, <1>6, <3>1 DEF Ends
    <3> QED
      BY <3>2
  <2>2. CASE \E b \in used : b.header <= u /\ u < After(b)
    <3>1. PICK b \in used : b.header <= u /\ u < After(b)
      BY <2>2
    <3>2. u \in UsedSpan(b)
      BY <1>5, <1>7, <3>1 DEF After
    <3> QED
      BY <3>2
  <2> QED
    BY <1>3, <2>1, <2>2 DEF Tiles
<1>11. ASSUME NEW u \in UNION spans PROVE u \in 1 .. pb - 1
  <2>1. CASE \E a \in F : u \in FreeSpan(heap, a)
    <3>1. PICK a \in F : u \in FreeSpan(heap, a)
      BY <2>1
    <3>2. u \in a .. a + z[a] - 1
      BY <1>6, <3>1
    <3>3. a # BASE
      BY <1>4, <3>2
    <3>4. 1 <= a /\ Ends(z, a) <= pb
      BY <1>3, <3>3 DEF Tiles
    <3> QED
      BY <1>4, <3>2, <3>4 DEF Ends
  <2>2. CASE \E b \in used : u \in UsedSpan(b)
    <3>1. PICK b \in used : u \in UsedSpan(b)
      BY <2>2
    <3> QED
      BY <1>5, <1>7, <3>1 DEF After
  <2> QED
    BY <2>1, <2>2
<1>12. UNION spans = 1 .. pb - 1
  BY <1>10, <1>11
<1> QED
  BY <1>1, <1>2, <1>5, <1>8, <1>9, <1>12 DEF Partition, First

LEMMA StartPartition ==
  ASSUME HeapInit
  PROVE  Partition
<1>1. heap.freep = -1 /\ heap.program_break = 1 /\ used = {}
  BY DEF HeapInit, NULL, First
<1>2. FreeList(heap) = {}
  BY <1>1 DEF FreeList, NULL
<1>3. UNION ({FreeSpan(heap, a) : a \in {}} \union {UsedSpan(b) : b \in {}}) = {}
  OBVIOUS
<1>4. 1 .. 1 - 1 = {}
  OBVIOUS
<1> QED
  BY <1>1, <1>2, <1>3, <1>4 DEF Partition, First

\* Whatever is asked of malloc and free, in any order, for any heap and on either side
\* of it base lies, as long as no demand is so near 2^32 bytes that its units or the
\* break wrap: every unit below the break is in one block, free and on the list
\* once or in use, and the header of a block in use says its size.  This is
\* Partition.
THEOREM HeapIsPartition ==
  ASSUME SmallDemands
  PROVE  HeapSpec => []Partition
<1>1. HeapIInv => Partition
  BY LimitsHold, SoundPartition, StartPartition DEF HeapIInv
<1> QED
  BY <1>1, HeapInductive, PTL

LEMMA SoundMerged ==
  ASSUME Limits, NEW F, Sound(heap, F, used)
  PROVE  Merged
<1> PICK f : f = heap.ptr
  OBVIOUS
<1>1. FreeList(heap) = F
  BY FreeListIsRing DEF Sound
<1>2. F \in SUBSET (0 .. HEAP + 1) /\ F \in SUBSET Int /\ BASE \in F /\ HEAP + 1 \in Nat /\ F # {}
      /\ InOrder(F, f)
  BY RingFacts DEF Sound, Ring
<1>3. \A a \in F \ {BASE} : a + heap.size[a] \notin F
  BY DEF Sound, Apart, Ends
<1>4. PICK x \in F : \A y \in F : y <= x
  BY <1>2, GreatestOf
<1>5. ASSUME NEW a \in F PROVE f[a] <= a <=> a = x
  <2>1. PICK m \in F : m = f[a]
    BY <1>2, NextOf
  <2>2. Behind(F, a, m) /\ m \in Int /\ a \in Int /\ x \in Int
    BY <1>2, <2>1, NextOf
  <2>3. m <= x /\ a <= x
    BY <1>4
  <2>4. m <= a => a = x
    BY <2>2, <2>3 DEF Behind
  <2>5. a = x => m <= a
    BY <2>3
  <2> QED
    BY <2>1, <2>4, <2>5
<1>6. {a \in F : f[a] <= a} = {x}
  BY <1>5
<1>7. Cardinality({a \in F : f[a] <= a}) = 1
  BY <1>6, FS_Singleton
<1> QED
  BY <1>1, <1>2, <1>3, <1>7 DEF Merged

\* The free list goes round once in order of address, through base, and no two
\* free blocks touch: free merges all it can, while no demand wraps.  This is Merged.
THEOREM HeapIsMerged ==
  ASSUME SmallDemands
  PROVE  HeapSpec => []Merged
<1>1. HeapInit => Merged
  BY DEF HeapInit, Merged, NULL
<1>2. HeapIInv => Merged
  BY <1>1, LimitsHold, SoundMerged DEF HeapIInv
<1> QED
  BY <1>2, HeapInductive, PTL

\* The blocks in use as sets of units, and that no two share one
Spans(B) == {UsedSpan(b) : b \in B}

InUse(B) ==
  /\ \A b \in B : b.header \in 1 .. HEAP /\ b.units \in Nat \ {0}
  /\ \A b, d \in B : b # d => After(b) <= d.header \/ After(d) <= b.header

LEMMA InvInUse ==
  ASSUME HeapIInv
  PROVE  InUse(used)
<1>1. CASE HeapInit
  BY <1>1 DEF InUse, HeapInit
<1>2. CASE \E F : Sound(heap, F, used)
  <2>1. PICK F : Tiles(F, heap.size, used, heap.program_break)
    BY <1>2 DEF Sound
  <2>2. /\ \A b \in used : b \in [header : 1 .. HEAP, units : Nat \ {0}]
        /\ \A b, d \in used : b # d => After(b) <= d.header \/ After(d) <= b.header
    BY <2>1 DEF Tiles
  <2> QED
    BY <2>2 DEF InUse
<1> QED
  BY <1>1, <1>2 DEF HeapIInv

LEMMA SpanIs ==
  ASSUME NEW p \in 1 .. HEAP, NEW n \in Nat \ {0}, p + n <= HEAP + 1, HEAP \in Nat
  PROVE  p .. p + n - 1 \in Alloc!Blocks(n)
<1> DEFINE s == p .. p + n - 1
<1>1. p \in Int /\ p + n - 1 \in Int /\ ~(p > p + n - 1) /\ (p + n - 1) - p + 1 = n
  OBVIOUS
<1>2. Cardinality(s) = n
  BY <1>1, FS_Interval
<1>3. Alloc!Cardinality(s) = Cardinality(s)
  BY DEF Alloc!Cardinality, Cardinality
<1>4. p \in s
  BY <1>1
<1>5. s \in SUBSET (1 .. HEAP)
  BY <1>1
<1> QED
  BY <1>2, <1>3, <1>4, <1>5 DEF Alloc!Blocks, Units, First

LEMMA MallocAllocates ==
  ASSUME Limits, SmallDemands, InUse(used), NEW d \in Demands, NEW p \in 1 .. HEAP,
         p + nunits(d) <= HEAP + 1,
         \A b \in used : After(b) <= p \/ After(Block(p, nunits(d))) <= b.header,
         used' = used \union {Block(p, nunits(d))}
  PROVE  Alloc!Next
<1> PICK n \in Nat \ {0} : n = nunits(d)
  BY UnitsAsked
<1> DEFINE s == p .. p + n - 1
<1>1. s \in Alloc!Blocks(n)
  BY SpanIs DEF Limits
<1>2. Block(p, n).header = p /\ Block(p, n).units = n
  BY DEF Block
<1>3. UsedSpan(Block(p, n)) = s
  BY <1>2 DEF UsedSpan
<1>4. ASSUME NEW b \in used PROVE s \intersect UsedSpan(b) = {}
  <2>1. b.header \in Nat /\ b.units \in Nat
    BY DEF InUse
  <2>2. b.header + b.units <= p \/ p + n <= b.header
    BY <1>2 DEF After
  <2>3. ASSUME NEW u \in s, u \in b.header .. b.header + b.units - 1 PROVE FALSE
    BY <2>1, <2>2, <2>3
  <2> QED
    BY <2>3 DEF UsedSpan
<1>5. Spans(used)' = Spans(used) \union {s}
  <2>1. Spans(used)' = {UsedSpan(b) : b \in used'}
    BY DEF Spans, UsedSpan
  <2>2. used' = used \union {Block(p, n)}
    OBVIOUS
  <2> HIDE DEF s
  <2> QED
    BY <2>1, <2>2, <1>3 DEF Spans
<1>6. \A c \in Spans(used) : s \intersect c = {}
  BY <1>4 DEF Spans
<1>7. Alloc!Malloc(n)
  <2> HIDE DEF s
  <2> QED
    BY <1>1, <1>5, <1>6 DEF Alloc!Malloc, Spans
<1>8. n \in {UnitsFor(e) : e \in Demands}
  BY UnitsAsked
<1> QED
  BY <1>7, <1>8 DEF Alloc!Next

LEMMA FreeAllocates ==
  ASSUME InUse(used), NEW b \in used, used' = used \ {b}
  PROVE  Alloc!Next
<1> PICK s : s = UsedSpan(b)
  OBVIOUS
<1>1. s \in Spans(used)
  BY DEF Spans
<1>2. ASSUME NEW d \in used, d # b PROVE UsedSpan(d) # s
  <2>1. /\ b.header \in Nat /\ b.units \in Nat \ {0}
        /\ d.header \in Nat /\ d.units \in Nat \ {0}
    BY DEF InUse
  <2>2. b.header + b.units <= d.header \/ d.header + d.units <= b.header
    BY <1>2 DEF InUse, After
  <2>3. b.header \in s
    BY <2>1 DEF UsedSpan
  <2>4. b.header \notin d.header .. d.header + d.units - 1
    BY <2>1, <2>2
  <2> QED
    BY <2>3, <2>4 DEF UsedSpan
<1>3. Spans(used)' = Spans(used) \ {s}
  <2>1. Spans(used)' = {UsedSpan(d) : d \in used'}
    BY DEF Spans, UsedSpan
  <2> QED
    BY <2>1, <1>2 DEF Spans
<1>4. Alloc!Free(s)
  BY <1>1, <1>3 DEF Alloc!Free, Spans
<1> QED
  BY <1>1, <1>4 DEF Alloc!Next, Spans

\* While no demand is so near 2^32 bytes that it wraps, a block that malloc returns is
\* as long as was asked for, shares no unit with another block in use, and is in use
\* until it is freed: Malloc implements Allocator.  This is ImplementsAllocator.
THEOREM HeapIsAllocator ==
  ASSUME SmallDemands
  PROVE  HeapSpec => ImplementsAllocator
<1>1. Limits
  BY LimitsHold
<1>2. HeapInit => Alloc!Init
  BY DEF HeapInit, Alloc!Init
<1>3. HeapIInv /\ [HeapNext]_heapVars => [Alloc!Next]_(Spans(used))
  <2> SUFFICES ASSUME HeapIInv, [HeapNext]_heapVars
               PROVE  Alloc!Next \/ UNCHANGED Spans(used)
    OBVIOUS
  <2>1. InUse(used)
    BY InvInUse
  <2>2. ASSUME used' = used PROVE UNCHANGED Spans(used)
    BY <2>2 DEF Spans, UsedSpan
  <2>3. ASSUME NEW nbytes \in Demands, malloc(nbytes)
        PROVE  Alloc!Next \/ UNCHANGED Spans(used)
    BY <1>1, <2>1, <2>2, <2>3, MallocStep, MallocAllocates
  <2>4. ASSUME NEW b \in used, free(b) PROVE Alloc!Next
    BY <1>1, <2>1, <2>4, FreeStep, FreeAllocates
  <2>5. CASE UNCHANGED heapVars
    BY <2>2, <2>5 DEF heapVars
  <2> QED
    BY <2>3, <2>4, <2>5 DEF HeapNext
<1>4. HeapInit /\ [][HeapNext]_heapVars => []HeapIInv
  BY HeapInductive DEF HeapSpec
<1> QED
  BY <1>2, <1>3, <1>4, PTL DEF HeapSpec, ImplementsAllocator, Alloc!Spec, Spans
=============================================================================
