----------------------------- MODULE ListProofs -----------------------------
(***************************************************************************)
(* What the list operations do, for any heads and nodes: which nodes are   *)
(* on which list afterwards, and that a node stays at one place; and what  *)
(* FlattenSeq returns when a sequence is added or taken off.               *)
(***************************************************************************)
EXTENDS Lists, Integers, SequenceTheorems, WellFoundedInduction, TLAPS

LEMMA RemoveAtFacts ==
  ASSUME NEW S, NEW s \in Seq(S), NEW i \in 1 .. Len(s)
  PROVE  /\ RemoveAt(s, i) \in Seq(S)
         /\ Len(RemoveAt(s, i)) = Len(s) - 1
         /\ \A j \in 1 .. Len(s) - 1 :
              RemoveAt(s, i)[j] = IF j < i THEN s[j] ELSE s[j + 1]
<1>1. Len(s) \in Nat /\ \A j \in 1 .. Len(s) : s[j] \in S
  BY LenProperties, ElementOfSeq
<1> DEFINE a == SubSeq(s, 1, i - 1)
           b == SubSeq(s, i + 1, Len(s))
<1>2. /\ a \in Seq(S) /\ Len(a) = i - 1
      /\ \A j \in 1 .. i - 1 : a[j] = s[j]
  <2>1. \A j \in 1 .. i - 1 : s[j] \in S
    BY <1>1
  <2> QED
    BY <2>1, <1>1, SubSeqProperties
<1>3. /\ b \in Seq(S) /\ Len(b) = Len(s) - i
      /\ \A j \in 1 .. Len(s) - i : b[j] = s[j + i]
  <2>1. \A j \in i + 1 .. Len(s) : s[j] \in S
    BY <1>1
  <2>2. /\ b \in Seq(S)
        /\ Len(b) = IF i + 1 <= Len(s) THEN Len(s) - (i + 1) + 1 ELSE 0
        /\ \A j \in 1 .. Len(s) - (i + 1) + 1 : b[j] = s[(i + 1) + j - 1]
    BY <2>1, <1>1, SubSeqProperties
  <2> QED
    BY <2>2, <1>1
<1>4. /\ a \o b \in Seq(S) /\ Len(a \o b) = Len(a) + Len(b)
      /\ \A j \in 1 .. Len(a) + Len(b) :
           (a \o b)[j] = IF j <= Len(a) THEN a[j] ELSE b[j - Len(a)]
  BY <1>2, <1>3, ConcatProperties
<1> HIDE DEF a, b
<1>5. \A j \in 1 .. Len(s) - 1 : (a \o b)[j] = IF j < i THEN s[j] ELSE s[j + 1]
  <2> SUFFICES ASSUME NEW j \in 1 .. Len(s) - 1
               PROVE  (a \o b)[j] = IF j < i THEN s[j] ELSE s[j + 1]
    OBVIOUS
  <2>1. (a \o b)[j] = IF j <= Len(a) THEN a[j] ELSE b[j - Len(a)]
    BY <1>1, <1>2, <1>3, <1>4
  <2>2. CASE j < i
    BY <2>1, <2>2, <1>1, <1>2
  <2>3. CASE ~(j < i)
    <3>1. j - (i - 1) \in 1 .. Len(s) - i
      BY <2>3, <1>1
    <3>2. b[j - (i - 1)] = s[j - (i - 1) + i]
      BY <3>1, <1>3
    <3> QED
      BY <3>1, <3>2, <2>1, <2>3, <1>1, <1>2
  <2> QED
    BY <2>2, <2>3
<1>6. RemoveAt(s, i) = a \o b
  BY DEF RemoveAt, a, b
<1> QED
  BY <1>1, <1>2, <1>3, <1>4, <1>5, <1>6

LEMMA RemoveFirstAbsent ==
  ASSUME NEW S, NEW s \in Seq(S), NEW n, n \notin Range(s)
  PROVE  RemoveFirst(s, n) = s
<1>1. DOMAIN s = 1 .. Len(s)
  BY LenProperties
<1> QED
  BY <1>1 DEF RemoveFirst, Range

\* A node that stands at one place of s only
LEMMA RemoveFirstPresent ==
  ASSUME NEW S, NEW s \in Seq(S), NEW i \in 1 .. Len(s),
         \A j \in 1 .. Len(s) : s[j] = s[i] => j = i
  PROVE  RemoveFirst(s, s[i]) = RemoveAt(s, i)
<1>1. {j \in 1 .. Len(s) : s[j] = s[i]} = {i}
  OBVIOUS
<1>2. SelectInSeq(s, LAMBDA v : v = s[i]) = Min({i})
  BY <1>1 DEF SelectInSeq
<1>3. Min({i}) = i
  <2>1. Len(s) \in Nat
    BY LenProperties
  <2> QED
    BY <2>1 DEF Min
<1> QED
  BY <1>2, <1>3 DEF RemoveFirst

-----------------------------------------------------------------------------
(* The heads, the nodes, and lists on which a node has one place *)

LEMMA ListRemove ==
  ASSUME NEW L, NEW N, NEW q \in [L -> Seq(N)], NEW n \in N, OnePlace(q)
  PROVE  LET r == list_remove(q, n)
         IN /\ r \in [L -> Seq(N)]
            /\ OnePlace(r)
            /\ \A l \in L : \A m : OnList(r, l, m) <=> m # n /\ OnList(q, l, m)
            /\ \A l \in L : ~OnList(q, l, n) => r[l] = q[l]
            /\ \A l \in L : \A i \in DOMAIN q[l] :
                 q[l][i] = n => /\ Len(r[l]) = Len(q[l]) - 1
                                /\ \A j \in 1 .. i - 1 : r[l][j] = q[l][j]
                                /\ \A j \in i .. Len(q[l]) - 1 : r[l][j] = q[l][j + 1]
<1> DEFINE r == list_remove(q, n)
<1>1. \A l \in L : r[l] = RemoveFirst(q[l], n)
  BY DEF list_remove
<1>2. DOMAIN r = L
  BY DEF list_remove
<1>3. \A l \in L : /\ q[l] \in Seq(N) /\ Len(q[l]) \in Nat
                   /\ DOMAIN q[l] = 1 .. Len(q[l])
  BY LenProperties
<1>4. ASSUME NEW l \in L, NEW i \in DOMAIN q[l], q[l][i] = n
      PROVE  /\ r[l] \in Seq(N)
             /\ Len(r[l]) = Len(q[l]) - 1
             /\ \A j \in 1 .. Len(q[l]) - 1 :
                  r[l][j] = IF j < i THEN q[l][j] ELSE q[l][j + 1]
  <2>1. \A j \in 1 .. Len(q[l]) : q[l][j] = q[l][i] => j = i
    BY <1>3 DEF OnePlace
  <2>2. r[l] = RemoveAt(q[l], i)
    BY <2>1, <1>1, <1>3, <1>4, RemoveFirstPresent
  <2> QED
    BY <2>2, <1>3, RemoveAtFacts
<1>5. ASSUME NEW l \in L, ~OnList(q, l, n)
      PROVE  r[l] = q[l]
  BY <1>1, <1>3, <1>5, RemoveFirstAbsent DEF OnList
<1>6. \A l \in L : r[l] \in Seq(N)
  <2> SUFFICES ASSUME NEW l \in L
               PROVE  r[l] \in Seq(N)
    OBVIOUS
  <2>1. CASE OnList(q, l, n)
    BY <2>1, <1>4 DEF OnList, Range
  <2> QED
    BY <2>1, <1>3, <1>5
<1>7. r \in [L -> Seq(N)]
  BY <1>6 DEF list_remove
\* Where the node at place j of r[l] stood in q[l]
<1>8. ASSUME NEW l \in L, NEW j \in DOMAIN r[l]
      PROVE  \E k \in DOMAIN q[l] :
               /\ r[l][j] = q[l][k] /\ q[l][k] # n
               /\ \/ ~OnList(q, l, n) /\ k = j
                  \/ \E i \in DOMAIN q[l] : /\ q[l][i] = n
                                            /\ k = IF j < i THEN j ELSE j + 1
  <2>1. CASE ~OnList(q, l, n)
    <3>1. r[l] = q[l]
      BY <2>1, <1>5
    <3>2. q[l][j] # n
      BY <2>1, <3>1 DEF OnList, Range
    <3> QED
      BY <2>1, <3>1, <3>2
  <2>2. CASE OnList(q, l, n)
    <3>1. PICK i \in DOMAIN q[l] : q[l][i] = n
      BY <2>2 DEF OnList, Range
    <3>2. /\ Len(r[l]) = Len(q[l]) - 1 /\ r[l] \in Seq(N)
          /\ \A k \in 1 .. Len(q[l]) - 1 :
               r[l][k] = IF k < i THEN q[l][k] ELSE q[l][k + 1]
      BY <3>1, <1>4
    <3>3. j \in 1 .. Len(q[l]) - 1
      BY <3>2, LenProperties
    <3> DEFINE k == IF j < i THEN j ELSE j + 1
    <3>4. k \in DOMAIN q[l] /\ k # i
      BY <3>1, <3>3, <1>3
    <3>5. r[l][j] = q[l][k]
      BY <3>2, <3>3
    <3>6. q[l][k] # n
      BY <3>1, <3>4 DEF OnePlace
    <3> QED
      BY <3>1, <3>4, <3>5, <3>6
  <2> QED
    BY <2>1, <2>2
<1>9. ASSUME NEW l \in L, NEW k \in DOMAIN q[l], q[l][k] # n
      PROVE  \E j \in DOMAIN r[l] : r[l][j] = q[l][k]
  <2>1. CASE ~OnList(q, l, n)
    BY <2>1, <1>5
  <2>2. CASE OnList(q, l, n)
    <3>1. PICK i \in DOMAIN q[l] : q[l][i] = n
      BY <2>2 DEF OnList, Range
    <3>2. /\ Len(r[l]) = Len(q[l]) - 1 /\ r[l] \in Seq(N)
          /\ \A j \in 1 .. Len(q[l]) - 1 :
               r[l][j] = IF j < i THEN q[l][j] ELSE q[l][j + 1]
      BY <3>1, <1>4
    <3>3. DOMAIN r[l] = 1 .. Len(q[l]) - 1
      BY <3>2, LenProperties
    <3>4. k # i /\ k \in 1 .. Len(q[l]) /\ i \in 1 .. Len(q[l]) /\ Len(q[l]) \in Nat
      BY <3>1, <1>3, <1>9
    <3>5. CASE k < i
      BY <3>2, <3>3, <3>4, <3>5
    <3>6. CASE k > i
      <4>1. k - 1 \in 1 .. Len(q[l]) - 1 /\ ~(k - 1 < i)
        BY <3>4, <3>6
      <4>2. r[l][k - 1] = q[l][(k - 1) + 1]
        BY <4>1, <3>2
      <4> QED
        BY <4>1, <4>2, <3>3, <3>4
    <3> QED
      BY <3>4, <3>5, <3>6
  <2> QED
    BY <2>1, <2>2
<1>10. \A l \in L : \A m : OnList(r, l, m) <=> m # n /\ OnList(q, l, m)
  <2> SUFFICES ASSUME NEW l \in L, NEW m
               PROVE  OnList(r, l, m) <=> m # n /\ OnList(q, l, m)
    OBVIOUS
  <2>1. ASSUME OnList(r, l, m)
        PROVE  m # n /\ OnList(q, l, m)
    <3>1. PICK j \in DOMAIN r[l] : r[l][j] = m
      BY <2>1 DEF OnList, Range
    <3> QED
      BY <3>1, <1>8 DEF OnList, Range
  <2>2. ASSUME m # n, OnList(q, l, m)
        PROVE  OnList(r, l, m)
    <3>1. PICK k \in DOMAIN q[l] : q[l][k] = m
      BY <2>2 DEF OnList, Range
    <3> QED
      BY <3>1, <2>2, <1>9 DEF OnList, Range
  <2> QED
    BY <2>1, <2>2
<1>11. OnePlace(r)
  <2> SUFFICES ASSUME NEW l \in L, NEW k \in L, NEW i \in DOMAIN r[l],
                      NEW j \in DOMAIN r[k], r[l][i] = r[k][j]
               PROVE  l = k /\ i = j
    BY <1>2 DEF OnePlace
  <2>1. PICK x \in DOMAIN q[l] :
          /\ r[l][i] = q[l][x] /\ q[l][x] # n
          /\ \/ ~OnList(q, l, n) /\ x = i
             \/ \E p \in DOMAIN q[l] : /\ q[l][p] = n
                                       /\ x = IF i < p THEN i ELSE i + 1
    BY <1>8
  <2>2. PICK y \in DOMAIN q[k] :
          /\ r[k][j] = q[k][y] /\ q[k][y] # n
          /\ \/ ~OnList(q, k, n) /\ y = j
             \/ \E p \in DOMAIN q[k] : /\ q[k][p] = n
                                       /\ y = IF j < p THEN j ELSE j + 1
    BY <1>8
  <2>3. l = k /\ x = y
    <3>1. q[l][x] = q[k][y] /\ DOMAIN q = L
      BY <2>1, <2>2
    <3> QED
      BY <3>1 DEF OnePlace
  <2>4. i \in Int /\ j \in Int
    BY <1>6, LenProperties
  <2>5. CASE ~OnList(q, l, n)
    BY <2>1, <2>2, <2>3, <2>5 DEF OnList, Range
  <2>6. CASE OnList(q, l, n)
    <3>1. PICK p \in DOMAIN q[l] : q[l][p] = n /\ x = IF i < p THEN i ELSE i + 1
      BY <2>1, <2>6
    <3>2. PICK s \in DOMAIN q[l] : q[l][s] = n /\ x = IF j < s THEN j ELSE j + 1
      BY <2>2, <2>3, <2>6
    <3>3. p = s /\ p \in Int /\ x # p
      BY <3>1, <3>2, <2>1, <1>3 DEF OnePlace
    <3> QED
      BY <3>1, <3>2, <3>3, <2>3, <2>4
  <2> QED
    BY <2>5, <2>6
<1>12. \A l \in L : \A i \in DOMAIN q[l] :
         q[l][i] = n => /\ Len(r[l]) = Len(q[l]) - 1
                        /\ \A j \in 1 .. i - 1 : r[l][j] = q[l][j]
                        /\ \A j \in i .. Len(q[l]) - 1 : r[l][j] = q[l][j + 1]
  <2> SUFFICES ASSUME NEW l \in L, NEW i \in DOMAIN q[l], q[l][i] = n
               PROVE  /\ Len(r[l]) = Len(q[l]) - 1
                      /\ \A j \in 1 .. i - 1 : r[l][j] = q[l][j]
                      /\ \A j \in i .. Len(q[l]) - 1 : r[l][j] = q[l][j + 1]
    OBVIOUS
  <2>1. i \in 1 .. Len(q[l]) /\ Len(q[l]) \in Nat
    BY <1>3
  <2>2. /\ Len(r[l]) = Len(q[l]) - 1
        /\ \A j \in 1 .. Len(q[l]) - 1 :
             r[l][j] = IF j < i THEN q[l][j] ELSE q[l][j + 1]
    BY <1>4
  <2>3. \A j \in 1 .. i - 1 : r[l][j] = q[l][j]
    <3> HIDE DEF r
    <3> QED
      BY <2>1, <2>2
  <2>4. \A j \in i .. Len(q[l]) - 1 : r[l][j] = q[l][j + 1]
    <3> HIDE DEF r
    <3> QED
      BY <2>1, <2>2
  <2> QED
    BY <2>2, <2>3, <2>4
<1> QED
  BY <1>5, <1>7, <1>10, <1>11, <1>12

LEMMA ListPush ==
  ASSUME NEW L, NEW N, NEW q \in [L -> Seq(N)], NEW n \in N, NEW l \in L, OnePlace(q)
  PROVE  LET r == list_push(q, l, n)
         IN /\ r \in [L -> Seq(N)]
            /\ OnePlace(r)
            /\ \A k \in L : \A m :
                 OnList(r, k, m) <=> IF m = n THEN k = l ELSE OnList(q, k, m)
            /\ \A k \in L \ {l} : ~OnList(q, k, n) => r[k] = q[k]
<1> DEFINE s == list_remove(q, n)
           r == list_push(q, l, n)
<1>1. /\ s \in [L -> Seq(N)]
      /\ OnePlace(s)
      /\ \A k \in L : \A m : OnList(s, k, m) <=> m # n /\ OnList(q, k, m)
      /\ \A k \in L : ~OnList(q, k, n) => s[k] = q[k]
      /\ \A k \in L : \A i \in DOMAIN q[k] :
           q[k][i] = n => /\ Len(s[k]) = Len(q[k]) - 1
                          /\ \A j \in 1 .. i - 1 : s[k][j] = q[k][j]
  BY ListRemove
<1>2. r = [s EXCEPT ![l] = Append(@, n)]
  BY DEF list_push
<1> HIDE DEF s, r
<1>3. \A k \in L \ {l} : r[k] = s[k]
  BY <1>1, <1>2
<1>4. r[l] = Append(s[l], n)
  BY <1>1, <1>2
<1>5. /\ Append(s[l], n) \in Seq(N)
      /\ Len(Append(s[l], n)) = Len(s[l]) + 1
      /\ \A i \in 1 .. Len(s[l]) : Append(s[l], n)[i] = s[l][i]
      /\ Append(s[l], n)[Len(s[l]) + 1] = n
  BY <1>1, AppendProperties
<1>6. r \in [L -> Seq(N)]
  BY <1>1, <1>2, <1>5
<1>7. /\ Len(s[l]) \in Nat /\ DOMAIN s[l] = 1 .. Len(s[l])
      /\ DOMAIN r[l] = 1 .. Len(s[l]) + 1
  BY <1>1, <1>4, <1>5, LenProperties
<1>8. \A k \in L : ~OnList(s, k, n)
  BY <1>1
<1>9. \A k \in L : \A m : OnList(r, k, m) <=> IF m = n THEN k = l ELSE OnList(q, k, m)
  <2> SUFFICES ASSUME NEW k \in L, NEW m
               PROVE  OnList(r, k, m) <=> IF m = n THEN k = l ELSE OnList(q, k, m)
    OBVIOUS
  <2>1. CASE k # l
    BY <2>1, <1>1, <1>3 DEF OnList
  <2>2. CASE k = l
    <3>1. OnList(r, l, n)
      BY <1>4, <1>5, <1>7 DEF OnList, Range
    <3>2. ASSUME m # n, OnList(r, l, m)
          PROVE  OnList(s, l, m)
      <4>1. PICK i \in DOMAIN r[l] : r[l][i] = m
        BY <3>2 DEF OnList, Range
      <4>2. i \in 1 .. Len(s[l])
        BY <4>1, <3>2, <1>4, <1>5, <1>7
      <4> QED
        BY <4>1, <4>2, <1>4, <1>5, <1>7 DEF OnList, Range
    <3>3. ASSUME OnList(s, l, m)
          PROVE  OnList(r, l, m)
      <4>1. PICK i \in DOMAIN s[l] : s[l][i] = m
        BY <3>3 DEF OnList, Range
      <4>2. i \in DOMAIN r[l] /\ r[l][i] = m
        BY <4>1, <1>4, <1>5, <1>7
      <4> QED
        BY <4>2 DEF OnList, Range
    <3> QED
      BY <2>2, <3>1, <3>2, <3>3, <1>1
  <2> QED
    BY <2>1, <2>2
<1>10. OnePlace(r)
  <2> SUFFICES ASSUME NEW k \in L, NEW h \in L, NEW i \in DOMAIN r[k],
                      NEW j \in DOMAIN r[h], r[k][i] = r[h][j]
               PROVE  k = h /\ i = j
    BY <1>6 DEF OnePlace
  <2>1. \A g \in L : \A x \in DOMAIN r[g] :
          \/ x \in DOMAIN s[g] /\ r[g][x] = s[g][x] /\ r[g][x] # n
          \/ g = l /\ x = Len(s[l]) + 1 /\ r[g][x] = n
    <3> SUFFICES ASSUME NEW g \in L, NEW x \in DOMAIN r[g]
                 PROVE  \/ x \in DOMAIN s[g] /\ r[g][x] = s[g][x] /\ r[g][x] # n
                        \/ g = l /\ x = Len(s[l]) + 1 /\ r[g][x] = n
      OBVIOUS
    <3>1. CASE g # l
      BY <3>1, <1>3, <1>8 DEF OnList, Range
    <3>2. CASE g = l /\ x # Len(s[l]) + 1
      <4>1. x \in DOMAIN s[l] /\ r[l][x] = s[l][x]
        BY <3>2, <1>4, <1>5, <1>7
      <4> QED
        BY <4>1, <3>2, <1>8 DEF OnList, Range
    <3>3. CASE g = l /\ x = Len(s[l]) + 1
      BY <3>3, <1>4, <1>5
    <3> QED
      BY <3>1, <3>2, <3>3
  <2>2. CASE r[k][i] = n
    BY <2>1, <2>2
  <2>3. CASE r[k][i] # n
    <3>1. i \in DOMAIN s[k] /\ j \in DOMAIN s[h] /\ s[k][i] = s[h][j] /\ DOMAIN s = L
      BY <2>1, <2>3, <1>1
    <3> QED
      BY <3>1, <1>1 DEF OnePlace
  <2> QED
    BY <2>2, <2>3
<1>11. \A k \in L \ {l} : ~OnList(q, k, n) => r[k] = q[k]
  BY <1>1, <1>3
<1> QED
  BY <1>6, <1>9, <1>10, <1>11 DEF r

LEMMA ListUnshift ==
  ASSUME NEW L, NEW N, NEW q \in [L -> Seq(N)], NEW n \in N, NEW l \in L, OnePlace(q)
  PROVE  LET r == list_unshift(q, l, n)
         IN /\ r \in [L -> Seq(N)]
            /\ OnePlace(r)
            /\ \A k \in L : \A m :
                 OnList(r, k, m) <=> IF m = n THEN k = l ELSE OnList(q, k, m)
            /\ \A k \in L \ {l} : ~OnList(q, k, n) => r[k] = q[k]
<1> DEFINE s == list_remove(q, n)
           r == list_unshift(q, l, n)
<1>1. /\ s \in [L -> Seq(N)]
      /\ OnePlace(s)
      /\ \A k \in L : \A m : OnList(s, k, m) <=> m # n /\ OnList(q, k, m)
      /\ \A k \in L : ~OnList(q, k, n) => s[k] = q[k]
  BY ListRemove
<1>2. r = [s EXCEPT ![l] = <<n>> \o @]
  BY DEF list_unshift
<1> HIDE DEF s, r
<1>3. \A k \in L \ {l} : r[k] = s[k]
  BY <1>1, <1>2
<1>4. r[l] = <<n>> \o s[l]
  BY <1>1, <1>2
<1>5. /\ <<n>> \o s[l] \in Seq(N)
      /\ Len(<<n>> \o s[l]) = Len(s[l]) + 1
      /\ (<<n>> \o s[l])[1] = n
      /\ \A i \in 2 .. Len(s[l]) + 1 : (<<n>> \o s[l])[i] = s[l][i - 1]
  <2>1. <<n>> \in Seq(N) /\ Len(<<n>>) = 1 /\ <<n>>[1] = n
    OBVIOUS
  <2>2. s[l] \in Seq(N) /\ Len(s[l]) \in Nat
    BY <1>1, LenProperties
  <2>3. /\ <<n>> \o s[l] \in Seq(N)
        /\ Len(<<n>> \o s[l]) = Len(<<n>>) + Len(s[l])
        /\ \A i \in 1 .. Len(<<n>>) + Len(s[l]) :
             (<<n>> \o s[l])[i] = IF i <= Len(<<n>>) THEN <<n>>[i]
                                  ELSE s[l][i - Len(<<n>>)]
    BY <2>1, <2>2, ConcatProperties
  <2> QED
    BY <2>1, <2>2, <2>3
<1>6. r \in [L -> Seq(N)]
  BY <1>1, <1>2, <1>5
<1>7. /\ Len(s[l]) \in Nat /\ DOMAIN s[l] = 1 .. Len(s[l])
      /\ DOMAIN r[l] = 1 .. Len(s[l]) + 1
  BY <1>1, <1>4, <1>5, LenProperties
<1>8. \A k \in L : ~OnList(s, k, n)
  BY <1>1
<1>9. \A k \in L : \A m : OnList(r, k, m) <=> IF m = n THEN k = l ELSE OnList(q, k, m)
  <2> SUFFICES ASSUME NEW k \in L, NEW m
               PROVE  OnList(r, k, m) <=> IF m = n THEN k = l ELSE OnList(q, k, m)
    OBVIOUS
  <2>1. CASE k # l
    BY <2>1, <1>1, <1>3 DEF OnList
  <2>2. CASE k = l
    <3>1. OnList(r, l, n)
      <4>1. 1 \in DOMAIN r[l] /\ r[l][1] = n
        BY <1>4, <1>5, <1>7
      <4> QED
        BY <4>1 DEF OnList, Range
    <3>2. ASSUME m # n, OnList(r, l, m)
          PROVE  OnList(s, l, m)
      <4>1. PICK i \in DOMAIN r[l] : r[l][i] = m
        BY <3>2 DEF OnList, Range
      <4>2. i \in 2 .. Len(s[l]) + 1
        BY <4>1, <3>2, <1>4, <1>5, <1>7
      <4>3. i - 1 \in DOMAIN s[l] /\ s[l][i - 1] = m
        BY <4>1, <4>2, <1>4, <1>5, <1>7
      <4> QED
        BY <4>3 DEF OnList, Range
    <3>3. ASSUME OnList(s, l, m)
          PROVE  OnList(r, l, m)
      <4>1. PICK i \in DOMAIN s[l] : s[l][i] = m
        BY <3>3 DEF OnList, Range
      <4>2. i + 1 \in 2 .. Len(s[l]) + 1 /\ (i + 1) - 1 = i
        BY <4>1, <1>7
      <4>3. i + 1 \in DOMAIN r[l] /\ r[l][i + 1] = m
        BY <4>1, <4>2, <1>4, <1>5, <1>7
      <4> QED
        BY <4>3 DEF OnList, Range
    <3> QED
      BY <2>2, <3>1, <3>2, <3>3, <1>1
  <2> QED
    BY <2>1, <2>2
<1>10. OnePlace(r)
  <2> SUFFICES ASSUME NEW k \in L, NEW h \in L, NEW i \in DOMAIN r[k],
                      NEW j \in DOMAIN r[h], r[k][i] = r[h][j]
               PROVE  k = h /\ i = j
    BY <1>6 DEF OnePlace
  <2>1. \A g \in L : \A x \in DOMAIN r[g] :
          \/ g # l /\ x \in DOMAIN s[g] /\ r[g][x] = s[g][x] /\ r[g][x] # n
          \/ g = l /\ x = 1 /\ r[g][x] = n
          \/ /\ g = l /\ x \in Int /\ x - 1 \in DOMAIN s[l]
             /\ r[g][x] = s[l][x - 1] /\ r[g][x] # n
    <3> SUFFICES ASSUME NEW g \in L, NEW x \in DOMAIN r[g]
                 PROVE  \/ g # l /\ x \in DOMAIN s[g] /\ r[g][x] = s[g][x] /\ r[g][x] # n
                        \/ g = l /\ x = 1 /\ r[g][x] = n
                        \/ /\ g = l /\ x \in Int /\ x - 1 \in DOMAIN s[l]
                           /\ r[g][x] = s[l][x - 1] /\ r[g][x] # n
      OBVIOUS
    <3>1. CASE g # l
      BY <3>1, <1>3, <1>8 DEF OnList, Range
    <3>2. CASE g = l /\ x # 1
      <4>1. x \in Int /\ x - 1 \in DOMAIN s[l] /\ r[l][x] = s[l][x - 1]
        BY <3>2, <1>4, <1>5, <1>7
      <4>2. s[l][x - 1] # n
        BY <4>1, <1>8 DEF OnList, Range
      <4> QED
        BY <4>1, <4>2, <3>2
    <3>3. CASE g = l /\ x = 1
      BY <3>3, <1>4, <1>5
    <3> QED
      BY <3>1, <3>2, <3>3
  <2>2. CASE r[k][i] = n
    <3>1. k = l /\ i = 1
      BY <2>1, <2>2
    <3>2. h = l /\ j = 1
      BY <2>1, <2>2
    <3> QED
      BY <3>1, <3>2
  <2>3. CASE r[k][i] # n
    <3>1. DOMAIN s = L
      BY <1>1
    <3>2. CASE k # l /\ h # l
      BY <3>1, <3>2, <2>1, <2>3, <1>1 DEF OnePlace
    <3>3. CASE k = l /\ h # l
      <4>1. i - 1 \in DOMAIN s[l] /\ j \in DOMAIN s[h] /\ s[l][i - 1] = s[h][j]
        BY <3>3, <2>1, <2>3
      <4> QED
        BY <4>1, <3>1, <3>3, <1>1 DEF OnePlace
    <3>4. CASE k # l /\ h = l
      <4>1. i \in DOMAIN s[k] /\ j - 1 \in DOMAIN s[l] /\ s[k][i] = s[l][j - 1]
        BY <3>4, <2>1, <2>3
      <4> QED
        BY <4>1, <3>1, <3>4, <1>1 DEF OnePlace
    <3>5. CASE k = l /\ h = l
      <4>1. /\ i \in Int /\ j \in Int
            /\ i - 1 \in DOMAIN s[l] /\ j - 1 \in DOMAIN s[l]
            /\ s[l][i - 1] = s[l][j - 1]
        BY <3>5, <2>1, <2>3
      <4>2. i - 1 = j - 1
        BY <4>1, <3>1, <1>1 DEF OnePlace
      <4> QED
        BY <4>1, <4>2, <3>5
    <3> QED
      BY <3>2, <3>3, <3>4, <3>5
  <2> QED
    BY <2>2, <2>3
<1>11. \A k \in L \ {l} : ~OnList(q, k, n) => r[k] = q[k]
  BY <1>1, <1>3
<1> QED
  BY <1>6, <1>9, <1>10, <1>11 DEF r

\* A push leaves the places before the one its node had where they were.
LEMMA ListPushFront ==
  ASSUME NEW L, NEW N, NEW q \in [L -> Seq(N)], NEW n \in N, NEW l \in L, OnePlace(q)
  PROVE  LET r == list_push(q, l, n)
         IN \A k \in L \ {l} : \A i \in DOMAIN q[k] :
              q[k][i] = n => \A j \in 1 .. i - 1 : r[k][j] = q[k][j]
<1> DEFINE s == list_remove(q, n)
           r == list_push(q, l, n)
<1>1. /\ s \in [L -> Seq(N)]
      /\ OnePlace(s)
      /\ \A k \in L : \A i \in DOMAIN q[k] :
           q[k][i] = n => /\ Len(s[k]) = Len(q[k]) - 1
                          /\ \A j \in 1 .. i - 1 : s[k][j] = q[k][j]
  BY ListRemove
<1>2. r = [s EXCEPT ![l] = Append(@, n)]
  BY DEF list_push
<1> HIDE DEF s, r
<1>3. \A k \in L \ {l} : r[k] = s[k]
  BY <1>1, <1>2
<1>4. \A k \in L \ {l} : \A i \in DOMAIN q[k] :
        q[k][i] = n => \A j \in 1 .. i - 1 : r[k][j] = q[k][j]
  BY <1>1, <1>3
<1> QED
  BY <1>4 DEF r

-----------------------------------------------------------------------------
\* A set of numbers that holds 0 and the successor of each of its numbers: what
\* a proof about a recursive function uses in place of an induction theorem.
LEMMA NatBySets ==
  ASSUME NEW S \in SUBSET Nat, 0 \in S, \A n \in S : n + 1 \in S
  PROVE  S = Nat
<1> DEFINE T == Nat \ S
<1>1. SUFFICES ASSUME T # {} PROVE FALSE
  OBVIOUS
<1>2. \E x \in T : \A y \in T : ~ (<<y, x>> \in OpToRel(<, Nat))
  BY <1>1, NatLessThanWellFounded, WFMin
<1>3. PICK x \in T : \A y \in T : ~ (y < x)
  BY <1>2 DEF OpToRel
<1>4. x # 0 /\ x - 1 \in Nat
  OBVIOUS
<1>5. x - 1 \in S
  BY <1>3, <1>4
<1>6. x \in S
  BY <1>5
<1> QED
  BY <1>6


\* What the recursive function inside FlattenSeq computes
LEMMA FlattenFunction ==
  ASSUME NEW seqs, NEW m \in Nat
  PROVE  \E f : f = [i \in 1 .. m |-> IF i = 1 THEN seqs[i] ELSE f[i - 1] \o seqs[i]]
<1> DEFINE Def(f, n) == f = [i \in 1 .. n |-> IF i = 1 THEN seqs[i] ELSE f[i - 1] \o seqs[i]]
           S == {n \in Nat : \E f : Def(f, n)}
<1>1. 0 \in S
  <2>1. Def([i \in {} |-> 0], 0)
    OBVIOUS
  <2> QED BY <2>1
<1>2. ASSUME NEW n \in S PROVE n + 1 \in S
  <2>1. PICK f : Def(f, n)
    OBVIOUS
  <2> DEFINE g == [i \in 1 .. n + 1 |-> IF i \in 1 .. n THEN f[i] ELSE
                     IF i = 1 THEN seqs[i] ELSE f[i - 1] \o seqs[i]]
  <2>2. ASSUME NEW i \in 1 .. n + 1
        PROVE  g[i] = IF i = 1 THEN seqs[i] ELSE g[i - 1] \o seqs[i]
    <3>1. CASE i = n + 1
      BY <3>1
    <3>2. CASE i \in 1 .. n
      <4>1. f[i] = IF i = 1 THEN seqs[i] ELSE f[i - 1] \o seqs[i]
        BY <3>2, <2>1
      <4>2. i # 1 => i - 1 \in 1 .. n
        BY <3>2
      <4> QED
        BY <4>1, <4>2, <3>2
    <3> QED BY <3>1, <3>2
  <2>3. Def(g, n + 1)
    <3> HIDE DEF g
    <3>1. g = [i \in 1 .. n + 1 |-> g[i]]
      BY DEF g
    <3> QED BY <2>2, <3>1
  <2> HIDE DEF Def
  <2> QED BY <2>3
<1>3. S = Nat
  <2> HIDE DEF Def
  <2> QED BY <1>1, <1>2, NatBySets
<1> QED
  BY <1>3

LEMMA FlattenLoop ==
  ASSUME NEW seqs, NEW m \in Nat \ {0}, m = Len(seqs)
  PROVE  \E g : /\ FlattenSeq(seqs) = g[m]
                /\ g[1] = seqs[1]
                /\ \A i \in 1 .. m - 1 : g[i + 1] = g[i] \o seqs[i + 1]
<1> DEFINE g == CHOOSE f : f = [i \in 1 .. m |-> IF i = 1 THEN seqs[i] ELSE f[i - 1] \o seqs[i]]
<1>1. FlattenSeq(seqs) = g[m]
  BY DEF FlattenSeq
<1>2. g = [i \in 1 .. m |-> IF i = 1 THEN seqs[i] ELSE g[i - 1] \o seqs[i]]
  BY FlattenFunction
<1> HIDE DEF g
<1>3. g[1] = seqs[1]
  BY <1>2
<1>4. ASSUME NEW i \in 1 .. m - 1 PROVE g[i + 1] = g[i] \o seqs[i + 1]
  <2>1. i + 1 \in 1 .. m /\ i + 1 # 1 /\ (i + 1) - 1 = i
    OBVIOUS
  <2> QED
    BY <1>2, <2>1
<1> QED
  BY <1>1, <1>3, <1>4

\* The concatenation of the first i of the sequences, for each i
Concatenated(f, seqs) ==
  /\ f[0] = <<>>
  /\ \A i \in 0 .. Len(seqs) - 1 : f[i + 1] = f[i] \o seqs[i + 1]

LEMMA ConcatenatedType ==
  ASSUME NEW S, NEW seqs \in Seq(Seq(S)), NEW f, Concatenated(f, seqs)
  PROVE  \A i \in 0 .. Len(seqs) : f[i] \in Seq(S)
<1>1. Len(seqs) \in Nat /\ \A i \in 1 .. Len(seqs) : seqs[i] \in Seq(S)
  BY LenProperties, ElementOfSeq
<1> DEFINE T == {i \in Nat : i <= Len(seqs) => f[i] \in Seq(S)}
<1>2. 0 \in T
  BY EmptySeq DEF Concatenated
<1>3. ASSUME NEW i \in T PROVE i + 1 \in T
  <2>1. CASE i + 1 <= Len(seqs)
    <3>1. f[i] \in Seq(S) /\ seqs[i + 1] \in Seq(S)
      BY <2>1, <1>1
    <3>2. i \in 0 .. Len(seqs) - 1
      BY <2>1, <1>1
    <3>3. f[i + 1] = f[i] \o seqs[i + 1]
      BY <3>2 DEF Concatenated
    <3>4. f[i] \o seqs[i + 1] \in Seq(S)
      BY <3>1, ConcatProperties
    <3>5. f[i + 1] \in Seq(S)
      BY <3>3, <3>4
    <3> HIDE DEF Concatenated
    <3> QED
      BY <3>5
  <2> QED
    BY <2>1
<1>4. T = Nat
  <2>1. T \in SUBSET Nat
    OBVIOUS
  <2> HIDE DEF T
  <2> QED BY <1>2, <1>3, <2>1, NatBySets
<1> QED
  BY <1>4, <1>1

LEMMA FlattenUnique ==
  ASSUME NEW S, NEW seqs \in Seq(Seq(S)), NEW f, Concatenated(f, seqs)
  PROVE  FlattenSeq(seqs) = f[Len(seqs)]
<1>1. Len(seqs) \in Nat /\ \A i \in 1 .. Len(seqs) : seqs[i] \in Seq(S)
  BY LenProperties, ElementOfSeq
<1>2. CASE Len(seqs) = 0
  <2>1. seqs = <<>>
    BY <1>2, EmptySeq
  <2> QED
    BY <1>2, <2>1 DEF FlattenSeq, Concatenated
<1>3. CASE Len(seqs) # 0
  <2>1. PICK m \in Nat \ {0} : m = Len(seqs)
    BY <1>1, <1>3
  <2>2. PICK g : /\ FlattenSeq(seqs) = g[m]
                 /\ g[1] = seqs[1]
                 /\ \A i \in 1 .. m - 1 : g[i + 1] = g[i] \o seqs[i + 1]
    BY <2>1, FlattenLoop
  <2> DEFINE T == {i \in Nat : i + 1 <= m => g[i + 1] = f[i + 1]}
  <2>3. 0 \in T
    <3>1. f[0 + 1] = f[0] \o seqs[0 + 1]
      <4>1. 0 \in 0 .. Len(seqs) - 1
        BY <2>1
      <4> QED
        BY <4>1 DEF Concatenated
    <3>2. seqs[1] \in Seq(S)
      BY <1>1, <2>1
    <3>3. <<>> \o seqs[1] = seqs[1]
      BY <3>2, ConcatEmptySeq
    <3>4. 0 + 1 = 1
      OBVIOUS
    <3>5. g[0 + 1] = f[0 + 1]
      BY <2>2, <3>1, <3>3, <3>4 DEF Concatenated
    <3> QED
      BY <3>5
  <2>4. ASSUME NEW i \in T PROVE i + 1 \in T
    <3>1. CASE i + 2 <= m
      <4>0. PICK j \in 1 .. m - 1 : j = i + 1
        BY <3>1, <2>1
      <4>1. g[j + 1] = g[j] \o seqs[j + 1]
        BY <2>2
      <4>2. f[j + 1] = f[j] \o seqs[j + 1]
        <5>1. j \in 0 .. Len(seqs) - 1
          BY <2>1
        <5> QED BY <5>1 DEF Concatenated
      <4>3. g[j] = f[j]
        BY <4>0
      <4>4. g[(i + 1) + 1] = f[(i + 1) + 1]
        BY <4>0, <4>1, <4>2, <4>3
      <4> QED
        BY <4>4
    <3>2. CASE ~ (i + 2 <= m)
      BY <3>2
    <3> QED
      BY <3>1, <3>2
  <2>5. T = Nat
    <3>1. T \in SUBSET Nat
      OBVIOUS
    <3> HIDE DEF T
    <3> QED BY <2>3, <2>4, <3>1, NatBySets
  <2>6. PICK k \in Nat : m = k + 1
    <3>1. m - 1 \in Nat /\ m = (m - 1) + 1
      OBVIOUS
    <3> QED BY <3>1
  <2>7. g[k + 1] = f[k + 1]
    <3>1. k \in T
      BY <2>5
    <3> QED BY <3>1, <2>6
  <2> QED
    BY <2>1, <2>2, <2>6, <2>7
<1> QED
  BY <1>2, <1>3

LEMMA FlattenExists ==
  ASSUME NEW S, NEW seqs \in Seq(Seq(S))
  PROVE  \E f : Concatenated(f, seqs)
<1>1. Len(seqs) \in Nat /\ \A i \in 1 .. Len(seqs) : seqs[i] \in Seq(S)
  BY LenProperties, ElementOfSeq
<1>2. CASE Len(seqs) = 0
  <2>1. Concatenated([i \in {0} |-> <<>>], seqs)
    BY <1>2 DEF Concatenated
  <2> QED BY <2>1
<1>3. CASE Len(seqs) # 0
  <2>1. PICK m \in Nat \ {0} : m = Len(seqs)
    BY <1>1, <1>3
  <2>2. PICK g : /\ FlattenSeq(seqs) = g[m]
                 /\ g[1] = seqs[1]
                 /\ \A i \in 1 .. m - 1 : g[i + 1] = g[i] \o seqs[i + 1]
    BY <2>1, FlattenLoop
  <2> DEFINE f == [i \in 0 .. m |-> IF i = 0 THEN <<>> ELSE g[i]]
  <2>3. ASSUME NEW i \in 0 .. m - 1 PROVE f[i + 1] = f[i] \o seqs[i + 1]
    <3>1. CASE i = 0
      <4>1. <<>> \o seqs[1] = seqs[1]
        <5>1. seqs[1] \in Seq(S)
          BY <1>1, <2>1
        <5> QED BY <5>1, ConcatEmptySeq
      <4>2. f[1] = g[1] /\ f[0] = <<>>
        OBVIOUS
      <4>3. f[1] = f[0] \o seqs[1]
        BY <4>1, <4>2, <2>2
      <4>4. i + 1 = 1
        BY <3>1
      <4> HIDE DEF f
      <4> QED BY <3>1, <4>3, <4>4
    <3>2. CASE i # 0
      <4>1. g[i + 1] = g[i] \o seqs[i + 1]
        <5>1. i \in 1 .. m - 1
          BY <3>2
        <5> QED BY <5>1, <2>2
      <4>2. f[i] = g[i] /\ f[i + 1] = g[i + 1]
        BY <3>2
      <4> HIDE DEF f
      <4> QED BY <4>1, <4>2
    <3> QED BY <3>1, <3>2
  <2>4. f[0] = <<>>
    OBVIOUS
  <2> HIDE DEF f
  <2>5. Concatenated(f, seqs)
    BY <2>1, <2>3, <2>4 DEF Concatenated
  <2> QED BY <2>5
<1> QED
  BY <1>2, <1>3

LEMMA FlattenType ==
  ASSUME NEW S, NEW seqs \in Seq(Seq(S))
  PROVE  FlattenSeq(seqs) \in Seq(S)
<1>1. PICK f : Concatenated(f, seqs)
  BY FlattenExists
<1>2. Len(seqs) \in Nat
  BY LenProperties
<1>3. f[Len(seqs)] \in Seq(S)
  BY <1>1, <1>2, ConcatenatedType
<1> QED
  BY <1>1, <1>3, FlattenUnique

LEMMA FlattenAppend ==
  ASSUME NEW S, NEW seqs \in Seq(Seq(S)), NEW s \in Seq(S)
  PROVE  FlattenSeq(Append(seqs, s)) = FlattenSeq(seqs) \o s
<1>1. PICK m \in Nat : m = Len(seqs)
  BY LenProperties
<1>2. PICK f : Concatenated(f, seqs)
  BY FlattenExists
<1>3. FlattenSeq(seqs) = f[m]
  BY <1>1, <1>2, FlattenUnique
<1> DEFINE more == Append(seqs, s)
<1>4. /\ more \in Seq(Seq(S)) /\ Len(more) = m + 1
      /\ \A i \in 1 .. m : more[i] = seqs[i]
      /\ more[m + 1] = s
  BY <1>1, AppendProperties
<1> DEFINE g == [i \in 0 .. m + 1 |-> IF i = m + 1 THEN f[m] \o s ELSE f[i]]
<1> HIDE DEF more
<1>5. Concatenated(g, more)
  <2>1. g[0] = <<>>
    BY <1>2 DEF Concatenated
  <2>2. ASSUME NEW i \in 0 .. m PROVE g[i + 1] = g[i] \o more[i + 1]
    <3>1. CASE i = m
      <4>1. g[m + 1] = f[m] \o s /\ g[m] = f[m]
        OBVIOUS
      <4> HIDE DEF g
      <4> QED BY <3>1, <4>1, <1>4
    <3>2. CASE i # m
      <4>1. f[i + 1] = f[i] \o seqs[i + 1]
        <5>1. i \in 0 .. Len(seqs) - 1
          BY <3>2, <1>1
        <5> QED BY <5>1, <1>2 DEF Concatenated
      <4>2. more[i + 1] = seqs[i + 1]
        BY <3>2, <1>4
      <4>3. g[i + 1] = f[i + 1] /\ g[i] = f[i]
        BY <3>2
      <4> HIDE DEF g
      <4> QED
        BY <4>1, <4>2, <4>3
    <3> QED BY <3>1, <3>2
  <2> HIDE DEF g
  <2>3. (m + 1) - 1 = m
    OBVIOUS
  <2> QED BY <2>1, <2>2, <2>3, <1>4 DEF Concatenated
<1>6. g[m + 1] = f[m] \o s
  OBVIOUS
<1> HIDE DEF g
<1>7. FlattenSeq(more) = g[m + 1]
  BY <1>4, <1>5, FlattenUnique
<1> QED
  BY <1>3, <1>6, <1>7 DEF more

LEMMA ConcatThree ==
  ASSUME NEW S, NEW a \in Seq(S), NEW b \in Seq(S), NEW c \in Seq(S)
  PROVE  a \o (b \o c) = (a \o b) \o c
BY ConcatAssociative

LEMMA FlattenHead ==
  ASSUME NEW S, NEW seqs \in Seq(Seq(S)), seqs # <<>>
  PROVE  FlattenSeq(seqs) = Head(seqs) \o FlattenSeq(Tail(seqs))
<1> DEFINE h == Head(seqs)
           t == Tail(seqs)
<1>1. PICK m \in Nat : Len(seqs) = m + 1
  <2>1. Len(seqs) \in Nat /\ Len(seqs) # 0
    BY LenProperties, EmptySeq
  <2>2. Len(seqs) - 1 \in Nat /\ Len(seqs) = (Len(seqs) - 1) + 1
    BY <2>1
  <2> QED BY <2>2
<1>2. /\ h \in Seq(S) /\ t \in Seq(Seq(S)) /\ Len(t) = m
      /\ \A i \in 1 .. m : t[i] = seqs[i + 1]
  BY <1>1, HeadTailProperties
<1>3. h = seqs[1]
  BY DEF h
<1> HIDE DEF h, t
<1>4. PICK f : Concatenated(f, t)
  BY <1>2, FlattenExists
<1>5. FlattenSeq(t) = f[m]
  BY <1>2, <1>4, FlattenUnique
<1>6. \A i \in 0 .. m : f[i] \in Seq(S)
  BY <1>2, <1>4, ConcatenatedType
<1> DEFINE g == [i \in 0 .. m + 1 |-> IF i = 0 THEN <<>> ELSE h \o f[i - 1]]
<1>7. g[0] = <<>>
  OBVIOUS
<1>8. ASSUME NEW i \in 0 .. m PROVE g[i + 1] = h \o f[i]
  <2>1. i + 1 \in 0 .. m + 1 /\ i + 1 # 0 /\ (i + 1) - 1 = i
    OBVIOUS
  <2> QED BY <2>1
<1> HIDE DEF g
<1>9. ASSUME NEW i \in 0 .. m PROVE g[i + 1] = g[i] \o seqs[i + 1]
  <2>1. CASE i = 0
    <3>1. f[0] = <<>>
      BY <1>4 DEF Concatenated
    <3>2. h \o <<>> = h /\ <<>> \o h = h
      BY <1>2, ConcatEmptySeq
    <3>3. g[1] = h \o f[0]
      BY <1>8, <2>1
    <3>4. g[1] = g[0] \o seqs[1]
      BY <3>1, <3>2, <3>3, <1>3, <1>7
    <3>5. i + 1 = 1
      BY <2>1
    <3> QED
      BY <2>1, <3>4, <3>5
  <2>2. CASE i # 0
    <3>1. PICK j \in 0 .. m - 1 : i = j + 1
      <4>1. i - 1 \in 0 .. m - 1 /\ i = (i - 1) + 1
        BY <2>2
      <4> QED BY <4>1
    <3>2. f[j + 1] = f[j] \o t[j + 1]
      BY <1>2, <1>4 DEF Concatenated
    <3>3. t[i] = seqs[i + 1]
      BY <1>2, <2>2
    <3>4. f[j] \in Seq(S) /\ t[i] \in Seq(S)
      <4>1. i \in 1 .. Len(t)
        BY <1>2, <2>2
      <4> QED BY <4>1, <1>2, <1>6, ElementOfSeq
    <3>5. h \o (f[j] \o t[i]) = (h \o f[j]) \o t[i]
      <4>1. PICK a \in Seq(S), b \in Seq(S) : a = f[j] /\ b = t[i]
        BY <3>4
      <4>2. h \in Seq(S)
        BY <1>2
      <4>3. h \o (a \o b) = (h \o a) \o b
        BY <4>2, ConcatThree
      <4> QED BY <4>1, <4>3
    <3>6. g[i + 1] = h \o f[i] /\ g[i] = h \o f[j]
      <4>1. g[j + 1] = h \o f[j]
        BY <1>8
      <4> QED BY <4>1, <1>8, <3>1
    <3> QED
      BY <3>1, <3>2, <3>3, <3>5, <3>6
  <2> QED BY <2>1, <2>2
<1>10. Concatenated(g, seqs)
  <2>1. (m + 1) - 1 = m
    OBVIOUS
  <2> QED BY <2>1, <1>1, <1>7, <1>9 DEF Concatenated
<1>11. FlattenSeq(seqs) = g[m + 1]
  BY <1>1, <1>10, FlattenUnique
<1>12. g[m + 1] = h \o f[m]
  BY <1>8
<1> QED
  BY <1>5, <1>11, <1>12 DEF h, t

-----------------------------------------------------------------------------
(* Concatenations *)

LEMMA SamePieces ==
  ASSUME NEW S, NEW a \in Seq(S), NEW b \in Seq(S), NEW c \in Seq(S), NEW d \in Seq(S),
         a \o c = b \o d, Len(a) = Len(b)
  PROVE  a = b /\ c = d
<1>1. /\ Len(a) \in Nat /\ Len(c) \in Nat /\ Len(d) \in Nat
  BY LenProperties
<1>2. /\ Len(a \o c) = Len(a) + Len(c) /\ Len(b \o d) = Len(b) + Len(d)
      /\ \A i \in 1 .. Len(a) + Len(c) : (a \o c)[i] = IF i <= Len(a) THEN a[i] ELSE c[i - Len(a)]
      /\ \A i \in 1 .. Len(b) + Len(d) : (b \o d)[i] = IF i <= Len(b) THEN b[i] ELSE d[i - Len(b)]
  BY ConcatProperties
<1>3. ASSUME NEW i \in 1 .. Len(a) PROVE a[i] = b[i]
  <2>1. (a \o c)[i] = a[i] /\ (b \o d)[i] = b[i]
    BY <1>1, <1>2
  <2> QED BY <2>1
<1>4. a = b
  BY <1>3, SeqEqual
<1>5. c = d
  BY <1>4, ConcatSimplifications
<1> QED
  BY <1>4, <1>5

LEMMA FirstPiece ==
  ASSUME NEW S, NEW a \in Seq(S), NEW b \in Seq(S)
  PROVE  /\ SubSeq(a \o b, 1, Len(a)) = a
         /\ SubSeq(a \o b, Len(a) + 1, Len(a \o b)) = b
<1>1. /\ a \o b \in Seq(S) /\ Len(a \o b) = Len(a) + Len(b)
      /\ Len(a) \in Nat /\ Len(b) \in Nat
  BY ConcatProperties, LenProperties
<1>2. PICK c \in Seq(S), n \in Nat, k \in Nat :
        c = a \o b /\ n = Len(a) /\ k = Len(b) /\ Len(c) = n + k
  BY <1>1
<1>3. SubSeq(c, 1, n) \o SubSeq(c, n + 1, n + k) = SubSeq(c, 1, n + k)
  <2>1. 1 \in 1 .. Len(c) + 1 /\ n \in 1 - 1 .. Len(c) /\ n + k \in n .. Len(c)
    BY <1>2
  <2> QED BY <2>1, ConcatAdjacentSubSeq
<1>4. SubSeq(c, 1, n + k) = c
  BY <1>2, SubSeqFull
<1>5. \A i \in 1 .. n + k : c[i] \in S
  BY <1>2, ElementOfSeq
<1>6. SubSeq(c, 1, n) \in Seq(S) /\ Len(SubSeq(c, 1, n)) = n
  <2>1. \A i \in 1 .. n : c[i] \in S
    BY <1>2, <1>5
  <2> QED BY <2>1, <1>2, SubSeqProperties
<1>7. SubSeq(c, n + 1, n + k) \in Seq(S)
  <2>1. \A i \in n + 1 .. n + k : c[i] \in S
    BY <1>2, <1>5
  <2> QED BY <2>1, <1>2, SubSeqProperties
<1>8. SubSeq(c, 1, n) = a /\ SubSeq(c, n + 1, n + k) = b
  <2>1. PICK x \in Seq(S), y \in Seq(S) :
          x = SubSeq(c, 1, n) /\ y = SubSeq(c, n + 1, n + k)
    BY <1>6, <1>7
  <2>2. x \o y = a \o b /\ Len(x) = Len(a)
    BY <2>1, <1>2, <1>3, <1>4, <1>6
  <2>3. x = a /\ y = b
    BY <2>2, SamePieces
  <2> QED
    BY <2>1, <2>3
<1> QED
  BY <1>2, <1>8

LEMMA ShiftOver ==
  ASSUME NEW S, NEW a \in Seq(S), NEW b \in Seq(S), b # <<>>
  PROVE  /\ Append(a, Head(b)) \in Seq(S) /\ Len(Append(a, Head(b))) = Len(a) + 1
         /\ Tail(b) \in Seq(S)
         /\ Append(a, Head(b)) \o Tail(b) = a \o b
<1>1. Head(b) \in S /\ Tail(b) \in Seq(S)
  BY HeadTailProperties
<1>2. PICK x \in S, t \in Seq(S) : x = Head(b) /\ t = Tail(b)
  BY <1>1
<1>3. Append(a, x) \in Seq(S) /\ Len(Append(a, x)) = Len(a) + 1
  BY AppendProperties
<1>4. Append(a, x) = a \o <<x>>
  BY AppendIsConcat
<1>5. <<x>> \in Seq(S)
  OBVIOUS
<1>6. <<x>> \o t = b
  <2>1. PICK n \in Nat : Len(b) = n + 1 /\ Len(t) = n /\ \A i \in 1 .. n : t[i] = b[i + 1]
    <3>1. Len(b) \in Nat /\ Len(b) # 0 /\ Len(t) = Len(b) - 1
      BY <1>2, EmptySeq, HeadTailProperties
    <3>2. Len(b) - 1 \in Nat /\ Len(b) = (Len(b) - 1) + 1
      BY <3>1
    <3> QED BY <3>1, <3>2, <1>2, HeadTailProperties
  <2>2. Len(<<x>>) = 1 /\ <<x>>[1] = x
    OBVIOUS
  <2>3. /\ <<x>> \o t \in Seq(S) /\ Len(<<x>> \o t) = n + 1
        /\ \A i \in 1 .. n + 1 : (<<x>> \o t)[i] = IF i <= 1 THEN <<x>>[i] ELSE t[i - 1]
    BY <1>5, <2>1, <2>2, ConcatProperties
  <2>4. ASSUME NEW i \in 1 .. n + 1 PROVE (<<x>> \o t)[i] = b[i]
    <3>1. CASE i = 1
      BY <3>1, <2>2, <2>3, <1>2
    <3>2. CASE i # 1
      <4>1. PICK j \in 1 .. n : i = j + 1
        <5>1. i - 1 \in 1 .. n /\ i = (i - 1) + 1
          BY <3>2
        <5> QED BY <5>1
      <4>2. (<<x>> \o t)[i] = t[i - 1] /\ i - 1 = j
        BY <3>2, <4>1, <2>3
      <4> QED BY <4>1, <4>2, <2>1
    <3> QED BY <3>1, <3>2
  <2> QED
    BY <2>1, <2>3, <2>4, SeqEqual
<1>7. (a \o <<x>>) \o t = a \o (<<x>> \o t)
  BY <1>5, ConcatThree
<1> QED
  BY <1>2, <1>3, <1>4, <1>6, <1>7
=============================================================================
