--------------------------- MODULE SignalsProofs ---------------------------
(***************************************************************************)
(* The signal server for any clients, signals, handlers and length of      *)
(* FIFO: if callers take turns while they write, the server's words stay   *)
(* in step with them, and requests in pieces amount to calls on one table. *)
(***************************************************************************)
EXTENDS Signals, ListProofs, FiniteSetTheorems, FunctionTheorems

Word == Modes \union Clients \union Signals \union Handlers
Answer == Handlers \union {signal_default, SIG_ERR, 0}

-----------------------------------------------------------------------------
(* Sequences made of sets of at most one element *)

LEMMA FlattenOne ==
  ASSUME NEW S, NEW t \in Seq(S)
  PROVE  FlattenSeq(<<>>) = <<>> /\ FlattenSeq(<<t>>) = t
<1>1. <<>> \in Seq(Seq(S)) /\ Len(<<>>) = 0
  BY EmptySeq
<1>2. FlattenSeq(<<>>) = <<>>
  BY <1>1 DEF FlattenSeq
<1>3. Append(<<>>, t) = <<t>>
  OBVIOUS
<1>4. FlattenSeq(Append(<<>>, t)) = FlattenSeq(<<>>) \o t
  BY <1>1, FlattenAppend
<1>5. <<>> \o t = t
  BY ConcatEmptySeq
<1> QED
  BY <1>2, <1>3, <1>4, <1>5

LEMMA SeqOfNone == SetToSeq({}) = <<>>
<1>1. Cardinality({}) = 0
  BY FS_EmptySet
<1>2. <<>> \in [1 .. 0 -> {}] /\ IsInjective(<<>>)
  BY DEF IsInjective
<1>3. SetToSeq({}) \in [1 .. 0 -> {}]
  BY <1>1, <1>2 DEF SetToSeq
<1> QED
  BY <1>3

LEMMA SeqOfOne ==
  ASSUME NEW t
  PROVE  SetToSeq({t}) = <<t>>
<1>1. Cardinality({t}) = 1
  BY FS_Singleton
<1>2. [i \in 1 .. 1 |-> t] \in [1 .. 1 -> {t}] /\ IsInjective([i \in 1 .. 1 |-> t])
  BY DEF IsInjective
<1>3. SetToSeq({t}) \in [1 .. 1 -> {t}]
  BY <1>1, <1>2 DEF SetToSeq
<1> QED
  BY <1>3

LEMMA OrderIsSeq ==
  ASSUME NEW S, NEW T, NEW s \in Seq(S),
         \A i, j \in 1 .. Len(s) : s[i] = s[j] => i = j,
         \A x : x \in T <=> \E i \in 1 .. Len(s) : s[i] = x
  PROVE  s \in SetToSeqs(T)
<1>1. PICK n \in Nat : n = Len(s) /\ s \in [1 .. n -> S] /\ DOMAIN s = 1 .. n
  BY LenProperties
<1>2. s \in [1 .. n -> T] /\ (\A i, j \in 1 .. n : i # j => s[i] # s[j])
  <2>1. s = [i \in 1 .. n |-> s[i]]
    BY <1>1
  <2> QED BY <1>1, <2>1
<1>3. s \in Bijection(1 .. n, T)
  <2>1. \A x \in T : \E i \in 1 .. n : s[i] = x
    BY <1>1
  <2> QED
    BY <1>2, <2>1, Fun_IsBij
<1>4. ExistsBijection(1 .. n, T)
  BY <1>3, Fun_ExistsBij
<1>5. IsFiniteSet(1 .. n) /\ Cardinality(1 .. n) = n
  BY FS_Interval
<1>6. Cardinality(T) = n
  BY <1>4, <1>5, FS_Bijection
<1> QED
  BY <1>2, <1>6 DEF SetToSeqs

-----------------------------------------------------------------------------
(* The inductive invariant *)

\* The words of the callers in order, by the calls they are in
Flow(order, calls) == [i \in DOMAIN order |-> Words(order[i], calls[order[i]])]

Shape ==
  /\ handler \in [Signals -> Handlers \union {signal_default, NULL}]
  /\ flags \in [Signals -> {STATE_ILEGAL, STATE_LEGAL}]
  /\ \A s \in Signals : flags[s] = STATE_LEGAL => handler[s] \in Handlers \union {signal_default}
  /\ queue \in Seq(Word) /\ Len(queue) <= Room
  /\ got \in Seq(Word) /\ Len(got) <= 4
  /\ call \in [Clients -> Requests \union {NoCall}]
  /\ todo \in [Clients -> Seq(Word)] /\ \A c \in Clients : Len(todo[c]) <= 4
  /\ own \in [Clients -> Seq(Answer)] /\ \A c \in Clients : Len(own[c]) <= 1
  /\ ret = [c \in Clients |-> ret[c]]

\* A caller is in a call while it writes and until it has read its answer; it has
\* written its request when it gets one; and one caller writes at a time.
Phases ==
  /\ \A c \in Clients : call[c] = NoCall => todo[c] = <<>> /\ own[c] = <<>>
  /\ \A c \in Clients : own[c] # <<>> => todo[c] = <<>>
  /\ \A c, d \in Clients : todo[c] # <<>> /\ todo[d] # <<>> => c = d

\* An order of the callers that wait, and the words one of them has still to write
Ordered(order) ==
  /\ \A i, j \in 1 .. Len(order) : order[i] = order[j] => i = j
  /\ \A x : x \in Unanswered <=> \E i \in 1 .. Len(order) : order[i] = x
Unwritten(words) ==
  /\ (\A c \in Clients : todo[c] = <<>>) => words = <<>>
  /\ \A c \in Clients : todo[c] # <<>> => words = todo[c]
\* The caller that writes began last.
Latest(order) ==
  \A c \in Clients : todo[c] # <<>> => order # <<>> /\ order[Len(order)] = c
Aligned(order, words) ==
  /\ order \in Seq(Clients) /\ words \in Seq(Word)
  /\ Ordered(order) /\ Unwritten(words) /\ Latest(order)
  /\ (got \o queue) \o words = FlattenSeq(Flow(order, call))

IInv == Shape /\ Phases /\ \E order, words : Aligned(order, words)

LEMMA RequestFacts ==
  ASSUME NEW r \in Requests
  PROVE  /\ r # NoCall /\ r.mode \in Modes /\ r.sig \in Signals
         /\ r.mode = "SIGSET" => r.func \in Handlers /\ r.sig = SIGCHLD
BY SignalsAssumption DEF Requests, Request, NoCall, Modes

LEMMA ThreeAndOne ==
  ASSUME NEW a, NEW b, NEW c, NEW d
  PROVE  <<a, b, c>> \o <<d>> = <<a, b, c, d>>
<1> DEFINE S == {a, b, c, d}
<1>1. <<a, b, c>> \in Seq(S) /\ <<d>> \in Seq(S) /\ <<a, b, c, d>> \in Seq(S)
  OBVIOUS
<1>2. Append(<<a, b, c>>, d) = <<a, b, c>> \o <<d>>
  BY <1>1, AppendIsConcat
<1>3. Append(<<a, b, c>>, d) = <<a, b, c, d>>
  <2> DEFINE s == <<a, b, c>>
             t == <<a, b, c, d>>
  <2>1. Len(s) = 3 /\ s[1] = a /\ s[2] = b /\ s[3] = c /\ d \in S
    OBVIOUS
  <2>2. Len(t) = 4 /\ t[1] = a /\ t[2] = b /\ t[3] = c /\ t[4] = d
    OBVIOUS
  <2> HIDE DEF s, t, S
  <2>3. /\ Append(s, d) \in Seq(S) /\ Len(Append(s, d)) = 4
        /\ \A i \in 1 .. 3 : Append(s, d)[i] = s[i]
        /\ Append(s, d)[4] = d
    <3>1. /\ Append(s, d) \in Seq(S) /\ Len(Append(s, d)) = Len(s) + 1
          /\ \A i \in 1 .. Len(s) : Append(s, d)[i] = s[i]
          /\ Append(s, d)[Len(s) + 1] = d
      BY <1>1, <2>1, AppendProperties DEF s
    <3> QED BY <3>1, <2>1
  <2>4. ASSUME NEW i \in 1 .. 4 PROVE Append(s, d)[i] = t[i]
    <3>1. i = 1 \/ i = 2 \/ i = 3 \/ i = 4
      OBVIOUS
    <3> QED BY <3>1, <2>1, <2>2, <2>3
  <2>5. Append(s, d) = t
    BY <1>1, <2>2, <2>3, <2>4, SeqEqual DEF t
  <2> QED BY <2>5 DEF s, t
<1> QED
  BY <1>2, <1>3

LEMMA WordsFacts ==
  ASSUME NEW c \in Clients, NEW r \in Requests
  PROVE  /\ Words(c, r) \in Seq(Word)
         /\ Len(Words(c, r)) = IF r.mode = "SIGSET" THEN 4 ELSE 3
         /\ Words(c, r)[1] = r.mode /\ Words(c, r)[2] = c /\ Words(c, r)[3] = r.sig
         /\ r.mode = "SIGSET" => Words(c, r)[4] = r.func
<1>1. r.mode \in Word /\ c \in Word /\ r.sig \in Word /\ (r.mode = "SIGSET" => r.func \in Word)
  BY RequestFacts DEF Word
<1>2. CASE r.mode = "SIGSET"
  <2>1. Words(c, r) = <<r.mode, c, r.sig, r.func>>
    BY <1>2, ThreeAndOne DEF Words
  <2> QED
    BY <1>1, <1>2, <2>1
<1>3. CASE r.mode # "SIGSET"
  <2>1. <<r.mode, c, r.sig>> \in Seq(Word)
    BY <1>1
  <2>2. Words(c, r) = <<r.mode, c, r.sig>>
    BY <1>3, <2>1, ConcatEmptySeq DEF Words
  <2> QED
    BY <1>1, <1>3, <2>2
<1> QED
  BY <1>2, <1>3

\* Every caller that waits is in a call, so its words are those of a request.
LEMMA FlowFacts ==
  ASSUME NEW order \in Seq(Clients), NEW calls,
         \A i \in 1 .. Len(order) : calls[order[i]] \in Requests
  PROVE  /\ Flow(order, calls) \in Seq(Seq(Word))
         /\ Len(Flow(order, calls)) = Len(order)
         /\ \A i \in 1 .. Len(order) :
              Flow(order, calls)[i] = Words(order[i], calls[order[i]])
<1>1. PICK n \in Nat : n = Len(order) /\ DOMAIN order = 1 .. n
  BY LenProperties
<1>2. \A i \in 1 .. n : Words(order[i], calls[order[i]]) \in Seq(Word)
  BY <1>1, ElementOfSeq, WordsFacts
<1>3. [i \in 1 .. n |-> Words(order[i], calls[order[i]])] \in Seq(Seq(Word))
  BY <1>2, IsASeq
<1> QED
  BY <1>1, <1>3 DEF Flow

LEMMA FlowAppend ==
  ASSUME NEW order \in Seq(Clients), NEW calls, NEW c \in Clients, NEW more,
         \A i \in 1 .. Len(order) : calls[order[i]] \in Requests,
         \A i \in 1 .. Len(order) : more[order[i]] = calls[order[i]],
         more[c] \in Requests
  PROVE  FlattenSeq(Flow(Append(order, c), more))
           = FlattenSeq(Flow(order, calls)) \o Words(c, more[c])
<1>1. PICK n \in Nat : n = Len(order)
  BY LenProperties
<1>2. PICK s \in Seq(Clients) :
        /\ s = Append(order, c) /\ Len(s) = n + 1
        /\ \A i \in 1 .. n : s[i] = order[i]
        /\ s[n + 1] = c
  <2>1. /\ Append(order, c) \in Seq(Clients) /\ Len(Append(order, c)) = Len(order) + 1
        /\ \A i \in 1 .. Len(order) : Append(order, c)[i] = order[i]
        /\ Append(order, c)[Len(order) + 1] = c
    BY AppendProperties
  <2> QED BY <2>1, <1>1
<1>3. \A i \in 1 .. n + 1 : more[s[i]] \in Requests
  <2> SUFFICES ASSUME NEW i \in 1 .. n + 1 PROVE more[s[i]] \in Requests
    OBVIOUS
  <2>1. CASE i = n + 1
    BY <2>1, <1>2
  <2>2. CASE i # n + 1
    BY <2>2, <1>1, <1>2
  <2> QED BY <2>1, <2>2
<1>4. PICK f : /\ f = Flow(order, calls) /\ f \in Seq(Seq(Word)) /\ Len(f) = n
               /\ \A i \in 1 .. n : f[i] = Words(order[i], calls[order[i]])
  BY <1>1, FlowFacts
<1>5. PICK g : /\ g = Flow(s, more) /\ g \in Seq(Seq(Word)) /\ Len(g) = n + 1
               /\ \A i \in 1 .. n + 1 : g[i] = Words(s[i], more[s[i]])
  <2>1. \A i \in 1 .. Len(s) : more[s[i]] \in Requests
    BY <1>2, <1>3
  <2>2. /\ Flow(s, more) \in Seq(Seq(Word)) /\ Len(Flow(s, more)) = Len(s)
        /\ \A i \in 1 .. Len(s) : Flow(s, more)[i] = Words(s[i], more[s[i]])
    BY <2>1, FlowFacts
  <2> QED BY <2>2, <1>2
<1>6. Words(c, more[c]) \in Seq(Word)
  BY WordsFacts
<1>7. /\ Append(f, Words(c, more[c])) \in Seq(Seq(Word))
      /\ Len(Append(f, Words(c, more[c]))) = n + 1
      /\ \A i \in 1 .. n : Append(f, Words(c, more[c]))[i] = f[i]
      /\ Append(f, Words(c, more[c]))[n + 1] = Words(c, more[c])
  BY <1>4, <1>6, AppendProperties
<1>8. ASSUME NEW i \in 1 .. n + 1 PROVE g[i] = Append(f, Words(c, more[c]))[i]
  <2>1. CASE i = n + 1
    BY <2>1, <1>2, <1>5, <1>7
  <2>2. CASE i # n + 1
    <3>1. i \in 1 .. n
      BY <2>2
    <3>2. f[i] = Words(order[i], calls[order[i]]) /\ s[i] = order[i]
          /\ more[order[i]] = calls[order[i]]
      BY <3>1, <1>1, <1>2, <1>4
    <3>3. g[i] = Words(s[i], more[s[i]])
      BY <1>5
    <3> QED BY <3>1, <3>2, <3>3, <1>7
  <2> QED BY <2>1, <2>2
<1>9. g = Append(f, Words(c, more[c]))
  BY <1>5, <1>7, <1>8, SeqEqual
<1>10. FlattenSeq(Append(f, Words(c, more[c]))) = FlattenSeq(f) \o Words(c, more[c])
  BY <1>4, <1>6, FlattenAppend
<1> QED
  BY <1>2, <1>4, <1>5, <1>9, <1>10

LEMMA FlowHead ==
  ASSUME NEW order \in Seq(Clients), order # <<>>, NEW calls,
         \A i \in 1 .. Len(order) : calls[order[i]] \in Requests
  PROVE  /\ Tail(order) \in Seq(Clients)
         /\ Flow(Tail(order), calls) \in Seq(Seq(Word))
         /\ FlattenSeq(Flow(order, calls))
              = Words(order[1], calls[order[1]]) \o FlattenSeq(Flow(Tail(order), calls))
<1>1. PICK n \in Nat : Len(order) = n + 1
  <2>1. Len(order) \in Nat /\ Len(order) # 0
    BY EmptySeq, LenProperties
  <2>2. Len(order) - 1 \in Nat /\ Len(order) = (Len(order) - 1) + 1
    BY <2>1
  <2> QED BY <2>2
<1>2. PICK t \in Seq(Clients) :
        t = Tail(order) /\ Len(t) = n /\ \A i \in 1 .. n : t[i] = order[i + 1]
  <2>1. /\ Tail(order) \in Seq(Clients) /\ Len(Tail(order)) = Len(order) - 1
        /\ \A i \in 1 .. Len(Tail(order)) : Tail(order)[i] = order[i + 1]
    BY HeadTailProperties
  <2>2. Len(Tail(order)) = n
    BY <2>1, <1>1
  <2> QED BY <2>1, <2>2
<1>3. PICK f : /\ f = Flow(order, calls) /\ f \in Seq(Seq(Word)) /\ Len(f) = n + 1
               /\ \A i \in 1 .. n + 1 : f[i] = Words(order[i], calls[order[i]])
  <2>1. /\ Flow(order, calls) \in Seq(Seq(Word)) /\ Len(Flow(order, calls)) = Len(order)
        /\ \A i \in 1 .. Len(order) : Flow(order, calls)[i] = Words(order[i], calls[order[i]])
    BY FlowFacts
  <2> QED BY <2>1, <1>1
<1>4. \A i \in 1 .. n : calls[t[i]] \in Requests
  <2> SUFFICES ASSUME NEW i \in 1 .. n PROVE calls[t[i]] \in Requests
    OBVIOUS
  <2>1. i + 1 \in 1 .. Len(order)
    BY <1>1
  <2> QED BY <2>1, <1>2
<1>5. PICK g : /\ g = Flow(t, calls) /\ g \in Seq(Seq(Word)) /\ Len(g) = n
               /\ \A i \in 1 .. n : g[i] = Words(t[i], calls[t[i]])
  <2>1. \A i \in 1 .. Len(t) : calls[t[i]] \in Requests
    BY <1>2, <1>4
  <2>2. /\ Flow(t, calls) \in Seq(Seq(Word)) /\ Len(Flow(t, calls)) = Len(t)
        /\ \A i \in 1 .. Len(t) : Flow(t, calls)[i] = Words(t[i], calls[t[i]])
    BY <2>1, FlowFacts
  <2> QED BY <2>2, <1>2
<1>6. f # <<>>
  BY <1>3, EmptySeq
<1>7. Tail(f) \in Seq(Seq(Word)) /\ Len(Tail(f)) = n /\ \A i \in 1 .. n : Tail(f)[i] = f[i + 1]
  BY <1>3, <1>6, HeadTailProperties
<1>8. ASSUME NEW i \in 1 .. n PROVE Tail(f)[i] = g[i]
  <2>1. i + 1 \in 1 .. n + 1
    OBVIOUS
  <2> QED BY <2>1, <1>2, <1>3, <1>5, <1>7
<1>9. Tail(f) = g
  BY <1>5, <1>7, <1>8, SeqEqual
<1>10. Head(f) = Words(order[1], calls[order[1]])
  BY <1>3
<1>11. FlattenSeq(f) = Head(f) \o FlattenSeq(Tail(f))
  BY <1>3, <1>6, FlattenHead
<1> QED
  BY <1>2, <1>3, <1>5, <1>9, <1>10, <1>11

LEMMA FlowEmpty ==
  ASSUME NEW calls
  PROVE  FlattenSeq(Flow(<<>>, calls)) = <<>>
<1>1. <<>> \in Seq(Clients) /\ Len(<<>>) = 0
  BY EmptySeq
<1>2. Flow(<<>>, calls) \in Seq(Seq(Word)) /\ Len(Flow(<<>>, calls)) = 0
  <2>1. \A i \in 1 .. Len(<<>>) : calls[<<>>[i]] \in Requests
    BY <1>1
  <2>2. Len(Flow(<<>>, calls)) = Len(<<>>) /\ Flow(<<>>, calls) \in Seq(Seq(Word))
    BY <1>1, <2>1, FlowFacts
  <2> QED
    BY <1>1, <2>2
<1>3. Flow(<<>>, calls) = <<>>
  BY <1>2, EmptySeq
<1> QED
  BY <1>3, FlattenOne, EmptySeq

LEMMA InOrder ==
  ASSUME Shape, NEW order, NEW words, Aligned(order, words)
  PROVE  /\ order \in Seq(Clients) /\ words \in Seq(Word)
         /\ \A i \in 1 .. Len(order) : /\ order[i] \in Clients
                                       /\ call[order[i]] \in Requests
                                       /\ own[order[i]] = <<>>
<1>1. order \in Seq(Clients) /\ words \in Seq(Word)
  BY DEF Aligned
<1>2. ASSUME NEW i \in 1 .. Len(order)
      PROVE  order[i] \in Clients /\ call[order[i]] \in Requests /\ own[order[i]] = <<>>
  <2>1. order[i] \in Unanswered
    BY DEF Aligned, Ordered
  <2> QED
    BY <2>1 DEF Unanswered, Shape
<1> QED
  BY <1>1, <1>2

\* The flow of the callers in order does not depend on the others' calls.
LEMMA FlowStays ==
  ASSUME NEW order \in Seq(Clients), NEW calls, NEW more,
         \A i \in 1 .. Len(order) : more[order[i]] = calls[order[i]]
  PROVE  Flow(order, more) = Flow(order, calls)
<1>1. DOMAIN order = 1 .. Len(order)
  BY LenProperties
<1> QED
  BY <1>1 DEF Flow

LEMMA InitIInv == Init => IInv
<1> SUFFICES ASSUME Init PROVE IInv
  OBVIOUS
<1>1. <<>> \in Seq(Word) /\ <<>> \in Seq(Answer) /\ <<>> \in Seq(Clients) /\ Len(<<>>) = 0
  BY EmptySeq
<1>2. Shape
  <2>1. Room \in Nat
    BY SignalsAssumption
  <2> QED
    BY <1>1, <2>1 DEF Init, Shape, STATE_ILEGAL, STATE_LEGAL
<1>3. Phases
  BY DEF Init, Phases
<1>4. Unanswered = {}
  BY DEF Init, Unanswered
<1>5. (<<>> \o <<>>) \o <<>> = <<>>
  BY <1>1, ConcatEmptySeq
<1>6. Aligned(<<>>, <<>>)
  <2>1. (got \o queue) \o <<>> = FlattenSeq(Flow(<<>>, call))
    BY <1>5, FlowEmpty DEF Init
  <2>2. Ordered(<<>>)
    BY <1>1, <1>4 DEF Ordered
  <2>3. Unwritten(<<>>)
    BY DEF Init, Unwritten
  <2>4. Latest(<<>>)
    BY DEF Init, Latest
  <2> QED
    BY <1>1, <2>1, <2>2, <2>3, <2>4 DEF Aligned
<1> QED
  BY <1>2, <1>3, <1>6 DEF IInv

LEMMA BeginStep ==
  ASSUME IInv, Turns, NEW c \in Clients, NEW r \in Requests, Begin(c, r)
  PROVE  IInv'
<1>1. /\ call[c] = NoCall /\ \A d \in Clients : todo[d] = <<>>
      /\ call' = [call EXCEPT ![c] = r] /\ todo' = [todo EXCEPT ![c] = Words(c, r)]
      /\ UNCHANGED <<handler, flags, got, queue, own, ret>>
  BY DEF Begin, server
<1>2. Shape /\ Phases
  BY DEF IInv
<1>3. PICK order, words : Aligned(order, words)
  BY DEF IInv
<1>4. /\ order \in Seq(Clients)
      /\ \A i \in 1 .. Len(order) : /\ order[i] \in Clients
                                    /\ call[order[i]] \in Requests
                                    /\ own[order[i]] = <<>>
  BY <1>2, <1>3, InOrder
<1>5. /\ Words(c, r) \in Seq(Word) /\ Len(Words(c, r)) <= 4 /\ Words(c, r) # <<>>
      /\ r # NoCall /\ own[c] = <<>>
  <2>1. Words(c, r) \in Seq(Word) /\ (Len(Words(c, r)) = 3 \/ Len(Words(c, r)) = 4)
    BY WordsFacts
  <2>2. Len(Words(c, r)) <= 4 /\ Words(c, r) # <<>>
    <3>1. \A n : n = 3 \/ n = 4 => n <= 4 /\ n # 0
      OBVIOUS
    <3>2. Len(<<>>) = 0
      BY EmptySeq
    <3> QED BY <2>1, <3>1, <3>2
  <2>3. r # NoCall /\ own[c] = <<>>
    BY <1>1, <1>2, RequestFacts DEF Phases
  <2> QED BY <2>1, <2>2, <2>3
<1>6. Shape'
  BY <1>1, <1>2, <1>5 DEF Shape
<1>7. Phases'
  <2>1. \A d \in Clients : d # c => todo'[d] = <<>> /\ call'[d] = call[d]
    BY <1>1, <1>2 DEF Shape
  <2>2. todo'[c] = Words(c, r) /\ call'[c] = r
    BY <1>1, <1>2 DEF Shape
  <2> QED
    BY <1>1, <1>2, <1>5, <2>1, <2>2 DEF Phases
<1>8. Unanswered' = Unanswered \union {c}
  BY <1>1, <1>2, <1>5 DEF Unanswered, Shape
<1>9. \A i \in 1 .. Len(order) : order[i] # c
  BY <1>1, <1>4, RequestFacts
<1>10. PICK more : /\ more = Append(order, c) /\ more \in Seq(Clients)
                   /\ Len(more) = Len(order) + 1
                   /\ \A i \in 1 .. Len(order) : more[i] = order[i]
                   /\ more[Len(order) + 1] = c
  BY <1>4, AppendProperties
<1>11. Ordered(more)'
  <2>1. PICK n \in Nat : n = Len(order) /\ Len(more) = n + 1 /\ more[n + 1] = c
    BY <1>4, <1>10, LenProperties
  <2>2. \A i, j \in 1 .. n : order[i] = order[j] => i = j
    BY <1>3, <2>1 DEF Aligned, Ordered
  <2>3. \A x : x \in Unanswered <=> \E i \in 1 .. n : order[i] = x
    BY <1>3, <2>1 DEF Aligned, Ordered
  <2>4. \A i \in 1 .. n : more[i] = order[i] /\ order[i] # c
    BY <1>9, <1>10, <2>1
  <2>5. \A i \in 1 .. n + 1 : i \in 1 .. n \/ i = n + 1
    OBVIOUS
  <2>6. ASSUME NEW i \in 1 .. n + 1, NEW j \in 1 .. n + 1, more[i] = more[j] PROVE i = j
    BY <2>1, <2>2, <2>4, <2>5, <2>6
  <2>7. ASSUME NEW x PROVE x \in Unanswered' <=> \E i \in 1 .. n + 1 : more[i] = x
    <3>1. CASE x = c
      <4>1. n + 1 \in 1 .. n + 1
        OBVIOUS
      <4> QED BY <3>1, <4>1, <1>8, <2>1
    <3>2. CASE x # c
      <4>1. \A i \in 1 .. n : i \in 1 .. n + 1
        OBVIOUS
      <4> QED BY <3>2, <4>1, <1>8, <2>1, <2>3, <2>4, <2>5
    <3> QED BY <3>1, <3>2
  <2> QED
    BY <2>1, <2>6, <2>7 DEF Ordered
<1>12. Unwritten(Words(c, r))'
  BY <1>1, <1>2, <1>5 DEF Unwritten, Shape
<1>13. ((got \o queue) \o Words(c, r))' = FlattenSeq(Flow(more, call'))
  <2>1. words = <<>> /\ (got \o queue) \o words = FlattenSeq(Flow(order, call))
    BY <1>1, <1>3 DEF Aligned, Unwritten
  <2>2. got \o queue \in Seq(Word)
    BY <1>2, ConcatProperties DEF Shape
  <2>3. got \o queue = FlattenSeq(Flow(order, call))
    BY <2>1, <2>2, ConcatEmptySeq
  <2>4. call'[c] = r /\ \A i \in 1 .. Len(order) : call'[order[i]] = call[order[i]]
    BY <1>1, <1>2, <1>4, <1>9 DEF Shape
  <2>5. FlattenSeq(Flow(more, call')) = FlattenSeq(Flow(order, call)) \o Words(c, r)
    <3>1. PICK old, new : old = call /\ new = call'
      OBVIOUS
    <3>2. /\ \A i \in 1 .. Len(order) : old[order[i]] \in Requests
          /\ \A i \in 1 .. Len(order) : new[order[i]] = old[order[i]]
          /\ new[c] = r /\ new[c] \in Requests
      BY <1>4, <2>4, <3>1
    <3>3. FlattenSeq(Flow(Append(order, c), new))
            = FlattenSeq(Flow(order, old)) \o Words(c, new[c])
      <4>1. order \in Seq(Clients)
        BY <1>4
      <4> QED BY <3>2, <4>1, FlowAppend
    <3> QED BY <1>10, <3>1, <3>2, <3>3
  <2> QED
    BY <1>1, <2>3, <2>5
<1>14. Latest(more)'
  <2>1. \A d \in Clients : todo'[d] # <<>> => d = c
    BY <1>1, <1>2 DEF Shape
  <2>2. Len(more) = Len(order) + 1 /\ more[Len(order) + 1] = c /\ Len(order) \in Nat
    BY <1>4, <1>10, LenProperties
  <2>3. more # <<>> /\ more[Len(more)] = c
    BY <2>2, EmptySeq
  <2> QED BY <2>1, <2>3 DEF Latest
<1>15. Aligned(more, Words(c, r))'
  BY <1>5, <1>10, <1>11, <1>12, <1>13, <1>14 DEF Aligned
<1> QED
  BY <1>6, <1>7, <1>15 DEF IInv

LEMMA WriteStep ==
  ASSUME IInv, NEW c \in Clients, WriteWord(c)
  PROVE  IInv'
<1>1. /\ todo[c] # <<>> /\ Len(queue) < Room
      /\ queue' = Append(queue, Head(todo[c])) /\ todo' = [todo EXCEPT ![c] = Tail(todo[c])]
      /\ UNCHANGED <<handler, flags, got, call, own, ret>>
  BY DEF WriteWord, server
<1>2. Shape /\ Phases
  BY DEF IInv
<1>3. PICK order, words : Aligned(order, words)
  BY DEF IInv
<1>4b. words = todo[c]
  BY <1>1, <1>3 DEF Aligned, Unwritten
<1>4. words \in Seq(Word) /\ words # <<>>
      /\ got \in Seq(Word) /\ queue \in Seq(Word)
  BY <1>1, <1>2, <1>3 DEF Aligned, Unwritten, Shape
<1>4a. Len(words) <= 4
  BY <1>2, <1>4b DEF Shape
<1>5. /\ Append(queue, Head(words)) \in Seq(Word)
      /\ Len(Append(queue, Head(words))) = Len(queue) + 1
      /\ Tail(words) \in Seq(Word)
      /\ Append(queue, Head(words)) \o Tail(words) = queue \o words
  BY <1>4, ShiftOver
<1>6. Len(queue') <= Room /\ Len(Tail(words)) <= 4
  <2>1. Len(queue) \in Nat /\ Room \in Nat /\ Len(queue) < Room
        /\ Len(queue') = Len(queue) + 1
    BY <1>1, <1>4b, <1>4, <1>5, LenProperties, SignalsAssumption
  <2>2. Len(words) \in Nat /\ Len(Tail(words)) = Len(words) - 1 /\ Len(words) <= 4
    BY <1>4a, <1>4, HeadTailProperties, LenProperties
  <2> QED
    BY <2>1, <2>2
<1>7. /\ \A d \in Clients : d # c => todo'[d] = todo[d]
      /\ todo'[c] = Tail(words)
  BY <1>1, <1>2, <1>4b DEF Shape
<1>8. Shape'
  <2>1. todo' \in [Clients -> Seq(Word)]
    BY <1>1, <1>2, <1>4b, <1>5 DEF Shape
  <2>2. \A d \in Clients : Len(todo'[d]) <= 4
    BY <1>2, <1>6, <1>7 DEF Shape
  <2>3. queue' \in Seq(Word)
    BY <1>1, <1>4b, <1>5
  <2> QED
    BY <1>1, <1>2, <1>6, <2>1, <2>2, <2>3 DEF Shape
<1>9. \A d \in Clients : d # c => todo[d] = <<>>
  BY <1>1, <1>2 DEF Phases
<1>10. Phases'
  BY <1>1, <1>2, <1>7, <1>9 DEF Phases
<1>11. Unanswered' = Unanswered
  BY <1>1 DEF Unanswered
<1>12. Unwritten(Tail(words))'
  BY <1>7, <1>9 DEF Unwritten
<1>13. ((got \o queue) \o Tail(words))' = FlattenSeq(Flow(order, call'))
  <2>1. (got \o queue) \o words = FlattenSeq(Flow(order, call))
    BY <1>3 DEF Aligned
  <2>2. (got \o queue) \o words = got \o (queue \o words)
    BY <1>4, ConcatThree
  <2>3. PICK q \in Seq(Word), t \in Seq(Word) :
          q = Append(queue, Head(words)) /\ t = Tail(words) /\ q \o t = queue \o words
    BY <1>5
  <2>4. (got \o q) \o t = got \o (q \o t)
    <3>1. got \in Seq(Word)
      BY <1>4
    <3> QED BY <3>1, ConcatThree
  <2> QED
    BY <1>1, <1>4b, <2>1, <2>2, <2>3, <2>4
<1>14. Latest(order)'
  <2>1. \A d \in Clients : todo'[d] # <<>> => todo[d] # <<>>
    BY <1>1, <1>7
  <2> QED BY <1>3, <2>1 DEF Aligned, Latest
<1>15. Aligned(order, Tail(words))'
  BY <1>3, <1>5, <1>11, <1>12, <1>13, <1>14 DEF Aligned, Ordered
<1> QED
  BY <1>8, <1>10, <1>15 DEF IInv

LEMMA ReturnStep ==
  ASSUME IInv, NEW c \in Clients, Return(c)
  PROVE  IInv' /\ own[c] = <<Head(own[c])>> /\ own'[c] = <<>>
<1>1. /\ call[c] # NoCall /\ todo[c] = <<>> /\ own[c] # <<>>
      /\ call' = [call EXCEPT ![c] = NoCall] /\ own' = [own EXCEPT ![c] = Tail(own[c])]
      /\ UNCHANGED <<handler, flags, got, queue, todo>>
      /\ ret' = [d \in Clients |-> ret'[d]]
  BY DEF Return, server, IInv, Shape
<1>2. Shape /\ Phases
  BY DEF IInv
<1>3. PICK order, words : Aligned(order, words)
  BY DEF IInv
<1>4. own[c] = <<Head(own[c])>> /\ Tail(own[c]) = <<>>
  <2>1. PICK w \in Seq(Answer) : w = own[c] /\ w # <<>> /\ Len(w) <= 1
    BY <1>1, <1>2 DEF Shape
  <2>2. Len(w) = 1 /\ Len(Tail(w)) = 0 /\ Tail(w) \in Seq(Answer)
    <3>1. Len(w) \in Nat \ {0} /\ Len(Tail(w)) = Len(w) - 1 /\ Tail(w) \in Seq(Answer)
      BY <2>1, EmptySeq, HeadTailProperties
    <3>2. \A n \in Nat \ {0} : n <= 1 => n = 1 /\ n - 1 = 0
      OBVIOUS
    <3> QED BY <2>1, <3>1, <3>2
  <2>3. Tail(w) = <<>>
    BY <2>2, EmptySeq
  <2>4. w = <<w[1]>>
    BY <2>1, <2>2
  <2> QED
    BY <2>1, <2>3, <2>4
<1>5. /\ \A d \in Clients : d # c => call'[d] = call[d] /\ own'[d] = own[d]
      /\ call'[c] = NoCall /\ own'[c] = <<>>
  BY <1>1, <1>2, <1>4 DEF Shape
<1>6. Shape'
  <2>1. call' \in [Clients -> Requests \union {NoCall}]
    BY <1>1, <1>2 DEF Shape
  <2>2. own' \in [Clients -> Seq(Answer)] /\ \A d \in Clients : Len(own'[d]) <= 1
    BY <1>1, <1>2, <1>4, <1>5, EmptySeq DEF Shape
  <2> QED
    BY <1>1, <1>2, <2>1, <2>2 DEF Shape
<1>7. Phases'
  BY <1>1, <1>2, <1>5 DEF Phases
<1>8. Unanswered' = Unanswered /\ c \notin Unanswered
  BY <1>1, <1>5 DEF Unanswered
<1>9. Flow(order, call') = Flow(order, call)
  <2>1. order \in Seq(Clients) /\ \A i \in 1 .. Len(order) : order[i] \in Unanswered
    BY <1>3 DEF Aligned, Ordered
  <2>2. \A i \in 1 .. Len(order) : order[i] # c /\ order[i] \in Clients
    BY <1>8, <2>1 DEF Unanswered
  <2>3. \A i \in 1 .. Len(order) : call'[order[i]] = call[order[i]]
    BY <1>5, <2>2
  <2> QED
    BY <2>1, <2>3, FlowStays
<1>10. Aligned(order, words)'
  BY <1>1, <1>3, <1>8, <1>9 DEF Aligned, Ordered, Unwritten, Latest
<1> QED
  BY <1>4, <1>5, <1>6, <1>7, <1>10 DEF IInv

LEMMA ReadStep ==
  ASSUME IInv, ReadWord
  PROVE  IInv'
<1>1. /\ Len(got) < Needed(got) /\ queue # <<>>
      /\ got' = Append(got, Head(queue)) /\ queue' = Tail(queue)
      /\ UNCHANGED <<handler, flags, call, todo, own, ret>>
  BY DEF ReadWord
<1>2. Shape /\ Phases
  BY DEF IInv
<1>3. PICK order, words : Aligned(order, words)
  BY DEF IInv
<1>4. got \in Seq(Word) /\ queue \in Seq(Word)
  BY <1>2 DEF Shape
<1>5. /\ Append(got, Head(queue)) \in Seq(Word)
      /\ Len(Append(got, Head(queue))) = Len(got) + 1
      /\ Tail(queue) \in Seq(Word)
      /\ Append(got, Head(queue)) \o Tail(queue) = got \o queue
  BY <1>1, <1>4, ShiftOver
<1>6. Len(got') <= 4 /\ Len(queue') <= Room
  <2>1. Len(got) \in Nat /\ Len(got') = Len(got) + 1
    BY <1>1, <1>4, <1>5, LenProperties
  <2>2. Needed(got) \in Nat /\ Needed(got) <= 4
    BY DEF Needed
  <2>3. Len(queue) \in Nat /\ Len(queue') = Len(queue) - 1 /\ Len(queue) <= Room
    BY <1>1, <1>2, <1>4, HeadTailProperties, LenProperties DEF Shape
  <2>4. Room \in Nat
    BY SignalsAssumption
  <2> QED
    BY <1>1, <2>1, <2>2, <2>3, <2>4
<1>7. Shape'
  BY <1>1, <1>2, <1>5, <1>6 DEF Shape
<1>8. Phases'
  BY <1>1, <1>2 DEF Phases
<1>9. Unanswered' = Unanswered
  BY <1>1 DEF Unanswered
<1>10. Aligned(order, words)'
  BY <1>1, <1>3, <1>5, <1>9 DEF Aligned, Ordered, Unwritten, Latest
<1> QED
  BY <1>7, <1>8, <1>10 DEF IInv

\* The server serves nothing but the whole request of the caller that waited
\* longest.
LEMMA WholeRequest ==
  ASSUME Shape, NEW order, NEW words, Aligned(order, words),
         Len(got) > 2, Len(got) = Needed(got)
  PROVE  /\ order # <<>> /\ order[1] \in Clients /\ call[order[1]] \in Requests
         /\ got = Words(order[1], call[order[1]])
         /\ Tail(order) \in Seq(Clients)
         /\ queue \o words = FlattenSeq(Flow(Tail(order), call))
<1>1. /\ order \in Seq(Clients) /\ words \in Seq(Word)
      /\ \A i \in 1 .. Len(order) : order[i] \in Clients /\ call[order[i]] \in Requests
  BY InOrder
<1>2. got \in Seq(Word) /\ queue \in Seq(Word) /\ Len(got) \in Nat
  BY LenProperties DEF Shape
<1>3. /\ queue \o words \in Seq(Word) /\ (got \o queue) \o words = got \o (queue \o words)
      /\ (got \o queue) \o words = FlattenSeq(Flow(order, call))
  <2>1. got \in Seq(Word) /\ queue \in Seq(Word) /\ words \in Seq(Word)
    BY <1>1, <1>2
  <2>2. queue \o words \in Seq(Word)
    BY <2>1, ConcatProperties
  <2>3. (got \o queue) \o words = got \o (queue \o words)
    BY <2>1, ConcatThree
  <2>4. (got \o queue) \o words = FlattenSeq(Flow(order, call))
    BY DEF Aligned
  <2> QED BY <2>2, <2>3, <2>4
<1>4. PICK more \in Seq(Word) : more = queue \o words
  BY <1>3
<1>5. order # <<>>
  <2>1. SUFFICES ASSUME order = <<>> PROVE FALSE
    OBVIOUS
  <2>2. got \o more = <<>>
    BY <1>3, <1>4, <2>1, FlowEmpty
  <2>3. got = <<>>
    BY <1>2, <2>2, ConcatEqualIffEmpty
  <2> QED
    BY <2>3, EmptySeq
<1>6. Len(order) \in Nat \ {0}
  BY <1>1, <1>5, EmptySeq
<1>7. order[1] \in Clients /\ call[order[1]] \in Requests
  BY <1>1, <1>6
<1>8. PICK c \in Clients, r \in Requests : c = order[1] /\ r = call[order[1]]
  BY <1>7
<1>9. PICK calls : calls = call
  OBVIOUS
<1>10. /\ Tail(order) \in Seq(Clients)
       /\ Flow(Tail(order), calls) \in Seq(Seq(Word))
       /\ FlattenSeq(Flow(order, calls))
            = Words(order[1], calls[order[1]]) \o FlattenSeq(Flow(Tail(order), calls))
  <2>1. \A i \in 1 .. Len(order) : calls[order[i]] \in Requests
    BY <1>1, <1>9
  <2>2. order \in Seq(Clients)
    BY <1>1
  <2> QED
    BY <1>5, <2>1, <2>2, FlowHead
<1>11. PICK rest \in Seq(Word) : rest = FlattenSeq(Flow(Tail(order), calls))
  BY <1>10, FlattenType
<1>12. PICK w \in Seq(Word) :
         /\ w = Words(c, r) /\ Len(w) = (IF r.mode = "SIGSET" THEN 4 ELSE 3)
         /\ w[1] = r.mode
  BY WordsFacts
<1>13. got \o more = w \o rest
  BY <1>3, <1>4, <1>8, <1>9, <1>10, <1>11, <1>12
<1>14. got[1] = w[1]
  <2>1. Len(w) \in Nat /\ 1 <= Len(w) /\ 1 <= Len(got) /\ Len(more) \in Nat /\ Len(rest) \in Nat
    BY <1>2, <1>12, LenProperties
  <2>2. (got \o more)[1] = got[1] /\ (w \o rest)[1] = w[1]
    BY <1>2, <2>1, ConcatProperties
  <2> QED BY <1>13, <2>2
<1>15. Len(got) = Len(w)
  BY <1>2, <1>12, <1>14 DEF Needed
<1>16. got = w /\ more = rest
  BY <1>2, <1>13, <1>15, SamePieces
<1> QED
  BY <1>4, <1>5, <1>7, <1>8, <1>9, <1>10, <1>11, <1>12, <1>16

\* What a request does to the table of the handlers, and its answer
Entry == [s \in Signals |-> IF flags[s] = STATE_LEGAL THEN handler[s] ELSE SIG_ERR]

LEMMA ChangeFacts ==
  ASSUME Shape, NEW c \in Clients, NEW r \in Requests, got = Words(c, r), Change(r.mode, r.sig)
  PROVE  /\ handler' \in [Signals -> Handlers \union {signal_default, NULL}]
         /\ flags' \in [Signals -> {STATE_ILEGAL, STATE_LEGAL}]
         /\ \A s \in Signals : flags'[s] = STATE_LEGAL =>
              handler'[s] \in Handlers \union {signal_default}
         /\ Entry' = [Entry EXCEPT ![r.sig] =
              CASE r.mode = "SIGSET" -> r.func
                [] r.mode = "SIGDFL" /\ Entry[r.sig] # SIG_ERR -> signal_default
                [] r.mode = "SIGIGN" -> SIG_ERR
                [] OTHER -> Entry[r.sig]]
<1>1. /\ r.mode \in Modes /\ r.sig \in Signals
      /\ r.mode = "SIGSET" => r.func \in Handlers /\ got[4] = r.func
  BY RequestFacts, WordsFacts
<1>2. /\ handler \in [Signals -> Handlers \union {signal_default, NULL}]
      /\ flags \in [Signals -> {STATE_ILEGAL, STATE_LEGAL}]
      /\ \A s \in Signals : flags[s] = STATE_LEGAL => handler[s] \in Handlers \union {signal_default}
      /\ STATE_ILEGAL # STATE_LEGAL
      /\ SIG_ERR \notin Handlers \union {signal_default}
  BY SignalsAssumption DEF Shape, STATE_ILEGAL, STATE_LEGAL
<1>3. Entry[r.sig] # SIG_ERR <=> flags[r.sig] = STATE_LEGAL
  BY <1>1, <1>2 DEF Entry
<1>4. CASE r.mode = "SIGSET"
  <2>1. /\ handler' = [handler EXCEPT ![r.sig] = r.func]
        /\ flags' = [flags EXCEPT ![r.sig] = STATE_LEGAL]
    BY <1>1, <1>4 DEF Change
  <2> QED
    BY <1>1, <1>2, <1>4, <2>1 DEF Entry
<1>5. CASE r.mode \in {"SIGDFL", "SIGIGN"} /\ flags[r.sig] = STATE_LEGAL
  <2>1. /\ handler' = [handler EXCEPT ![r.sig] = signal_default]
        /\ flags' = IF r.mode = "SIGIGN" THEN [flags EXCEPT ![r.sig] = STATE_ILEGAL] ELSE flags
    BY <1>5 DEF Change
  <2>2. CASE r.mode = "SIGDFL"
    BY <1>1, <1>2, <1>3, <1>5, <2>1, <2>2 DEF Entry
  <2>3. CASE r.mode = "SIGIGN"
    BY <1>1, <1>2, <1>3, <1>5, <2>1, <2>3 DEF Entry
  <2> QED
    BY <1>5, <2>2, <2>3
<1>6. CASE r.mode # "SIGSET" /\ ~(r.mode \in {"SIGDFL", "SIGIGN"} /\ flags[r.sig] = STATE_LEGAL)
  <2>1. handler' = handler /\ flags' = flags
    BY <1>6 DEF Change
  <2>2. Entry' = Entry
    BY <2>1 DEF Entry
  <2>3. r.mode = "SIGIGN" => Entry[r.sig] = SIG_ERR
    BY <1>3, <1>6
  <2>4. ~ (r.mode = "SIGDFL" /\ Entry[r.sig] # SIG_ERR)
    BY <1>3, <1>6
  <2>5. Entry = [Entry EXCEPT ![r.sig] = Entry[r.sig]]
    BY DEF Entry
  <2> QED
    BY <1>2, <1>6, <2>1, <2>2, <2>3, <2>4, <2>5
<1> QED
  BY <1>4, <1>5, <1>6

\* The answer the first caller in order is given
Reply(r) == IF r.mode = "SIGSET" THEN 0 ELSE Entry[r.sig]

LEMMA ServeStep ==
  ASSUME IInv, Serve
  PROVE  /\ IInv'
         /\ \E c \in Clients :
              LET r == call[c]
              IN /\ r \in Requests /\ own[c] = <<>> /\ Reply(r) \in Answer
                 /\ own' = [own EXCEPT ![c] = <<Reply(r)>>]
                 /\ Entry' = [Entry EXCEPT ![r.sig] =
                      CASE r.mode = "SIGSET" -> r.func
                        [] r.mode = "SIGDFL" /\ Entry[r.sig] # SIG_ERR -> signal_default
                        [] r.mode = "SIGIGN" -> SIG_ERR
                        [] OTHER -> Entry[r.sig]]
                 /\ UNCHANGED <<queue, call, todo, ret>>
<1>1. Shape /\ Phases
  BY DEF IInv
<1>2. PICK order, words : Aligned(order, words)
  BY DEF IInv
<1>3. /\ Len(got) > 2 /\ Len(got) = Needed(got)
      /\ Change(got[1], got[3])
      /\ own' = [own EXCEPT ![got[2]] = Append(own[got[2]],
           IF got[1] = "SIGSET" THEN 0
           ELSE IF flags[got[3]] = STATE_LEGAL THEN handler[got[3]] ELSE SIG_ERR)]
      /\ got' = <<>>
      /\ UNCHANGED <<queue, call, todo, ret>>
  BY DEF Serve
<1>4. /\ order # <<>> /\ order[1] \in Clients /\ call[order[1]] \in Requests
      /\ got = Words(order[1], call[order[1]])
      /\ Tail(order) \in Seq(Clients)
      /\ queue \o words = FlattenSeq(Flow(Tail(order), call))
  BY <1>1, <1>2, <1>3, WholeRequest
<1>5. PICK c \in Clients, r \in Requests : c = order[1] /\ r = call[c] /\ got = Words(c, r)
  BY <1>4
<1>6. order \in Seq(Clients) /\ words \in Seq(Word) /\ Len(order) \in Nat \ {0}
  BY <1>2, <1>4, EmptySeq DEF Aligned
<1>7. c \in Unanswered /\ own[c] = <<>> /\ call[c] # NoCall
  <2>1. 1 \in 1 .. Len(order)
    BY <1>6
  <2>2. c \in Unanswered
    BY <1>2, <1>5, <2>1 DEF Aligned, Ordered
  <2> QED BY <2>2 DEF Unanswered
<1>8. got[1] = r.mode /\ got[2] = c /\ got[3] = r.sig /\ r.sig \in Signals
  BY <1>5, WordsFacts, RequestFacts
<1>9. Reply(r) \in Answer
  BY <1>1, <1>8 DEF Reply, Entry, Answer, Shape
<1>10. own' = [own EXCEPT ![c] = <<Reply(r)>>]
  <2>1. Append(<<>>, Reply(r)) = <<Reply(r)>>
    OBVIOUS
  <2>2. Reply(r) = IF r.mode = "SIGSET" THEN 0
                   ELSE IF flags[r.sig] = STATE_LEGAL THEN handler[r.sig] ELSE SIG_ERR
    BY <1>8 DEF Reply, Entry
  <2> QED
    BY <1>3, <1>7, <1>8, <2>1, <2>2
<1>11. /\ handler' \in [Signals -> Handlers \union {signal_default, NULL}]
       /\ flags' \in [Signals -> {STATE_ILEGAL, STATE_LEGAL}]
       /\ \A s \in Signals : flags'[s] = STATE_LEGAL =>
            handler'[s] \in Handlers \union {signal_default}
       /\ Entry' = [Entry EXCEPT ![r.sig] =
            CASE r.mode = "SIGSET" -> r.func
              [] r.mode = "SIGDFL" /\ Entry[r.sig] # SIG_ERR -> signal_default
              [] r.mode = "SIGIGN" -> SIG_ERR
              [] OTHER -> Entry[r.sig]]
  BY <1>1, <1>3, <1>5, <1>8, ChangeFacts
<1>12. /\ own'[c] = <<Reply(r)>> /\ Len(own'[c]) = 1 /\ own'[c] \in Seq(Answer)
       /\ own'[c] # <<>>
       /\ \A d \in Clients : d # c => own'[d] = own[d]
  <2>1. own'[c] = <<Reply(r)>> /\ \A d \in Clients : d # c => own'[d] = own[d]
    BY <1>1, <1>10 DEF Shape
  <2>2. Len(<<Reply(r)>>) = 1 /\ <<Reply(r)>> \in Seq(Answer) /\ <<Reply(r)>> # <<>>
    BY <1>9
  <2> QED BY <2>1, <2>2
<1>13. Shape'
  <2>1. own' \in [Clients -> Seq(Answer)] /\ \A d \in Clients : Len(own'[d]) <= 1
    BY <1>1, <1>10, <1>12 DEF Shape
  <2>2. got' \in Seq(Word) /\ Len(got') <= 4
    BY <1>3, EmptySeq
  <2> QED
    BY <1>1, <1>3, <1>11, <2>1, <2>2 DEF Shape
<1>14. todo[c] = <<>>
  <2> SUFFICES ASSUME todo[c] # <<>> PROVE FALSE
    OBVIOUS
  <2>1. order[Len(order)] = order[1] /\ words = todo[c]
    BY <1>2, <1>5 DEF Aligned, Unwritten, Latest
  <2>2. Len(order) = 1
    <3>1. 1 \in 1 .. Len(order) /\ Len(order) \in 1 .. Len(order)
      BY <1>6
    <3> QED BY <1>2, <2>1, <3>1 DEF Aligned, Ordered
  <2>3. Len(Tail(order)) = 0
    BY <1>4, <1>6, <2>2, HeadTailProperties
  <2>4. Tail(order) = <<>>
    BY <1>4, <2>3, EmptySeq
  <2>5. queue \o words = <<>>
    BY <1>4, <2>4, FlowEmpty
  <2>6. words = <<>>
    <3>1. queue \in Seq(Word)
      BY <1>1 DEF Shape
    <3> QED BY <1>6, <2>5, <3>1, ConcatEqualIffEmpty
  <2> QED BY <2>1, <2>6
<1>15. Phases'
  BY <1>1, <1>3, <1>7, <1>12, <1>14 DEF Phases
<1>16. PICK n \in Nat, t \in Seq(Clients) :
         /\ t = Tail(order) /\ Len(order) = n + 1 /\ Len(t) = n
         /\ \A i \in 1 .. n : t[i] = order[i + 1]
  <2>1. /\ Tail(order) \in Seq(Clients) /\ Len(Tail(order)) = Len(order) - 1
        /\ \A i \in 1 .. Len(Tail(order)) : Tail(order)[i] = order[i + 1]
    BY <1>4, <1>6, HeadTailProperties
  <2>2. Len(order) - 1 \in Nat /\ Len(order) = (Len(order) - 1) + 1
    BY <1>6
  <2> QED BY <2>1, <2>2
<1>17. Unanswered' = Unanswered \ {c}
  BY <1>3, <1>7, <1>12 DEF Unanswered
<1>18. Ordered(t)'
  <2>1. /\ \A i, j \in 1 .. n + 1 : order[i] = order[j] => i = j
        /\ \A x : x \in Unanswered <=> \E i \in 1 .. n + 1 : order[i] = x
    BY <1>2, <1>16 DEF Aligned, Ordered
  <2>2. \A i \in 1 .. n : i + 1 \in 1 .. n + 1 /\ i + 1 # 1
    OBVIOUS
  <2>3. 1 \in 1 .. n + 1 /\ order[1] = c
    BY <1>5, <1>16
  <2>4. ASSUME NEW i \in 1 .. n, NEW j \in 1 .. n, t[i] = t[j] PROVE i = j
    <3>1. i + 1 = j + 1
      BY <1>16, <2>1, <2>2, <2>4
    <3> QED BY <3>1
  <2>5. ASSUME NEW i \in 1 .. n PROVE t[i] \in Unanswered \ {c}
    <3>1. t[i] = order[i + 1] /\ i + 1 \in 1 .. n + 1 /\ i + 1 # 1
      BY <1>16, <2>2
    <3> QED BY <2>1, <2>3, <3>1
  <2>6. ASSUME NEW x \in Unanswered, x # c PROVE \E i \in 1 .. n : t[i] = x
    <3>1. PICK j \in 1 .. n + 1 : order[j] = x
      BY <2>1
    <3>2. j # 1
      BY <2>3, <2>6, <3>1
    <3>3. j - 1 \in 1 .. n /\ (j - 1) + 1 = j
      BY <3>2
    <3> QED BY <1>16, <3>1, <3>3
  <2>7. \A x : x \in Unanswered' <=> \E i \in 1 .. n : t[i] = x
    BY <1>17, <2>5, <2>6
  <2> QED BY <1>16, <2>4, <2>7 DEF Ordered
<1>19. Latest(t)'
  <2> SUFFICES ASSUME NEW d \in Clients, todo[d] # <<>> PROVE t # <<>> /\ t[Len(t)] = d
    BY <1>3 DEF Latest
  <2>1. order[n + 1] = d /\ order[1] = c /\ d # c
    BY <1>2, <1>5, <1>14, <1>16 DEF Aligned, Latest
  <2>2. n # 0
    BY <2>1
  <2>3. n \in 1 .. n
    BY <2>2
  <2> QED BY <1>16, <2>1, <2>2, <2>3, EmptySeq
<1>20. Aligned(t, words)'
  <2>1. (<<>> \o queue) \o words = FlattenSeq(Flow(t, call))
    <3>1. queue \in Seq(Word)
      BY <1>1 DEF Shape
    <3>2. <<>> \o queue = queue
      BY <3>1, ConcatEmptySeq
    <3> QED BY <1>4, <1>16, <3>2
  <2>2. ((got \o queue) \o words = FlattenSeq(Flow(t, call)))'
    BY <1>3, <2>1
  <2>3. Unwritten(words)'
    BY <1>2, <1>3 DEF Aligned, Unwritten
  <2> QED BY <1>6, <1>18, <1>19, <2>2, <2>3 DEF Aligned
<1>21. IInv'
  BY <1>13, <1>15, <1>20 DEF IInv
<1>22. call[c] = r /\ own[c] = <<>>
  BY <1>5, <1>7
<1> QED
  BY <1>3, <1>9, <1>10, <1>11, <1>21, <1>22

LEMMA StepIInv ==
  ASSUME Turns
  PROVE  IInv /\ [Next]_vars => IInv'
<1> SUFFICES ASSUME IInv, [Next]_vars PROVE IInv'
  OBVIOUS
<1>1. ASSUME NEW c \in Clients, NEW r \in Requests, Begin(c, r) PROVE IInv'
  BY <1>1, BeginStep
<1>2. ASSUME NEW c \in Clients, WriteWord(c) PROVE IInv'
  BY <1>2, WriteStep
<1>3. ASSUME NEW c \in Clients, Return(c) PROVE IInv'
  BY <1>3, ReturnStep
<1>4. CASE ReadWord
  BY <1>4, ReadStep
<1>5. CASE Serve
  BY <1>5, ServeStep
<1>6. CASE UNCHANGED vars
  BY <1>6 DEF vars, IInv, Shape, Phases, Aligned, Ordered, Unwritten, Latest, Unanswered
<1> QED
  BY <1>1, <1>2, <1>3, <1>4, <1>5, <1>6 DEF Next

LEMMA Inductive ==
  ASSUME Turns
  PROVE  Spec => []IInv
<1>1. IInv /\ [Next]_vars => IInv'
  BY StepIInv
<1> QED
  BY <1>1, InitIInv, PTL DEF Spec

-----------------------------------------------------------------------------
(* The theorems *)

\* The FIFOs hold no more than they have room for, the server reads no more than a
\* request, and a client's own FIFO never holds more than the one answer it waits
\* for, so the server is never blocked by a client that does not read.
THEOREM SignalTypes ==
  ASSUME Turns
  PROVE  Spec => []TypeOK
<1>1. IInv => TypeOK
  <2> SUFFICES ASSUME IInv PROVE TypeOK
    OBVIOUS
  <2>1. Shape
    BY DEF IInv
  <2>2. ASSUME NEW c \in Clients PROVE Len(own[c]) <= Room
    <3>1. Len(own[c]) \in Nat /\ Len(own[c]) <= 1 /\ Room \in Nat \ {0}
      BY <2>1, LenProperties, SignalsAssumption DEF Shape
    <3> QED BY <3>1
  <2>3. DOMAIN ret = Clients
    BY <2>1 DEF Shape
  <2> QED
    BY <2>1, <2>2, <2>3 DEF TypeOK, Shape
<1> QED
  BY <1>1, Inductive, PTL

\* However the writes of the callers and the reads of the server fall, the words
\* read, queued and unwritten are whole requests, one behind the other: signal.c's
\* separate writes are safe as long as the callers take turns while they write.
THEOREM AlwaysInStep ==
  ASSUME Turns
  PROVE  Spec => []InStep
<1>1. IInv => InStep
  <2> SUFFICES ASSUME IInv PROVE InStep
    OBVIOUS
  <2>1. Shape /\ Phases
    BY DEF IInv
  <2>2. PICK order, words : Aligned(order, words)
    BY DEF IInv
  <2>3. order \in SetToSeqs(Unanswered)
    BY <2>2, OrderIsSeq DEF Aligned, Ordered
  <2>4. FlattenSeq(SetToSeq({todo[c] : c \in {d \in Clients : todo[d] # <<>>}})) = words
    <3>1. CASE \A c \in Clients : todo[c] = <<>>
      <4>1. {todo[c] : c \in {d \in Clients : todo[d] # <<>>}} = {}
        BY <3>1
      <4> QED BY <2>2, <3>1, <4>1, SeqOfNone, FlattenOne, EmptySeq DEF Aligned, Unwritten
    <3>2. CASE \E c \in Clients : todo[c] # <<>>
      <4>1. PICK c \in Clients : todo[c] # <<>> /\ words = todo[c]
        BY <2>2, <3>2 DEF Aligned, Unwritten
      <4>2. {d \in Clients : todo[d] # <<>>} = {c}
        BY <2>1, <4>1 DEF Phases
      <4>3. {todo[d] : d \in {d \in Clients : todo[d] # <<>>}} = {words}
        BY <4>1, <4>2
      <4> QED BY <2>2, <4>3, SeqOfOne, FlattenOne DEF Aligned
    <3> QED BY <3>1, <3>2
  <2>5. (got \o queue) \o words = FlattenSeq([i \in DOMAIN order |-> Words(order[i], call[order[i]])])
    BY <2>2 DEF Aligned, Flow
  <2> QED
    BY <2>3, <2>4, <2>5 DEF InStep
<1> QED
  BY <1>1, Inductive, PTL

\* The answer that waits in each client's FIFO
Outcome == [c \in Clients |-> IF own[c] = <<>> THEN NULL ELSE Head(own[c])]

\* Requests in pieces amount to calls on one table of handlers: each takes effect
\* at one moment between its start and its return, and it returns what was there at
\* that moment.  This is ImplementsTable.
THEOREM CallsOnOneTable ==
  ASSUME Turns
  PROVE  Spec => ImplementsTable
<1>1. Init => Table!Init
  <2> SUFFICES ASSUME Init PROVE Table!Init
    OBVIOUS
  <2>1. Entry = [s \in Signals |-> SIG_ERR]
    BY DEF Init, Entry, STATE_ILEGAL, STATE_LEGAL
  <2>2. Outcome = [c \in Clients |-> NULL]
    BY DEF Init, Outcome
  <2> QED
    BY <2>1, <2>2 DEF Init, Entry, Outcome, Table!Init, Table!NoCall, Table!Request,
      Table!Result, NoCall, Request
<1>2. IInv /\ [Next]_vars => [Table!Next]_(Table!vars)
  <2> SUFFICES ASSUME IInv, [Next]_vars PROVE [Table!Next]_(Table!vars)
    OBVIOUS
  <2>1. Shape /\ Phases
    BY DEF IInv
  <2>2. ASSUME NEW c \in Clients, NEW r \in Requests, Begin(c, r) PROVE Table!Next
    <3>1. Table!NoCall = NoCall /\ r \in Table!Requests
      <4>1. Modes \ {"SIGSET"} = {"SIGDFL", "SIGIGN", "SIGRAISE"}
        BY DEF Modes
      <4> QED BY <4>1 DEF Table!Requests, Requests, Table!Request, Request, Table!NoCall, NoCall
    <3>2. /\ call[c] = NoCall /\ call' = [call EXCEPT ![c] = r]
          /\ UNCHANGED <<handler, flags, own, ret>>
      BY <2>2 DEF Begin, server
    <3>3. UNCHANGED Entry /\ UNCHANGED Outcome
      BY <3>2 DEF Entry, Outcome
    <3>4. Table!Begin(c)
      BY <3>1, <3>2, <3>3 DEF Table!Begin, Entry, Outcome
    <3> QED BY <3>4 DEF Table!Next
  <2>3. ASSUME NEW c \in Clients, WriteWord(c) PROVE UNCHANGED Table!vars
    BY <2>3 DEF WriteWord, server, Table!vars
  <2>4. ASSUME NEW c \in Clients, Return(c) PROVE Table!Next
    <3>1. own[c] = <<Head(own[c])>> /\ own'[c] = <<>>
      BY <2>4, ReturnStep
    <3>2. Outcome[c] = Head(own[c]) /\ Head(own[c]) # NULL
      <4>1. Head(own[c]) \in Answer
        BY <2>1, <3>1, ElementOfSeq DEF Shape
      <4> QED BY <3>1, <4>1, SignalsAssumption DEF Answer, Outcome
    <3>3. Outcome' = [Outcome EXCEPT ![c] = NULL]
      <4>1. \A d \in Clients : d # c => own'[d] = own[d]
        BY <2>1, <2>4 DEF Return, Shape
      <4> QED BY <3>1, <4>1 DEF Outcome
    <3>4. UNCHANGED Entry
      BY <2>4 DEF Return, server, Entry
    <3>5. Table!Return(c)
      BY <2>4, <3>2, <3>3, <3>4 DEF Return, Table!Return, Outcome, Entry, Table!Result,
        Table!NoCall, Table!Request, NoCall, Request
    <3> QED BY <3>5 DEF Table!Next
  <2>5. CASE ReadWord
    BY <2>5 DEF ReadWord, Table!vars
  <2>6. ASSUME Serve PROVE Table!Next
    <3>1. PICK c \in Clients :
            LET r == call[c]
            IN /\ r \in Requests /\ own[c] = <<>> /\ Reply(r) \in Answer
               /\ own' = [own EXCEPT ![c] = <<Reply(r)>>]
               /\ Entry' = [Entry EXCEPT ![r.sig] =
                    CASE r.mode = "SIGSET" -> r.func
                      [] r.mode = "SIGDFL" /\ Entry[r.sig] # SIG_ERR -> signal_default
                      [] r.mode = "SIGIGN" -> SIG_ERR
                      [] OTHER -> Entry[r.sig]]
               /\ UNCHANGED <<queue, call, todo, ret>>
      BY <2>6, ServeStep
    <3>2. call[c] # NoCall /\ Outcome[c] = NULL
      BY <3>1, RequestFacts DEF Outcome
    <3>3. Outcome' = [Outcome EXCEPT ![c] = Reply(call[c])]
      <4>1. own'[c] = <<Reply(call[c])>> /\ \A d \in Clients : d # c => own'[d] = own[d]
        BY <2>1, <3>1 DEF Shape
      <4>2. <<Reply(call[c])>> # <<>> /\ Head(<<Reply(call[c])>>) = Reply(call[c])
        OBVIOUS
      <4> QED BY <4>1, <4>2 DEF Outcome
    <3>4. Table!Apply(c)
      BY <3>1, <3>2, <3>3 DEF Table!Apply, Reply, Entry, Outcome,
        Table!NoCall, Table!Request, NoCall, Request
    <3> QED BY <3>4 DEF Table!Next
  <2>7. CASE UNCHANGED vars
    BY <2>7 DEF vars, Table!vars
  <2> QED
    BY <2>2, <2>3, <2>4, <2>5, <2>6, <2>7 DEF Next
<1> QED
  BY <1>1, <1>2, Inductive, PTL DEF Spec, ImplementsTable, Table!Spec
=============================================================================
