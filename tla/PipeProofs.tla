----------------------------- MODULE PipeProofs -----------------------------
(***************************************************************************)
(* What the ring buffer of a FIFO or message queue does for any size,      *)
(* length word and bytes: it is a bounded queue, its loops stay within it, *)
(* and reads return what was written, whole and in order.                  *)
(***************************************************************************)
EXTENDS Pipe, ListProofs

\* PIPE_LEN, Slot and Content as operators on the indices and the array
Between(s, e) == (e - s) + (IF e < s THEN PIPE_BUF ELSE 0)
At(s, i) == IF s + i - 1 >= PIPE_BUF THEN s + i - 1 - PIPE_BUF ELSE s + i - 1
Bytes(s, e, d) == [i \in 1 .. Between(s, e) |-> d[At(s, i)]]

Octet == 0 .. 255
Arrays == [Slots -> Octet]

LEMMA BytesFacts ==
  ASSUME NEW s \in Slots, NEW e \in Slots, NEW d \in Arrays
  PROVE  /\ Between(s, e) \in 0 .. PIPE_BUF - 1
         /\ \A i \in 1 .. Between(s, e) : At(s, i) \in Slots
         /\ Bytes(s, e, d) \in Seq(Octet)
         /\ Len(Bytes(s, e, d)) = Between(s, e)
<1>1. Between(s, e) \in 0 .. PIPE_BUF - 1
  BY PipeAssumption DEF Between, Slots
<1>2. ASSUME NEW i \in 1 .. Between(s, e) PROVE At(s, i) \in Slots
  BY PipeAssumption, <1>1 DEF At, Slots
<1> HIDE DEF Between, At
<1>3. \A i \in 1 .. Between(s, e) : d[At(s, i)] \in Octet
  BY <1>2 DEF Arrays
<1>4. Bytes(s, e, d) \in Seq(Octet) /\ Len(Bytes(s, e, d)) = Between(s, e)
  BY <1>1, <1>3, IsASeq DEF Bytes
<1> QED
  BY <1>1, <1>2, <1>4

LEMMA PutByte ==
  ASSUME NEW s \in Slots, NEW e \in Slots, NEW d \in Arrays, NEW b \in Octet,
         Between(s, e) < PIPE_BUF - 1
  PROVE  /\ Wrapped(e + 1) \in Slots
         /\ Between(s, Wrapped(e + 1)) = Between(s, e) + 1
         /\ Bytes(s, Wrapped(e + 1), [d EXCEPT ![e] = b]) = Append(Bytes(s, e, d), b)
<1> DEFINE f == Wrapped(e + 1)
           n == Between(s, e)
           c == [d EXCEPT ![e] = b]
<1>1. f \in Slots
  BY PipeAssumption DEF Wrapped, Slots
<1>2. Between(s, f) = n + 1
  BY PipeAssumption DEF Wrapped, Slots, Between
<1>3. At(s, n + 1) = e
  BY PipeAssumption DEF At, Between, Slots
<1>4. ASSUME NEW i \in 1 .. n PROVE At(s, i) # e
  BY PipeAssumption DEF At, Between, Slots
<1>5. /\ n \in 0 .. PIPE_BUF - 1 /\ \A i \in 1 .. n : At(s, i) \in Slots
      /\ Bytes(s, e, d) \in Seq(Octet) /\ Len(Bytes(s, e, d)) = n
  BY BytesFacts
<1>6. c \in Arrays /\ c[e] = b /\ \A i \in 1 .. n : c[At(s, i)] = d[At(s, i)]
  BY <1>4, <1>5 DEF Arrays
<1>7. /\ Bytes(s, f, c) \in Seq(Octet) /\ Len(Bytes(s, f, c)) = n + 1
  BY <1>1, <1>2, <1>6, BytesFacts
<1> DEFINE more == Append(Bytes(s, e, d), b)
<1>8. /\ more \in Seq(Octet) /\ Len(more) = n + 1 /\ more[n + 1] = b
      /\ \A i \in 1 .. n : more[i] = Bytes(s, e, d)[i]
  BY <1>5, AppendProperties
<1> HIDE DEF f, n, c, more
<1>9. ASSUME NEW i \in 1 .. n + 1 PROVE Bytes(s, f, c)[i] = more[i]
  <2>1. Bytes(s, f, c)[i] = c[At(s, i)]
    BY <1>2 DEF Bytes
  <2>2. CASE i = n + 1
    BY <2>1, <2>2, <1>3, <1>6, <1>8
  <2>3. CASE i \in 1 .. n
    <3>1. Bytes(s, e, d)[i] = d[At(s, i)]
      BY <2>3 DEF Bytes, n
    <3> QED BY <2>1, <2>3, <3>1, <1>6, <1>8
  <2> QED BY <2>2, <2>3, <1>5
<1>10. Bytes(s, f, c) = more
  BY <1>7, <1>8, <1>9, SeqEqual
<1> QED
  BY <1>1, <1>2, <1>10 DEF f, n, c, more

LEMMA TakeByte ==
  ASSUME NEW s \in Slots, NEW e \in Slots, NEW d \in Arrays,
         Between(s, e) > 0
  PROVE  /\ Wrapped(s + 1) \in Slots
         /\ d[s] \in Octet
         /\ Between(Wrapped(s + 1), e) = Between(s, e) - 1
         /\ Bytes(s, e, d) # <<>>
         /\ Head(Bytes(s, e, d)) = d[s]
         /\ Tail(Bytes(s, e, d)) = Bytes(Wrapped(s + 1), e, d)
<1> DEFINE f == Wrapped(s + 1)
           n == Between(s, e)
           b == Bytes(s, e, d)
<1>1. f \in Slots
  BY PipeAssumption DEF Wrapped, Slots
<1>2. Between(f, e) = n - 1
  BY PipeAssumption DEF Wrapped, Slots, Between
<1>3. At(s, 1) = s
  BY PipeAssumption DEF At, Slots
<1>4. ASSUME NEW i \in 1 .. n - 1 PROVE At(f, i) = At(s, i + 1)
  BY PipeAssumption DEF At, Between, Slots, Wrapped
<1>5. n \in 0 .. PIPE_BUF - 1 /\ b \in Seq(Octet) /\ Len(b) = n
  BY BytesFacts
<1>6. Bytes(f, e, d) \in Seq(Octet) /\ Len(Bytes(f, e, d)) = n - 1
  BY <1>1, <1>2, BytesFacts
<1>7. n > 0
  OBVIOUS
<1>8. b[1] = d[s]
  BY <1>3, <1>5, <1>7 DEF Bytes
<1> HIDE DEF f, n, b
<1>9. b # <<>>
  BY <1>5, <1>7, EmptySeq
<1>10. /\ Tail(b) \in Seq(Octet) /\ Len(Tail(b)) = n - 1
       /\ \A i \in 1 .. n - 1 : Tail(b)[i] = b[i + 1]
  BY <1>5, <1>9, HeadTailProperties
<1>11. ASSUME NEW i \in 1 .. n - 1 PROVE Tail(b)[i] = Bytes(f, e, d)[i]
  <2>1. Bytes(f, e, d)[i] = d[At(f, i)]
    BY <1>2 DEF Bytes
  <2>2. i + 1 \in 1 .. n
    BY <1>5
  <2>3. b[i + 1] = d[At(s, i + 1)]
    BY <2>2 DEF b, Bytes, n
  <2> QED
    BY <2>1, <2>3, <1>4, <1>10
<1>12. Tail(b) = Bytes(f, e, d)
  BY <1>6, <1>10, <1>11, SeqEqual
<1>13. Head(b) = d[s]
  BY <1>8
<1>14. d[s] \in Octet
  BY DEF Arrays
<1> QED
  BY <1>1, <1>2, <1>9, <1>12, <1>13, <1>14 DEF f, n, b

-----------------------------------------------------------------------------
(* The frames of a message queue *)

Messages == {m \in Seq(Byte) : Len(m) <= 255}
Frame(m) == Encode(Len(m)) \o m
Frames(ms) == [i \in DOMAIN ms |-> Frame(ms[i])]

LEMMA FrameFacts ==
  ASSUME NEW m \in Messages
  PROVE  /\ m \in Seq(Octet) /\ Len(m) \in 0 .. 255
         /\ Encode(Len(m)) \in Seq(Octet)
         /\ Len(Encode(Len(m))) = HEADER
         /\ Decode(Encode(Len(m))) = Len(m)
         /\ Frame(m) \in Seq(Octet)
<1>1. m \in Seq(Octet) /\ Len(m) \in 0 .. 255
  <2>1. m \in Seq(Byte) /\ Byte \subseteq Octet /\ Len(m) <= 255
    BY PipeAssumption DEF Messages, Octet
  <2> QED
    <3>1. m \in Seq(Octet)
      BY <2>1, SeqMonotonic
    <3>2. Len(m) \in Nat
      BY <2>1, LenProperties
    <3>3. \A k \in Nat : k <= 255 => k \in 0 .. 255
      OBVIOUS
    <3>4. Len(m) \in 0 .. 255
      BY <2>1, <3>2, <3>3, Zenon
    <3> QED BY <3>1, <3>4
<1>2. PICK n \in 0 .. 255 : n = Len(m)
  BY <1>1
<1>3. Encode(n) \in Seq(Octet) /\ Len(Encode(n)) = HEADER
  <2>1. HEADER \in Nat /\ \A i \in 1 .. HEADER : (IF i = 1 THEN n ELSE 0) \in Octet
    BY PipeAssumption DEF Octet
  <2> QED BY <2>1, IsASeq DEF Encode
<1>4. Decode(Encode(n)) = n
  BY PipeAssumption DEF Decode, Encode
<1>5. Frame(m) \in Seq(Octet)
  BY <1>1, <1>2, <1>3, ConcatProperties DEF Frame
<1> QED
  BY <1>1, <1>2, <1>3, <1>4, <1>5

LEMMA FramesFacts ==
  ASSUME NEW ms \in Seq(Messages)
  PROVE  /\ Frames(ms) \in Seq(Seq(Octet))
         /\ \A m \in Messages : Frames(Append(ms, m)) = Append(Frames(ms), Frame(m))
         /\ ms = <<>> => FlattenSeq(Frames(ms)) = <<>>
         /\ ms # <<>> =>
              FlattenSeq(Frames(ms)) = Frame(Head(ms)) \o FlattenSeq(Frames(Tail(ms)))
<1> HIDE DEF Messages, Frame
<1>1. ASSUME NEW t \in Seq(Messages)
      PROVE  Frames(t) \in Seq(Seq(Octet)) /\ Len(Frames(t)) = Len(t)
  <2>1. PICK n \in Nat : n = Len(t) /\ DOMAIN t = 1 .. n
    BY LenProperties
  <2>2. \A i \in 1 .. n : Frame(t[i]) \in Seq(Octet)
    BY <2>1, ElementOfSeq, FrameFacts
  <2>3. [i \in 1 .. n |-> Frame(t[i])] \in Seq(Seq(Octet))
    BY <2>2, IsASeq
  <2> QED
    BY <2>1, <2>3 DEF Frames
<1>2. ASSUME NEW m \in Messages
      PROVE  Frames(Append(ms, m)) = Append(Frames(ms), Frame(m))
  <2>1. PICK n \in Nat : n = Len(ms) /\ DOMAIN ms = 1 .. n
    BY LenProperties
  <2>2. PICK t \in Seq(Messages) : t = Append(ms, m)
    BY AppendProperties
  <2>3. /\ Len(t) = n + 1 /\ \A i \in 1 .. n : t[i] = ms[i]
        /\ t[n + 1] = m /\ DOMAIN t = 1 .. n + 1
    BY <2>1, <2>2, AppendProperties, LenProperties
  <2>4. PICK f \in Seq(Seq(Octet)) : f = Frames(ms) /\ Len(f) = n
    BY <1>1, <2>1
  <2>5. Frame(m) \in Seq(Octet)
    BY FrameFacts
  <2>6. /\ Append(f, Frame(m)) \in Seq(Seq(Octet)) /\ Len(Append(f, Frame(m))) = n + 1
        /\ \A i \in 1 .. n : Append(f, Frame(m))[i] = f[i]
        /\ Append(f, Frame(m))[n + 1] = Frame(m)
    BY <2>4, <2>5, AppendProperties
  <2>7. Frames(t) \in Seq(Seq(Octet)) /\ Len(Frames(t)) = n + 1
    BY <1>1, <2>3
  <2>8. ASSUME NEW i \in 1 .. n + 1 PROVE Frames(t)[i] = Append(f, Frame(m))[i]
    <3>1. Frames(t)[i] = Frame(t[i])
      BY <2>3 DEF Frames
    <3>2. CASE i = n + 1
      BY <3>1, <3>2, <2>3, <2>6
    <3>3. CASE i \in 1 .. n
      <4>1. f[i] = Frame(ms[i])
        BY <2>1, <2>4, <3>3 DEF Frames
      <4> QED
        BY <3>1, <3>3, <4>1, <2>3, <2>6
    <3>4. i = n + 1 \/ i \in 1 .. n
      OBVIOUS
    <3> QED BY <3>2, <3>3, <3>4
  <2>9. Frames(t) = Append(f, Frame(m))
    BY <2>6, <2>7, <2>8, SeqEqual
  <2> QED
    BY <2>2, <2>4, <2>9
<1>3. ASSUME ms = <<>> PROVE FlattenSeq(Frames(ms)) = <<>>
  <2>1. Len(Frames(ms)) = 0 /\ Frames(ms) \in Seq(Seq(Octet))
    BY <1>1, <1>3, EmptySeq
  <2>2. Frames(ms) = <<>>
    BY <2>1, EmptySeq
  <2> QED
    BY <2>2 DEF FlattenSeq
<1>4. ASSUME ms # <<>>
      PROVE  FlattenSeq(Frames(ms)) = Frame(Head(ms)) \o FlattenSeq(Frames(Tail(ms)))
  <2>1. PICK t \in Seq(Messages) :
          t = Tail(ms) /\ Len(t) = Len(ms) - 1 /\ \A i \in 1 .. Len(t) : t[i] = ms[i + 1]
    BY <1>4, HeadTailProperties
  <2>2. PICK n \in Nat : Len(ms) = n + 1 /\ Len(t) = n /\ DOMAIN ms = 1 .. n + 1
                         /\ DOMAIN t = 1 .. n
    <3>1. Len(ms) \in Nat /\ Len(ms) # 0 /\ DOMAIN ms = 1 .. Len(ms) /\ DOMAIN t = 1 .. Len(t)
      BY <1>4, EmptySeq, LenProperties
    <3>2. Len(ms) - 1 \in Nat /\ Len(ms) = (Len(ms) - 1) + 1
      BY <3>1
    <3> QED BY <3>1, <3>2, <2>1
  <2>3. PICK f \in Seq(Seq(Octet)) : f = Frames(ms) /\ Len(f) = n + 1
    BY <1>1, <2>2
  <2>4. f # <<>>
    BY <2>2, <2>3, EmptySeq
  <2>5. Frames(t) \in Seq(Seq(Octet)) /\ Len(Frames(t)) = n
    BY <1>1, <2>2
  <2>6. /\ Tail(f) \in Seq(Seq(Octet)) /\ Len(Tail(f)) = n
        /\ \A i \in 1 .. n : Tail(f)[i] = f[i + 1]
    BY <2>3, <2>4, HeadTailProperties
  <2>7. ASSUME NEW i \in 1 .. n PROVE Tail(f)[i] = Frames(t)[i]
    <3>1. Frames(t)[i] = Frame(t[i]) /\ t[i] = ms[i + 1]
      BY <2>1, <2>2 DEF Frames
    <3>2. i + 1 \in 1 .. n + 1
      OBVIOUS
    <3>3. f[i + 1] = Frame(ms[i + 1])
      BY <3>2, <2>2, <2>3 DEF Frames
    <3> QED BY <3>1, <3>3, <2>6
  <2>8. Tail(f) = Frames(t)
    BY <2>5, <2>6, <2>7, SeqEqual
  <2>9. Head(f) = Frame(Head(ms))
    <3>1. f[1] = Frame(ms[1])
      BY <2>2, <2>3 DEF Frames
    <3> QED BY <3>1
  <2>10. FlattenSeq(f) = Head(f) \o FlattenSeq(Tail(f))
    BY <2>4, FlattenHead
  <2> QED
    BY <2>1, <2>3, <2>8, <2>9, <2>10
<1> QED
  BY <1>1, <1>2, <1>3, <1>4

-----------------------------------------------------------------------------
(* The inductive invariant *)

\* The bytes that were written and not yet read, as they were put
Stream == IF kind = "fifo" THEN msgs ELSE FlattenSeq(Frames(msgs))

Shape ==
  /\ kind \in {"fifo", "mq"}
  /\ op \in {"idle", "push", "length", "pop"} /\ (op = "length" => kind = "mq")
  /\ start \in Slots /\ end \in Slots /\ data \in Arrays
  /\ todo \in Seq(Octet) /\ got \in Seq(Octet) /\ want \in Nat
  /\ kind = "fifo" => msgs \in Seq(Byte)
  /\ kind = "mq" => msgs \in Seq(Messages)

\* What a loop has still to do, it can do
Within ==
  /\ op = "push" => PIPE_LEN + Len(todo) <= PIPE_BUF - 1
  /\ op \in {"length", "pop"} => want <= PIPE_LEN

\* The stream is cut at the place the loop has come to.
Cut ==
  /\ op # "push" => todo = <<>>
  /\ op \in {"idle", "push"} => got = <<>> /\ Content \o todo = Stream
  /\ op = "length" \/ (op = "pop" /\ kind = "fifo") => got \o Content = Stream
  /\ op = "length" => msgs # <<>> /\ Len(got) + want = HEADER
  /\ op = "pop" /\ kind = "mq" =>
       /\ msgs # <<>> /\ Len(got) + want = Len(Head(msgs))
       /\ Encode(Len(Head(msgs))) \o (got \o Content) = Stream

IInv == Shape /\ Within /\ Cut

LEMMA ContentFacts ==
  Shape => /\ Content \in Seq(Octet) /\ Len(Content) = PIPE_LEN
           /\ PIPE_LEN \in 0 .. PIPE_BUF - 1
           /\ Content = Bytes(start, end, data) /\ PIPE_LEN = Between(start, end)
<1>1. Content = Bytes(start, end, data) /\ PIPE_LEN = Between(start, end)
  BY DEF Content, PIPE_PEEK, PIPE_LEN, Slot, Bytes, At, Between
<1> QED
  BY <1>1, BytesFacts DEF Shape

LEMMA StreamFacts ==
  Shape => /\ Stream \in Seq(Octet)
           /\ msgs = <<>> => Stream = <<>>
           /\ kind = "mq" /\ msgs # <<>> =>
                /\ Head(msgs) \in Messages /\ Tail(msgs) \in Seq(Messages)
                /\ FlattenSeq(Frames(Tail(msgs))) \in Seq(Octet)
                /\ Stream = Frame(Head(msgs)) \o FlattenSeq(Frames(Tail(msgs)))
<1> SUFFICES ASSUME Shape
             PROVE  /\ Stream \in Seq(Octet)
                    /\ msgs = <<>> => Stream = <<>>
                    /\ kind = "mq" /\ msgs # <<>> =>
                         /\ Head(msgs) \in Messages /\ Tail(msgs) \in Seq(Messages)
                         /\ FlattenSeq(Frames(Tail(msgs))) \in Seq(Octet)
                         /\ Stream = Frame(Head(msgs)) \o FlattenSeq(Frames(Tail(msgs)))
  OBVIOUS
<1>1. CASE kind = "fifo"
  <2>1. msgs \in Seq(Byte) /\ Byte \subseteq Octet
    BY <1>1, PipeAssumption DEF Shape, Octet
  <2>2. msgs \in Seq(Octet)
    BY <2>1, SeqMonotonic
  <2> QED
    BY <1>1, <2>2 DEF Stream
<1>2. CASE kind = "mq"
  <2>1. msgs \in Seq(Messages) /\ Stream = FlattenSeq(Frames(msgs))
    BY <1>2 DEF Shape, Stream
  <2>2. Stream \in Seq(Octet) /\ (msgs = <<>> => Stream = <<>>)
    BY <2>1, FramesFacts, FlattenType
  <2>3. ASSUME msgs # <<>>
        PROVE  /\ Head(msgs) \in Messages /\ Tail(msgs) \in Seq(Messages)
               /\ FlattenSeq(Frames(Tail(msgs))) \in Seq(Octet)
               /\ Stream = Frame(Head(msgs)) \o FlattenSeq(Frames(Tail(msgs)))
    <3>1. Head(msgs) \in Messages /\ Tail(msgs) \in Seq(Messages)
      BY <2>1, <2>3, HeadTailProperties
    <3>2. FlattenSeq(Frames(Tail(msgs))) \in Seq(Octet)
      BY <3>1, FramesFacts, FlattenType
    <3>3. Stream = Frame(Head(msgs)) \o FlattenSeq(Frames(Tail(msgs)))
      BY <2>1, <2>3, FramesFacts
    <3> QED BY <3>1, <3>2, <3>3
  <2> QED
    BY <2>2, <2>3
<1> QED
  BY <1>1, <1>2 DEF Shape

LEMMA ContentStays ==
  ASSUME UNCHANGED <<start, end, data>>
  PROVE  Content' = Content /\ PIPE_LEN' = PIPE_LEN
BY DEF Content, PIPE_PEEK, PIPE_LEN, Slot

LEMMA StreamStays ==
  ASSUME UNCHANGED <<kind, msgs>>
  PROVE  Stream' = Stream
BY DEF Stream

LEMMA InputFacts ==
  ASSUME NEW bytes \in BoundedSeq(Byte, PIPE_BUF)
  PROVE  bytes \in Seq(Byte) /\ bytes \in Seq(Octet) /\ Len(bytes) \in 0 .. PIPE_BUF
<1>1. PICK m \in 0 .. PIPE_BUF : bytes \in [1 .. m -> Byte]
  BY DEF BoundedSeq, SeqOf
<1>2. m \in Nat /\ Byte \subseteq Octet
  BY PipeAssumption DEF Octet
<1>3. bytes = [i \in 1 .. m |-> bytes[i]] /\ \A i \in 1 .. m : bytes[i] \in Byte
  BY <1>1
<1>4. bytes \in Seq(Byte)
  BY <1>1, <1>2
<1>5. Len(bytes) = m
  BY <1>1, <1>2
<1> QED
  BY <1>2, <1>4, <1>5, SeqMonotonic

LEMMA InitIInv == Init => IInv
<1> SUFFICES ASSUME Init PROVE IInv
  OBVIOUS
<1>1. Shape
  <2>1. data \in Arrays /\ 0 \in Slots
    BY PipeAssumption DEF Init, Arrays, Octet, Slots
  <2> QED
    BY <2>1 DEF Init, Shape
<1>2. PIPE_LEN = 0
  BY DEF Init, PIPE_LEN
<1>3. Content = <<>>
  <2>1. Content \in Seq(Octet) /\ Len(Content) = 0
    BY <1>1, <1>2, ContentFacts
  <2> QED BY <2>1, EmptySeq
<1>4. Stream = <<>>
  BY <1>1, StreamFacts DEF Init
<1>5. <<>> \o <<>> = <<>>
  BY EmptySeq, ConcatEmptySeq
<1> QED
  BY <1>1, <1>3, <1>4, <1>5 DEF Init, IInv, Within, Cut

LEMMA WriteFifo ==
  ASSUME IInv, NEW bytes \in BoundedSeq(Byte, PIPE_BUF), fifo_write(bytes)
  PROVE  IInv'
<1>1. bytes \in Seq(Byte) /\ bytes \in Seq(Octet)
  BY InputFacts
<1>2. UNCHANGED <<kind, start, end, data, want, got>> /\ op' = "push" /\ todo' = bytes
      /\ op = "idle" /\ kind = "fifo" /\ msgs' = msgs \o bytes
      /\ Len(bytes) <= PIPE_BUF - PIPE_LEN - 1
  BY DEF fifo_write, StartPush, writable
<1>3. msgs \in Seq(Byte) /\ msgs' \in Seq(Byte)
  BY <1>1, <1>2, ConcatProperties DEF IInv, Shape
<1>4. Shape'
  BY <1>1, <1>2, <1>3 DEF IInv, Shape
<1>5. Content' = Content /\ PIPE_LEN' = PIPE_LEN
  BY <1>2, ContentStays
<1>6. PIPE_LEN + Len(bytes) <= PIPE_BUF - 1
  BY <1>2, PipeAssumption, InputFacts, ContentFacts DEF IInv
<1>7. Content \o <<>> = Content
  BY ContentFacts, ConcatEmptySeq DEF IInv
<1>8. Content = msgs /\ got = <<>>
  BY <1>2, <1>7 DEF IInv, Cut, Stream
<1>9. Content' \o todo' = Stream'
  BY <1>2, <1>5, <1>8 DEF Stream
<1>10. Within'
  BY <1>2, <1>5, <1>6 DEF Within
<1>11. Cut'
  BY <1>2, <1>8, <1>9 DEF Cut
<1> QED
  BY <1>4, <1>10, <1>11 DEF IInv

LEMMA WriteMessage ==
  ASSUME IInv, NEW bytes \in BoundedSeq(Byte, PIPE_BUF), mq_write(bytes)
  PROVE  IInv'
<1>1. bytes \in Seq(Byte) /\ bytes \in Seq(Octet) /\ Len(bytes) \in 0 .. PIPE_BUF
  BY InputFacts
<1>2. UNCHANGED <<kind, start, end, data, want, got>> /\ op' = "push"
      /\ todo' = Frame(bytes)
      /\ op = "idle" /\ kind = "mq" /\ msgs' = Append(msgs, bytes)
      /\ HEADER + Len(bytes) <= PIPE_BUF - PIPE_LEN - 1
  BY DEF mq_write, StartPush, writable, Frame
<1>3. PIPE_LEN \in 0 .. PIPE_BUF - 1 /\ Content \in Seq(Octet)
  BY ContentFacts DEF IInv
<1>4. Len(bytes) <= 255 /\ PIPE_LEN + (HEADER + Len(bytes)) <= PIPE_BUF - 1
  BY <1>1, <1>2, <1>3, PipeAssumption
<1>5. bytes \in Messages
  BY <1>1, <1>4 DEF Messages
<1>6. Frame(bytes) \in Seq(Octet) /\ Len(Frame(bytes)) = HEADER + Len(bytes)
  <2>1. PICK e \in Seq(Octet) : e = Encode(Len(bytes)) /\ Len(e) = HEADER
    BY <1>5, FrameFacts
  <2>2. Len(e \o bytes) = Len(e) + Len(bytes) /\ e \o bytes \in Seq(Octet)
    BY <1>1, ConcatProperties
  <2> QED
    BY <2>1, <2>2 DEF Frame
<1>7. msgs \in Seq(Messages) /\ msgs' \in Seq(Messages)
  BY <1>2, <1>5, AppendProperties DEF IInv, Shape
<1>8. Shape'
  BY <1>2, <1>6, <1>7 DEF IInv, Shape
<1>9. Content' = Content /\ PIPE_LEN' = PIPE_LEN
  BY <1>2, ContentStays
<1>10. Content = Stream /\ got = <<>>
  <2>1. Content \o <<>> = Content
    BY <1>3, ConcatEmptySeq
  <2> QED
    BY <1>2, <2>1 DEF IInv, Cut
<1>11. Stream' = Stream \o Frame(bytes)
  <2>1. Stream = FlattenSeq(Frames(msgs)) /\ Stream' = FlattenSeq(Frames(msgs'))
    BY <1>2 DEF Stream
  <2>2. Frames(msgs') = Append(Frames(msgs), Frame(bytes)) /\ Frames(msgs) \in Seq(Seq(Octet))
    BY <1>2, <1>5, <1>7, FramesFacts
  <2>3. FlattenSeq(Append(Frames(msgs), Frame(bytes))) = FlattenSeq(Frames(msgs)) \o Frame(bytes)
    BY <1>6, <2>2, FlattenAppend
  <2> QED
    BY <2>1, <2>2, <2>3
<1>12. Within'
  BY <1>2, <1>4, <1>6, <1>9 DEF Within
<1>13. Cut'
  BY <1>2, <1>9, <1>10, <1>11 DEF Cut
<1> QED
  BY <1>8, <1>12, <1>13 DEF IInv

\* A pushed byte goes from what is left to push to what the ring holds.
LEMMA PushMoves ==
  ASSUME IInv, Push
  PROVE  /\ Head(todo) \in Octet
         /\ PIPE_LEN < PIPE_BUF - 1
         /\ Content' = Append(Content, Head(todo))
         /\ PIPE_LEN' = PIPE_LEN + 1
         /\ data' \in Arrays /\ end' \in Slots
         /\ todo' \in Seq(Octet) /\ Len(todo') = Len(todo) - 1 /\ Len(todo) \in Nat \ {0}
<1>1. /\ op = "push" /\ todo # <<>> /\ todo' = Tail(todo)
      /\ data' = [data EXCEPT ![end] = Head(todo)] /\ end' = Wrapped(end + 1)
      /\ start' = start
  BY DEF Push
<1>2. Shape /\ Within
  BY DEF IInv
<1>3. Head(todo) \in Octet /\ Tail(todo) \in Seq(Octet) /\ Len(Tail(todo)) = Len(todo) - 1
      /\ Len(todo) \in Nat \ {0}
  BY <1>1, <1>2, HeadTailProperties, EmptySeq DEF Shape
<1>4. /\ PIPE_LEN \in 0 .. PIPE_BUF - 1
      /\ Content = Bytes(start, end, data) /\ PIPE_LEN = Between(start, end)
  BY <1>2, ContentFacts
<1>5. PIPE_LEN < PIPE_BUF - 1
  BY <1>1, <1>2, <1>3, <1>4, PipeAssumption DEF Within
<1>6. /\ Content' = Bytes(start', end', data')
      /\ PIPE_LEN' = Between(start', end')
  BY DEF Content, PIPE_PEEK, PIPE_LEN, Slot, Bytes, At, Between
<1>7. /\ end' \in Slots /\ PIPE_LEN' = PIPE_LEN + 1
      /\ Content' = Append(Content, Head(todo))
  BY <1>1, <1>2, <1>3, <1>4, <1>5, <1>6, PutByte DEF Shape
<1>8. data' \in Arrays
  BY <1>1, <1>2, <1>3 DEF Shape, Arrays
<1> QED
  BY <1>1, <1>3, <1>5, <1>7, <1>8

LEMMA PushStep ==
  ASSUME IInv, Push
  PROVE  IInv'
<1>1. op = "push" /\ op' = "push" /\ todo # <<>> /\ todo' = Tail(todo)
      /\ UNCHANGED <<kind, start, want, got, msgs>>
  BY DEF Push
<1>2. Shape'
  BY <1>1, PushMoves DEF IInv, Shape
<1>3. Stream' = Stream
  BY <1>1, StreamStays
<1>4. Content' \o todo' = Content \o todo
  <2>1. Content \in Seq(Octet) /\ todo \in Seq(Octet)
    BY ContentFacts DEF IInv, Shape
  <2>2. Append(Content, Head(todo)) \o Tail(todo) = Content \o todo
    BY <1>1, <2>1, ShiftOver
  <2> QED
    BY <1>1, <2>2, PushMoves
<1>5. PIPE_LEN' + Len(todo') <= PIPE_BUF - 1
  <2>1. PIPE_LEN + Len(todo) <= PIPE_BUF - 1
    BY <1>1 DEF IInv, Within
  <2>2. PIPE_LEN \in Nat /\ Len(todo) \in Nat /\ PIPE_LEN' = PIPE_LEN + 1
        /\ Len(todo') = Len(todo) - 1
    BY PushMoves, ContentFacts, PipeAssumption DEF IInv
  <2> QED
    BY <2>1, <2>2, PipeAssumption
<1>6. Within'
  BY <1>1, <1>5 DEF Within
<1>7. Cut'
  BY <1>1, <1>3, <1>4 DEF IInv, Cut
<1> QED
  BY <1>2, <1>6, <1>7 DEF IInv

LEMMA EndPushStep ==
  ASSUME IInv, EndPush
  PROVE  IInv'
<1>1. op = "push" /\ todo = <<>> /\ op' = "idle"
      /\ UNCHANGED <<kind, start, end, data, todo, want, got, msgs>>
  BY DEF EndPush
<1>2. Content' = Content /\ Stream' = Stream
  BY <1>1, ContentStays, StreamStays
<1>3. Shape'
  BY <1>1 DEF IInv, Shape
<1>4. Cut'
  BY <1>1, <1>2 DEF IInv, Cut
<1> QED
  BY <1>1, <1>3, <1>4 DEF IInv, Within

LEMMA ReadFifo ==
  ASSUME IInv, NEW size \in 0 .. PIPE_BUF, fifo_read(size)
  PROVE  IInv'
<1>1. op = "idle" /\ kind = "fifo" /\ op' = "pop" /\ want' = size /\ got' = <<>>
      /\ size <= PIPE_LEN
      /\ UNCHANGED <<kind, start, end, data, todo, msgs>>
  BY DEF fifo_read, StartPop
<1>2. Content' = Content /\ Stream' = Stream /\ PIPE_LEN' = PIPE_LEN
  BY <1>1, ContentStays, StreamStays
<1>3. size \in Nat /\ <<>> \in Seq(Octet)
  BY PipeAssumption, EmptySeq
<1>4. Shape'
  BY <1>1, <1>3 DEF IInv, Shape
<1>5. Content \o <<>> = Content /\ <<>> \o Content = Content
  BY ContentFacts, ConcatEmptySeq DEF IInv
<1>6. Cut'
  BY <1>1, <1>2, <1>5 DEF IInv, Cut
<1>7. Within'
  BY <1>1, <1>2 DEF Within
<1> QED
  BY <1>4, <1>6, <1>7 DEF IInv

LEMMA ReadMessage ==
  ASSUME IInv, NEW size \in 0 .. PIPE_BUF, mq_read(size)
  PROVE  IInv'
<1>1. op = "idle" /\ kind = "mq" /\ op' = "length" /\ want' = HEADER /\ got' = <<>>
      /\ HEADER <= PIPE_LEN
      /\ UNCHANGED <<kind, start, end, data, todo, msgs>>
  BY DEF mq_read, StartPop
<1>2. Content' = Content /\ Stream' = Stream /\ PIPE_LEN' = PIPE_LEN
  BY <1>1, ContentStays, StreamStays
<1>3. HEADER \in Nat /\ HEADER > 0 /\ <<>> \in Seq(Octet) /\ Len(<<>>) = 0
  BY PipeAssumption, EmptySeq
<1>4. Shape'
  BY <1>1, <1>3 DEF IInv, Shape
<1>5. Content \o <<>> = Content /\ <<>> \o Content = Content
  BY ContentFacts, ConcatEmptySeq DEF IInv
<1>6. Content = Stream
  BY <1>1, <1>5 DEF IInv, Cut
<1>7. msgs # <<>>
  <2>1. Len(Content) = PIPE_LEN /\ PIPE_LEN \in Int /\ PIPE_LEN > 0
    BY <1>1, <1>3, ContentFacts, PipeAssumption DEF IInv
  <2>2. Content # <<>>
    BY <1>3, <2>1
  <2> QED
    BY <1>6, <2>2, StreamFacts DEF IInv
<1>8. Cut'
  BY <1>1, <1>2, <1>3, <1>5, <1>6, <1>7 DEF IInv, Cut
<1>9. Within'
  BY <1>1, <1>2 DEF Within
<1> QED
  BY <1>4, <1>8, <1>9 DEF IInv

\* A popped byte goes from what the ring holds to what was got.
LEMMA PopMoves ==
  ASSUME IInv, Pop
  PROVE  /\ Content # <<>> /\ got' = Append(got, Head(Content))
         /\ Content' = Tail(Content)
         /\ PIPE_LEN' = PIPE_LEN - 1
         /\ start' \in Slots
         /\ got' \in Seq(Octet) /\ Len(got') = Len(got) + 1 /\ Len(got) \in Nat
         /\ got' \o Content' = got \o Content
<1>1. /\ op \in {"length", "pop"} /\ want > 0
      /\ got' = Append(got, data[start]) /\ start' = Wrapped(start + 1)
      /\ UNCHANGED <<end, data>>
  BY DEF Pop
<1>2. Shape /\ Within
  BY DEF IInv
<1>3. /\ PIPE_LEN \in 0 .. PIPE_BUF - 1 /\ Content \in Seq(Octet)
      /\ Content = Bytes(start, end, data) /\ PIPE_LEN = Between(start, end)
  BY <1>2, ContentFacts
<1>4. PIPE_LEN > 0
  BY <1>1, <1>2, <1>3, PipeAssumption DEF Within, Shape
<1>5. /\ Content' = Bytes(start', end', data')
      /\ PIPE_LEN' = Between(start', end')
  BY DEF Content, PIPE_PEEK, PIPE_LEN, Slot, Bytes, At, Between
<1>6. /\ start' \in Slots /\ PIPE_LEN' = PIPE_LEN - 1
      /\ Content # <<>> /\ Head(Content) = data[start] /\ Content' = Tail(Content)
  BY <1>1, <1>2, <1>3, <1>4, <1>5, TakeByte DEF Shape
<1>7. got \in Seq(Octet)
  BY <1>2 DEF Shape
<1>8. got' = Append(got, Head(Content))
  BY <1>1, <1>6
<1>9. /\ Append(got, Head(Content)) \in Seq(Octet)
      /\ Len(Append(got, Head(Content))) = Len(got) + 1
      /\ Append(got, Head(Content)) \o Tail(Content) = got \o Content
  BY <1>3, <1>6, <1>7, ShiftOver
<1>10. Len(got) \in Nat
  BY <1>7, LenProperties
<1> QED
  BY <1>6, <1>8, <1>9, <1>10

LEMMA PopStep ==
  ASSUME IInv, Pop
  PROVE  IInv'
<1>1. op \in {"length", "pop"} /\ want > 0 /\ want' = want - 1
      /\ UNCHANGED <<kind, end, data, op, todo, msgs>>
  BY DEF Pop
<1>2. want' \in Nat
  BY <1>1 DEF IInv, Shape
<1>3. Shape'
  BY <1>1, <1>2, PopMoves DEF IInv, Shape
<1>4. Stream' = Stream
  BY <1>1, StreamStays
<1>5. Within'
  <2>1. want <= PIPE_LEN /\ PIPE_LEN \in Int /\ want \in Nat
    BY <1>1, ContentFacts, PipeAssumption DEF IInv, Within, Shape
  <2>2. want' <= PIPE_LEN'
    BY <1>1, <2>1, PopMoves
  <2> QED
    BY <1>1, <2>2 DEF Within
<1>6. got' \o Content' = got \o Content
  BY PopMoves
<1>7. Len(got') + want' = Len(got) + want
  <2>1. \A a \in Nat, b \in Nat : (a + 1) + (b - 1) = a + b
    OBVIOUS
  <2>2. Len(got') = Len(got) + 1 /\ Len(got) \in Nat /\ want \in Nat
    BY PopMoves DEF IInv, Shape
  <2>3. (Len(got) + 1) + (want - 1) = Len(got) + want
    BY <2>1, <2>2
  <2> QED
    BY <1>1, <2>2, <2>3
<1>8. Cut'
  BY <1>1, <1>4, <1>6, <1>7 DEF IInv, Cut
<1> QED
  BY <1>3, <1>5, <1>8 DEF IInv

\* When a message queue's loop is done, what it has got is a whole length word,
\* or a whole message.
LEMMA WholeLength ==
  ASSUME IInv, op = "length", want = 0
  PROVE  /\ msgs # <<>> /\ Head(msgs) \in Messages
         /\ Decode(got) = Len(Head(msgs)) /\ got = Encode(Len(Head(msgs)))
         /\ Len(Head(msgs)) <= PIPE_LEN
<1>1. kind = "mq" /\ msgs # <<>> /\ got \o Content = Stream /\ Len(got) = HEADER
      /\ got \in Seq(Octet)
  <2>1. kind = "mq" /\ msgs # <<>> /\ got \o Content = Stream /\ Len(got) + want = HEADER
        /\ got \in Seq(Octet)
    BY DEF IInv, Cut, Shape
  <2>2. Len(got) \in Nat
    BY <2>1, LenProperties
  <2> QED BY <2>1, <2>2
<1>2. PICK m \in Messages, rest \in Seq(Octet) :
        m = Head(msgs) /\ Stream = Frame(m) \o rest
  BY <1>1, StreamFacts DEF IInv
<1>3. PICK e \in Seq(Octet) : e = Encode(Len(m)) /\ Len(e) = HEADER /\ Decode(e) = Len(m)
                              /\ Frame(m) = e \o m
  BY FrameFacts DEF Frame
<1>4. m \in Seq(Octet) /\ Len(m) \in 0 .. 255
  BY FrameFacts
<1>5. PICK c \in Seq(Octet) : c = Content /\ Len(c) = PIPE_LEN
  BY ContentFacts DEF IInv
<1>6. got \o c = e \o (m \o rest)
  <2>1. e \o (m \o rest) = (e \o m) \o rest
    BY <1>4, ConcatThree
  <2> QED
    BY <1>1, <1>2, <1>3, <1>5, <2>1
<1>7. m \o rest \in Seq(Octet) /\ Len(m \o rest) = Len(m) + Len(rest) /\ Len(rest) \in Nat
  BY <1>4, ConcatProperties, LenProperties
<1>8. got = e /\ c = m \o rest
  <2>1. PICK d \in Seq(Octet) : d = m \o rest
    BY <1>7
  <2>2. Len(got) = Len(e) /\ got \in Seq(Octet) /\ got \o c = e \o d
    BY <1>1, <1>3, <1>6, <2>1
  <2>3. got = e /\ c = d
    BY <2>2, SamePieces
  <2> QED BY <2>1, <2>3
<1>9. Len(m) <= PIPE_LEN
  BY <1>4, <1>5, <1>7, <1>8
<1> QED
  BY <1>1, <1>2, <1>3, <1>8, <1>9

LEMMA WholeMessage ==
  ASSUME IInv, op = "pop", kind = "mq", want = 0
  PROVE  /\ msgs \in Seq(Messages) /\ msgs # <<>> /\ got = Head(msgs)
         /\ Tail(msgs) \in Seq(Messages)
         /\ Content = FlattenSeq(Frames(Tail(msgs)))
<1>1. msgs # <<>> /\ Len(got) = Len(Head(msgs)) /\ got \in Seq(Octet)
      /\ Encode(Len(Head(msgs))) \o (got \o Content) = Stream
  <2>1. msgs # <<>> /\ Len(got) + want = Len(Head(msgs)) /\ got \in Seq(Octet)
        /\ Encode(Len(Head(msgs))) \o (got \o Content) = Stream
    BY DEF IInv, Cut, Shape
  <2>2. Len(got) \in Nat
    BY <2>1, LenProperties
  <2> QED BY <2>1, <2>2
<1>2. PICK m \in Messages, rest \in Seq(Octet) :
        m = Head(msgs) /\ Stream = Frame(m) \o rest /\ rest = FlattenSeq(Frames(Tail(msgs)))
  BY <1>1, StreamFacts DEF IInv
<1>3. PICK e \in Seq(Octet) : e = Encode(Len(m)) /\ Frame(m) = e \o m
  BY FrameFacts DEF Frame
<1>4. m \in Seq(Octet)
  BY FrameFacts
<1>5. PICK c \in Seq(Octet) : c = Content
  BY ContentFacts DEF IInv
<1>6. e \o (got \o c) = e \o (m \o rest)
  <2>1. e \o (m \o rest) = (e \o m) \o rest
    BY <1>4, ConcatThree
  <2> QED
    BY <1>1, <1>2, <1>3, <1>5, <2>1
<1>7. m \o rest \in Seq(Octet) /\ got \o c \in Seq(Octet)
  BY <1>1, <1>4, ConcatProperties
<1>8. got \o c = m \o rest
  BY <1>6, <1>7, SamePieces
<1>9. got = m /\ c = rest
  BY <1>1, <1>2, <1>4, <1>8, SamePieces
<1>10. msgs \in Seq(Messages) /\ Tail(msgs) \in Seq(Messages)
  BY <1>1, HeadTailProperties DEF IInv, Shape
<1> QED
  BY <1>1, <1>2, <1>5, <1>9, <1>10

LEMMA EndLengthStep ==
  ASSUME IInv, EndLength
  PROVE  IInv'
<1>1. op = "length" /\ want = 0 /\ op' = "pop" /\ want' = Decode(got) /\ got' = <<>>
      /\ UNCHANGED <<kind, start, end, data, todo, msgs>>
  BY DEF EndLength, StartPop
<1>2. kind = "mq"
  BY <1>1 DEF IInv, Shape
<1>3. /\ msgs # <<>> /\ Head(msgs) \in Messages
      /\ Decode(got) = Len(Head(msgs)) /\ got = Encode(Len(Head(msgs)))
      /\ Len(Head(msgs)) <= PIPE_LEN
  BY <1>1, WholeLength
<1>4. Content' = Content /\ Stream' = Stream /\ PIPE_LEN' = PIPE_LEN
  BY <1>1, ContentStays, StreamStays
<1>5. Len(Head(msgs)) \in Nat
  BY <1>3, FrameFacts
<1>6. Shape'
  BY <1>1, <1>3, <1>5, EmptySeq DEF IInv, Shape
<1>7. Within'
  BY <1>1, <1>3, <1>4 DEF Within
<1>8. <<>> \o Content = Content
  BY ContentFacts, ConcatEmptySeq DEF IInv
<1>9. Encode(Len(Head(msgs))) \o Content = Stream
  BY <1>1, <1>3 DEF IInv, Cut
<1>10. Len(<<>>) + want' = Len(Head(msgs))
  BY <1>1, <1>3, <1>5, EmptySeq
<1>11. Cut'
  BY <1>1, <1>2, <1>3, <1>4, <1>8, <1>9, <1>10 DEF IInv, Cut
<1> QED
  BY <1>6, <1>7, <1>11 DEF IInv

LEMMA EndPopStep ==
  ASSUME IInv, EndPop
  PROVE  IInv'
<1>1. op = "pop" /\ want = 0 /\ op' = "idle" /\ got' = <<>>
      /\ msgs' = (IF kind = "fifo" THEN SubSeq(msgs, Len(got) + 1, Len(msgs)) ELSE Tail(msgs))
      /\ UNCHANGED <<kind, start, end, data, todo, want>>
  BY DEF EndPop
<1>2. todo = <<>>
  BY <1>1 DEF IInv, Cut
<1>3. Content' = Content
  BY <1>1, ContentStays
<1>4. Content \in Seq(Octet) /\ Content \o <<>> = Content
  BY ContentFacts, ConcatEmptySeq DEF IInv
<1>5. CASE kind = "fifo"
  <2>1. got \o Content = msgs /\ got \in Seq(Octet) /\ msgs \in Seq(Byte)
    BY <1>1, <1>5 DEF IInv, Cut, Stream, Shape
  <2>2. SubSeq(msgs, Len(got) + 1, Len(msgs)) = Content
    BY <1>4, <2>1, FirstPiece
  <2>3. msgs' = Content
    BY <1>1, <1>5, <2>2
  <2>4. msgs' \in Seq(Byte)
    <3>1. PICK n \in Nat, k \in Nat : n = Len(got) /\ k = Len(msgs)
      BY <2>1, LenProperties
    <3>2. \A i \in n + 1 .. k : msgs[i] \in Byte
      BY <2>1, <3>1, ElementOfSeq
    <3>3. SubSeq(msgs, n + 1, k) \in Seq(Byte)
      BY <3>1, <3>2, SubSeqProperties
    <3> QED
      BY <1>1, <1>5, <3>1, <3>3
  <2>5. Stream' = Content
    BY <1>1, <1>5, <2>3 DEF Stream
  <2>6. Shape'
    BY <1>1, <1>5, <2>4, EmptySeq DEF IInv, Shape
  <2>7. Cut'
    BY <1>1, <1>2, <1>3, <1>4, <2>5 DEF Cut
  <2> QED
    BY <1>1, <2>6, <2>7 DEF IInv, Within
<1>6. CASE kind = "mq"
  <2>1. msgs' = Tail(msgs) /\ Tail(msgs) \in Seq(Messages)
        /\ Content = FlattenSeq(Frames(Tail(msgs)))
    BY <1>1, <1>6, WholeMessage
  <2>2. Stream' = Content
    BY <1>1, <1>6, <2>1 DEF Stream
  <2>3. Shape'
    BY <1>1, <1>6, <2>1, EmptySeq DEF IInv, Shape
  <2>4. Cut'
    BY <1>1, <1>2, <1>3, <1>4, <2>2 DEF Cut
  <2> QED
    BY <1>1, <2>3, <2>4 DEF IInv, Within
<1> QED
  BY <1>5, <1>6 DEF IInv, Shape

LEMMA StepIInv ==
  ASSUME IInv, [Next]_vars
  PROVE  IInv'
<1>1. CASE UNCHANGED vars
  <2>1. Content' = Content /\ Stream' = Stream /\ PIPE_LEN' = PIPE_LEN
    BY <1>1, ContentStays, StreamStays DEF vars
  <2> QED
    BY <1>1, <2>1 DEF vars, IInv, Shape, Within, Cut
<1>2. CASE Next
  <2>1. ASSUME NEW bytes \in BoundedSeq(Byte, PIPE_BUF), fifo_write(bytes) \/ mq_write(bytes)
        PROVE  IInv'
    BY <2>1, WriteFifo, WriteMessage
  <2>2. ASSUME NEW size \in 0 .. PIPE_BUF, fifo_read(size) \/ mq_read(size)
        PROVE  IInv'
    BY <2>2, ReadFifo, ReadMessage
  <2> QED
    BY <1>2, <2>1, <2>2, PushStep, EndPushStep, PopStep, EndLengthStep, EndPopStep DEF Next
<1> QED
  BY <1>1, <1>2

LEMMA Inductive == Spec => []IInv
<1>1. Init => IInv
  BY InitIInv
<1>2. IInv /\ [Next]_vars => IInv'
  BY StepIInv
<1> QED
  BY <1>1, <1>2, PTL DEF Spec

-----------------------------------------------------------------------------
(* Theorems *)

\* For any size of ring, length word and bytes, the indices stay in the array,
\* and each loop of fifo.c and mqueue.c finds the room or the bytes it was
\* started for.
THEOREM RingInBounds == Spec => []RingOK
<1>1. IInv => RingOK
  <2> SUFFICES ASSUME IInv PROVE RingOK
    OBVIOUS
  <2>1. start \in Slots /\ end \in Slots /\ data \in [Slots -> 0 .. 255] /\ want \in Nat
    BY DEF IInv, Shape, Arrays, Octet
  <2>2. PIPE_LEN \in Int
    BY ContentFacts, PipeAssumption DEF IInv
  <2>3. ASSUME op \in {"length", "pop"} PROVE want \in 0 .. PIPE_LEN
    <3>1. want <= PIPE_LEN
      BY <2>3 DEF IInv, Within
    <3> QED BY <2>1, <2>2, <3>1
  <2> QED
    BY <2>1, <2>3 DEF IInv, Within, RingOK
<1> QED
  BY <1>1, Inductive, PTL

\* Between calls the ring holds whole messages, each after its length word: a
\* reader that finds one byte finds a whole message, however the calls fell.
THEOREM AlwaysFramed == Spec => []Framed
<1>1. IInv => Framed
  <2> SUFFICES ASSUME IInv, op = "idle"
               PROVE  PIPE_PEEK(PIPE_LEN) = Stream
    BY DEF Framed, Stream, Frames, Frame
  <2>1. Content \o todo = Stream /\ todo = <<>>
    BY DEF IInv, Cut
  <2>2. Content \o <<>> = Content
    BY ContentFacts, ConcatEmptySeq DEF IInv
  <2> QED
    BY <2>1, <2>2 DEF Content
<1> QED
  BY <1>1, Inductive, PTL

\* What a read returns is the oldest bytes of a FIFO, or the oldest message of a
\* queue, as it was written.
THEOREM OldestRead == Spec => []ReadsOldest
<1>1. IInv => ReadsOldest
  <2> SUFFICES ASSUME IInv, op = "pop", want = 0
               PROVE  got = IF kind = "fifo" THEN SubSeq(msgs, 1, Len(got)) ELSE Head(msgs)
    BY DEF ReadsOldest
  <2>1. CASE kind = "fifo"
    <3>1. got \o Content = msgs /\ got \in Seq(Octet) /\ Content \in Seq(Octet)
      BY <2>1, ContentFacts DEF IInv, Cut, Stream, Shape
    <3> QED
      BY <2>1, <3>1, FirstPiece
  <2>2. CASE kind = "mq"
    BY <2>2, WholeMessage
  <2> QED
    BY <2>1, <2>2 DEF IInv, Shape
<1> QED
  BY <1>1, Inductive, PTL

\* Every iteration of a push or pop loop is one step of a bounded queue of bytes,
\* and no other step of a call touches what the queue holds.
THEOREM PipeIsQueue == Spec => ImplementsByteQueue
<1>1. Init => Queue!Init
  <2> SUFFICES ASSUME Init PROVE Queue!Init
    OBVIOUS
  <2>1. IInv
    BY InitIInv
  <2>2. PIPE_LEN = 0
    BY DEF Init, PIPE_LEN
  <2>3. Content = <<>>
    BY <2>1, <2>2, ContentFacts, EmptySeq DEF IInv
  <2> QED
    BY <2>3 DEF Init, Queue!Init
<1>2. IInv /\ [Next]_vars => [Queue!Next]_(Queue!vars)
  <2> SUFFICES ASSUME IInv, [Next]_vars
               PROVE  [Queue!Next]_(Queue!vars)
    OBVIOUS
  <2>1. ASSUME UNCHANGED <<start, end, data>>, got' = got \/ got' = <<>>
        PROVE  [Queue!Next]_(Queue!vars)
    <3>1. Content' = Content
      BY <2>1, ContentStays
    <3> QED
      BY <2>1, <3>1 DEF Queue!Next, Queue!vars, Queue!Restart
  <2>2. CASE Push
    <3>1. Len(Content) < PIPE_BUF - 1
      BY <2>2, PushMoves, ContentFacts DEF IInv
    <3>2. Queue!Put(Head(todo))
      BY <2>2, <3>1, PushMoves DEF Push, Queue!Put
    <3> QED
      BY <2>2, <3>2, PushMoves DEF Queue!Next, Octet
  <2>3. CASE Pop
    <3>1. Queue!Get
      BY <2>3, PopMoves DEF Queue!Get
    <3> QED
      BY <3>1 DEF Queue!Next
  <2>4. CASE EndPush \/ EndLength \/ EndPop
    BY <2>1, <2>4 DEF EndPush, EndLength, EndPop, StartPop
  <2>5. ASSUME NEW bytes, fifo_write(bytes) \/ mq_write(bytes)
        PROVE  [Queue!Next]_(Queue!vars)
    BY <2>1, <2>5 DEF fifo_write, mq_write, StartPush
  <2>6. ASSUME NEW size, fifo_read(size) \/ mq_read(size)
        PROVE  [Queue!Next]_(Queue!vars)
    BY <2>1, <2>6 DEF fifo_read, mq_read, StartPop
  <2>7. CASE UNCHANGED vars
    BY <2>1, <2>7 DEF vars
  <2> QED
    BY <2>2, <2>3, <2>4, <2>5, <2>6, <2>7 DEF Next
<1> QED
  BY <1>1, <1>2, Inductive, PTL DEF Spec, ImplementsByteQueue, Queue!Spec
=============================================================================
