-------------------------------- MODULE Pipe --------------------------------
(***************************************************************************)
(* One pipe_ringbuffer (src/include/pipe.h) as a FIFO (fifo.c) or as a     *)
(* message queue (mqueue.c): the two indices, the data array, and the      *)
(* copying loops byte by byte, each loop iteration a step.                 *)
(*                                                                         *)
(* Here a call starts when its readable/writable test accepts it; blocking *)
(* a call the test does not accept, retrying it and the events the calls   *)
(* release belong to Kernel.                                               *)
(***************************************************************************)
EXTENDS SequencesExt, Integers

CONSTANTS
  PIPE_BUF,   \* kconfig.h: size of data
  HEADER,     \* sizeof(size_t): the length word before a queued message
  Byte        \* payload bytes

ASSUME PipeAssumption ==
  /\ PIPE_BUF \in 1 .. 256
  /\ HEADER \in Nat \ {0}
  /\ Byte \subseteq 0 .. 255

Slots == 0 .. PIPE_BUF - 1

VARIABLES
  kind,    \* "fifo" or "mq": what file_mknod made of it
  start,   \* index of the oldest byte
  end,     \* index of the next free slot
  data,
  op,      \* "idle", or the loop that runs: "push", "length", "pop"
  todo,    \* bytes the push loop has still to copy
  want,    \* iterations the pop loop has still to do
  got,     \* bytes popped by this loop
  msgs     \* history: what was written and not yet read, in whole bytes
           \* (fifo) or messages (mq)

vars == <<kind, start, end, data, op, todo, want, got, msgs>>

\* mutant of Wrapped: one slot too early
Wrapped_early(i) == IF i >= PIPE_BUF - 1 THEN 0 ELSE i

\* The indices are compared with >= before they are reset
Wrapped(i) == IF i >= PIPE_BUF THEN 0 ELSE i

PIPE_LEN == (end - start) + (IF end < start THEN PIPE_BUF ELSE 0)

\* The i-th oldest byte, counting from 1
Slot(i) == IF start + i - 1 >= PIPE_BUF THEN start + i - 1 - PIPE_BUF ELSE start + i - 1
PIPE_PEEK(n) == [i \in 1 .. n |-> data[Slot(i)]]

\* The length word of a message, least significant byte first: a message is
\* shorter than PIPE_BUF, which is 64, so one byte of the word holds it.
Encode(size) == [i \in 1 .. HEADER |-> IF i = 1 THEN size ELSE 0]
Decode(word) == word[1]

Init ==
  /\ kind \in {"fifo", "mq"}
  /\ start = 0 /\ end = 0
  /\ data = [i \in Slots |-> 0]
  /\ op = "idle" /\ todo = <<>> /\ want = 0 /\ got = <<>>
  /\ msgs = <<>>

-----------------------------------------------------------------------------
\* mutant: the ring may fill up
writable_full(total) == total <= PIPE_BUF - PIPE_LEN

writable(total) == total <= PIPE_BUF - PIPE_LEN - 1   \* a slot stays free

StartPush(bytes) ==
  /\ op' = "push" /\ todo' = bytes
  /\ UNCHANGED <<kind, start, end, data, want, got>>

fifo_write(bytes) ==
  /\ op = "idle" /\ kind = "fifo"
  /\ writable(Len(bytes))
  /\ msgs' = msgs \o bytes
  /\ StartPush(bytes)

mq_write(bytes) ==
  /\ op = "idle" /\ kind = "mq"
  /\ writable(HEADER + Len(bytes))
  /\ msgs' = Append(msgs, bytes)
  /\ StartPush(Encode(Len(bytes)) \o bytes)

\* RB_PUSH
Push ==
  /\ op = "push" /\ todo # <<>>
  /\ data' = [data EXCEPT ![end] = Head(todo)]
  /\ end' = Wrapped(end + 1)
  /\ todo' = Tail(todo)
  /\ UNCHANGED <<kind, start, op, want, got, msgs>>

EndPush ==
  /\ op = "push" /\ todo = <<>>
  /\ op' = "idle"
  /\ UNCHANGED <<kind, start, end, data, todo, want, got, msgs>>

StartPop(loop, n) ==
  /\ op' = loop /\ want' = n /\ got' = <<>>
  /\ UNCHANGED <<kind, start, end, data, todo, msgs>>

fifo_read(size) ==
  /\ op = "idle" /\ kind = "fifo"
  /\ size <= PIPE_LEN
  /\ StartPop("pop", size)

\* mutant: a byte of the length word stays behind
mq_read_short(size) ==
  /\ op = "idle" /\ kind = "mq"
  /\ HEADER <= PIPE_LEN
  /\ Decode(PIPE_PEEK(HEADER)) <= size
  /\ StartPop("length", HEADER - 1)

\* A message longer than the reader's buffer is an error and stays queued.
mq_read(size) ==
  /\ op = "idle" /\ kind = "mq"
  /\ HEADER <= PIPE_LEN
  /\ Decode(PIPE_PEEK(HEADER)) <= size
  /\ StartPop("length", HEADER)

\* mutant: the index moves before the byte is taken
Pop_late ==
  /\ op \in {"length", "pop"} /\ want > 0
  /\ got' = Append(got, data[Wrapped(start + 1)])
  /\ start' = Wrapped(start + 1)
  /\ want' = want - 1
  /\ UNCHANGED <<kind, end, data, op, todo, msgs>>

\* RB_POP
Pop ==
  /\ op \in {"length", "pop"} /\ want > 0
  /\ got' = Append(got, data[start])
  /\ start' = Wrapped(start + 1)
  /\ want' = want - 1
  /\ UNCHANGED <<kind, end, data, op, todo, msgs>>

\* mq_read: the length word is complete, the body follows.
EndLength ==
  /\ op = "length" /\ want = 0
  /\ StartPop("pop", Decode(got))

\* The call returns got.
EndPop ==
  /\ op = "pop" /\ want = 0
  /\ op' = "idle" /\ got' = <<>>
  /\ msgs' = IF kind = "fifo" THEN SubSeq(msgs, Len(got) + 1, Len(msgs))
                              ELSE Tail(msgs)
  /\ UNCHANGED <<kind, start, end, data, todo, want>>

Next ==
  \/ \E bytes \in BoundedSeq(Byte, PIPE_BUF) : fifo_write(bytes) \/ mq_write(bytes)
  \/ \E size \in 0 .. PIPE_BUF : fifo_read(size) \/ mq_read(size)
  \/ Push \/ EndPush \/ Pop \/ EndLength \/ EndPop

Spec == Init /\ [][Next]_vars

-----------------------------------------------------------------------------
(* Properties *)

\* The indices stay in the array, and the loops' counts within what is there:
\* a push never runs into the oldest byte, a pop never past the newest.
RingOK ==
  /\ start \in Slots /\ end \in Slots
  /\ data \in [Slots -> 0 .. 255]
  /\ op = "push" => PIPE_LEN + Len(todo) <= PIPE_BUF - 1
  /\ op \in {"length", "pop"} => want \in 0 .. PIPE_LEN

\* The bytes the pipe holds between calls are the messages written and not yet
\* read, each after its length word: a reader that finds HEADER bytes finds
\* a length word, and the whole message behind it.
Framed ==
  op = "idle" =>
    PIPE_PEEK(PIPE_LEN) =
      IF kind = "fifo" THEN msgs
      ELSE FlattenSeq([i \in DOMAIN msgs |-> Encode(Len(msgs[i])) \o msgs[i]])

\* A read returns the oldest bytes, or the oldest message, as they were
\* written, never part of one or of two.
ReadsOldest ==
  op = "pop" /\ want = 0 =>
    got = IF kind = "fifo" THEN SubSeq(msgs, 1, Len(got)) ELSE Head(msgs)

\* Index arithmetic and wrap-around amount to a bounded queue of bytes.
Content == PIPE_PEEK(PIPE_LEN)
Queue == INSTANCE ByteQueue WITH
  Byte <- 0 .. 255, Capacity <- PIPE_BUF - 1, content <- Content
ImplementsByteQueue == Queue!Spec
=============================================================================
