------------------------------ MODULE Signals ------------------------------
(***************************************************************************)
(* The signal server (kernel.c) and the calls that talk to it (signal.c).  *)
(* A request is three or four words in the server's FIFO, each a write of  *)
(* its own, and the server reads them one by one; the answer is a word in  *)
(* the caller's own FIFO.  Nothing in signal.c keeps the words of two      *)
(* callers apart: Turns says whether the programs do.  They need to while  *)
(* they write, not while they wait.                                        *)
(*                                                                         *)
(* Words of different kinds are different values, where the code has       *)
(* numbers; what the server does with a word of the wrong kind is left     *)
(* out, since InStep fails before it can.  So is signal with a handler for *)
(* another signal than SIGCHLD, which does nothing.                        *)
(***************************************************************************)
EXTENDS Integers, Sequences, FiniteSets, SequencesExt

CONSTANTS
  Clients,
  Signals, SIGCHLD,
  Handlers, signal_default, SIG_ERR, NULL,
  Room,     \* words a FIFO holds: (PIPE_BUF - 1) \div sizeof(int)
  Turns     \* only one task at a time is writing a request

ASSUME SignalsAssumption ==
  /\ SIGCHLD \in Signals /\ signal_default \notin Handlers
  /\ SIG_ERR \notin Handlers \union {signal_default}
  /\ NULL \notin Handlers \union {signal_default, SIG_ERR, 0}   \* no answer is NULL
  /\ Room \in Nat \ {0} /\ Turns \in BOOLEAN

Modes == {"SIGSET", "SIGDFL", "SIGRAISE", "SIGIGN"}
STATE_ILEGAL == 0
STATE_LEGAL == 1

VARIABLES
  handler, flags,   \* sig[].sa_u.sa_handler, sig[].sa_flags
  queue,            \* the words in the FIFO of the signal server
  got,              \* those it has read of a request
  call,             \* the request each client is in
  todo,             \* the words of it that it has still to write
  own,              \* the words in each client's own FIFO
  ret               \* what its last call returned, and the handler it ran

vars == <<handler, flags, queue, got, call, todo, own, ret>>
server == <<handler, flags, got>>

Request(mode, sig, func) == [mode |-> mode, sig |-> sig, func |-> func]
NoCall == Request("none", NULL, NULL)
Requests ==
  {Request("SIGSET", SIGCHLD, h) : h \in Handlers}
    \union {Request(mode, s, NULL) : mode \in Modes \ {"SIGSET"}, s \in Signals}

Words(c, r) == <<r.mode, c, r.sig>> \o (IF r.mode = "SIGSET" THEN <<r.func>> ELSE <<>>)

\* How many words the server reads before it serves a request: those that tell
\* the mode and the caller, then those of the mode
Needed(words) ==
  IF Len(words) < 2 THEN 2 ELSE IF words[1] = "SIGSET" THEN 4 ELSE 3

Init ==
  /\ handler = [s \in Signals |-> NULL]
  /\ flags = [s \in Signals |-> STATE_ILEGAL]
  /\ queue = <<>> /\ got = <<>>
  /\ call = [c \in Clients |-> NoCall]
  /\ todo = [c \in Clients |-> <<>>]
  /\ own = [c \in Clients |-> <<>>]
  /\ ret = [c \in Clients |-> [value |-> NULL, ran |-> NULL]]

-----------------------------------------------------------------------------
(* The callers *)

Begin(c, r) ==
  /\ call[c] = NoCall
  /\ Turns => \A d \in Clients : todo[d] = <<>>
  /\ call' = [call EXCEPT ![c] = r]
  /\ todo' = [todo EXCEPT ![c] = Words(c, r)]
  /\ UNCHANGED <<server, queue, own, ret>>

\* mutant: the write that fills the FIFO is retried though its word is there
WriteWord_again(c) ==
  /\ todo[c] # <<>> /\ Len(queue) < Room
  /\ queue' = Append(queue, Head(todo[c]))
  /\ todo' = [todo EXCEPT ![c] = IF Len(queue') = Room THEN @ ELSE Tail(@)]
  /\ UNCHANGED <<server, call, own, ret>>

\* One write of write_sig_info_to_server, or that of the handler: it blocks while
\* the FIFO is full.
WriteWord(c) ==
  /\ todo[c] # <<>> /\ Len(queue) < Room
  /\ queue' = Append(queue, Head(todo[c]))
  /\ todo' = [todo EXCEPT ![c] = Tail(@)]
  /\ UNCHANGED <<server, call, own, ret>>

\* The read of the answer, and what the call makes of it
Return(c) ==
  LET answer == Head(own[c])
  IN /\ call[c] # NoCall /\ todo[c] = <<>> /\ own[c] # <<>>
     /\ ret' = [ret EXCEPT ![c] =
          CASE call[c].mode = "SIGSET" -> [value |-> NULL, ran |-> NULL]
            [] call[c].mode = "SIGRAISE" /\ answer = SIG_ERR -> [value |-> 1, ran |-> NULL]
            [] call[c].mode = "SIGRAISE" /\ answer # SIG_ERR -> [value |-> 0, ran |-> answer]
            [] OTHER -> [value |-> answer, ran |-> NULL]]
     /\ call' = [call EXCEPT ![c] = NoCall]
     /\ own' = [own EXCEPT ![c] = Tail(@)]
     /\ UNCHANGED <<server, queue, todo>>

-----------------------------------------------------------------------------
(* signal_server *)

ReadWord ==
  /\ Len(got) < Needed(got) /\ queue # <<>>
  /\ got' = Append(got, Head(queue))
  /\ queue' = Tail(queue)
  /\ UNCHANGED <<handler, flags, call, todo, own, ret>>

\* mutant: an ignored signal keeps its flags
Change_flagged(mode, s) ==
  CASE mode = "SIGSET" ->
         /\ handler' = [handler EXCEPT ![s] = got[4]]
         /\ flags' = [flags EXCEPT ![s] = STATE_LEGAL]
    [] mode \in {"SIGDFL", "SIGIGN"} /\ flags[s] = STATE_LEGAL ->
         /\ handler' = [handler EXCEPT ![s] = signal_default]
         /\ UNCHANGED flags
    [] OTHER -> UNCHANGED <<handler, flags>>

\* What a request does to its signal's entry
Change(mode, s) ==
  CASE mode = "SIGSET" ->
         /\ handler' = [handler EXCEPT ![s] = got[4]]
         /\ flags' = [flags EXCEPT ![s] = STATE_LEGAL]
    [] mode \in {"SIGDFL", "SIGIGN"} /\ flags[s] = STATE_LEGAL ->
         /\ handler' = [handler EXCEPT ![s] = signal_default]
         /\ flags' = IF mode = "SIGIGN" THEN [flags EXCEPT ![s] = STATE_ILEGAL] ELSE flags
    [] OTHER -> UNCHANGED <<handler, flags>>

\* mutant: a signal without a handler is not answered for
Serve_unanswered ==
  LET mode == got[1]
      replyfd == got[2]
      s == got[3]
  IN /\ Len(got) > 2 /\ Len(got) = Needed(got) /\ Len(own[replyfd]) < Room
     /\ Change(mode, s)
     /\ own' = IF mode = "SIGSET" THEN [own EXCEPT ![replyfd] = Append(@, 0)]
               ELSE IF flags[s] = STATE_LEGAL
                 THEN [own EXCEPT ![replyfd] = Append(@, handler[s])]
               ELSE own
     /\ got' = <<>>
     /\ UNCHANGED <<queue, call, todo, ret>>

\* The answer goes to the FIFO named in the request.
Serve ==
  LET mode == got[1]
      replyfd == got[2]
      s == got[3]
  IN /\ Len(got) > 2 /\ Len(got) = Needed(got) /\ Len(own[replyfd]) < Room
     /\ Change(mode, s)
     /\ own' = [own EXCEPT ![replyfd] = Append(@,
          IF mode = "SIGSET" THEN 0
          ELSE IF flags[s] = STATE_LEGAL THEN handler[s] ELSE SIG_ERR)]
     /\ got' = <<>>
     /\ UNCHANGED <<queue, call, todo, ret>>

Next ==
  \/ \E c \in Clients :
       \/ \E r \in Requests : Begin(c, r)
       \/ WriteWord(c) \/ Return(c)
  \/ ReadWord \/ Serve

Spec == Init /\ [][Next]_vars

\* The server is a boot task of the most urgent priority; a caller that has begun is
\* given slices.  Nothing makes a task begin.
FairSpec ==
  /\ Spec
  /\ WF_vars(ReadWord) /\ WF_vars(Serve)
  /\ \A c \in Clients : WF_vars(WriteWord(c)) /\ WF_vars(Return(c))

-----------------------------------------------------------------------------
(* Properties *)

TypeOK ==
  /\ handler \in [Signals -> Handlers \union {signal_default, NULL}]
  /\ flags \in [Signals -> {STATE_ILEGAL, STATE_LEGAL}]
  /\ Len(queue) <= Room /\ Len(got) <= 4
  /\ call \in [Clients -> Requests \union {NoCall}]
  /\ \A c \in Clients : Len(todo[c]) <= 4 /\ Len(own[c]) <= Room
  /\ DOMAIN ret = Clients

\* The callers whose answer has not been sent
Unanswered == {c \in Clients : call[c] # NoCall /\ own[c] = <<>>}

\* The words read, queued and still to be written are the requests of the callers
\* that wait, each once, whole and one behind the other: the server never takes a
\* word for one of another kind, however its reads and their writes fall.
InStep ==
  \E order \in SetToSeqs(Unanswered) :
    LET unwritten == {c \in Clients : todo[c] # <<>>}
    IN got \o queue \o FlattenSeq(SetToSeq({todo[c] : c \in unwritten}))
         = FlattenSeq([i \in DOMAIN order |-> Words(order[i], call[order[i]])])

\* Requests in pieces amount to calls on one table, each taking effect once
\* before it returns.
Table == INSTANCE HandlerTable WITH
  table <- [s \in Signals |-> IF flags[s] = STATE_LEGAL THEN handler[s] ELSE SIG_ERR],
  outcome <- [c \in Clients |-> IF own[c] = <<>> THEN NULL ELSE Head(own[c])]
ImplementsTable == Table!Spec

\* Every call returns: its words all find room in the server's FIFO, and the
\* server comes to them and answers.
CallsReturn == Table!Served
=============================================================================
