-------------------------- MODULE PathServerProofs --------------------------
(***************************************************************************)
(* The path server for any tasks, paths and programs, as long as the       *)
(* servers make the requests their code makes and romfs_server is sent one *)
(* open at a time: every answer is to the request of the task that reads   *)
(* it, no file is made twice and, if the table of files has room for the   *)
(* paths that the programs name, no descriptor is out of the table and no  *)
(* FIFO is filled beyond its room.                                         *)
(***************************************************************************)
EXTENDS PathServer, SequenceTheorems, FiniteSetTheorems, WellFoundedInduction, TLAPS

\* For induction over Nat without an operator as parameter (NatBySets)
Lemmas == INSTANCE ListProofs

-----------------------------------------------------------------------------
(* The programs *)

\* Requests of any task but romfs_server
Plain == {Mkfile(p) : p \in Paths} \union {Open(p) : p \in Paths}
           \union {Register(p) : p \in Paths} \union {Mount(p) : p \in Paths}
Asks == Plain \union {RegisterFs}

\* romdev_driver registers paths; romfs_server its type, and only it does.
BootPrograms ==
  /\ Programs[romdev] \in Seq({Register(p) : p \in Paths})
  /\ Programs[romfs] = <<RegisterFs>>
  /\ \A t \in Tasks \ {romfs} : Programs[t] \in Seq(Plain)

-----------------------------------------------------------------------------
(* The inductive invariant *)

Posted == {Sent(r, t) : r \in Asks, t \in Tasks}
Answering(t, v) == [to |-> t, words |-> <<Word(v)>>]
Forwarded(t, p, dev) == <<Word(FS_CMD_OPEN), Rest(t, p, dev)>>

Shape ==
  /\ paths \in Seq(Paths) /\ fs \in Seq({romfs}) /\ mounts \in Seq([fs : {romfs}, dev : Int])
  /\ requests \in Seq(Posted)
  /\ made \in [Fds -> Nat] /\ pool \in Nat
  /\ phase \in [Tasks -> {"idle", "wait", "mknod"}]
  /\ asked = [t \in Tasks |-> asked[t]] /\ fifo = [t \in Tasks |-> fifo[t]]
  /\ done \in [Tasks -> Nat]

\* Right, of any list of paths
FilesOf(ps, p) == {PathFd(i) : i \in {j \in DOMAIN ps : ps[j] = p}}
RightIn(ps, r, v) ==
  CASE r.cmd \in {"mkfile", "open"} -> v = -1 \/ v \in FilesOf(ps, r.path)
    [] r.cmd = "register" -> v \in FilesOf(ps, r.path)
    [] OTHER -> v \in {0, -1}

\* Where the request of a task is: nowhere, in the path server's FIFO, answered by it
\* and the answer not yet or already in the task's FIFO, or on its way through
\* romfs_server: in the path server's hands, in the FIFO of romfs_server, or opened
Stations == {"none", "asked", "answering", "answered", "sent", "queued", "opened"}

InFifo(place) ==
  /\ \A i \in 1 .. Len(requests) :
       /\ place[requests[i].replyfd] = "asked"
       /\ requests[i].ask = asked[requests[i].replyfd]
  /\ \A i, j \in 1 .. Len(requests) : requests[i].replyfd = requests[j].replyfd => i = j

InWrite(place) ==
  /\ \A t \in Tasks : place[t] = "answering" =>
       \E v : out = Answering(t, v) /\ RightIn(paths, asked[t], v)
  /\ \A t \in Tasks : place[t] = "sent" =>
       \E dev : out = [to |-> romfs, words |-> Forwarded(t, asked[t].path, dev)]
  /\ out = NoWrite \/ \E t \in Tasks : place[t] \in {"answering", "sent"}

HasAnswer(place, t, v) == place[t] = "answered" /\ RightIn(paths, asked[t], v)
InOwn(place) ==
  \A t \in Tasks \ {romfs} :
    fifo[t] = <<>> \/ \E v : HasAnswer(place, t, v) /\ fifo[t] = <<Word(v)>>
AnswerPart(place, answer) ==
  \/ place[romfs] # "answered" /\ answer = <<>>
  \/ \E v : HasAnswer(place, romfs, v) /\ answer = <<Word(v)>>
MessagePart(place, message) ==
  \/ (\A t \in Tasks : place[t] # "queued") /\ message = <<>>
  \/ \E t \in Tasks : \E dev : /\ \A u \in Tasks : place[u] = "queued" <=> u = t
                               /\ message = Forwarded(t, asked[t].path, dev)
InRomfs(place) ==
  \E answer, message : /\ fifo[romfs] = answer \o message
                       /\ AnswerPart(place, answer) /\ MessagePart(place, message)

InOpen(place) ==
  \/ opening = NoRequest
  \/ /\ opening = [cmd |-> opening.cmd, from |-> opening.from, path |-> opening.path,
                   device |-> opening.device]
     /\ opening.from \in Tasks /\ place[opening.from] = "opened"
     /\ opening.path = asked[opening.from].path
     /\ done[romfs] = 1
     /\ \/ opening.cmd = "open" /\ phase[romfs] = "idle"
        \/ /\ opening.cmd = "register" /\ phase[romfs] = "wait"
           /\ asked[romfs] = Register(opening.path)
        \/ /\ opening.cmd = "reply" /\ phase[romfs] = "idle"
           /\ RightIn(paths, asked[opening.from], status)

\* What a task that waits has asked for
InProgram(place) ==
  /\ \A t \in Tasks : phase[t] = "mknod" => t = romdev /\ \E v : asked[t] = Word(v)
  /\ \A t \in Tasks \ {romfs} : phase[t] = "wait" => asked[t] \in Plain
  /\ phase[romdev] = "wait" => asked[romdev].cmd = "register"
  /\ phase[romfs] = "wait" /\ opening = NoRequest => asked[romfs] = RegisterFs
  /\ \A t \in Tasks : place[t] \in {"sent", "queued", "opened"} =>
       t # romfs /\ asked[t].cmd = "open" /\ asked[t].path \in Covered

\* Nothing is sent to romfs_server before it has registered its type, and nothing is
\* there when it asks for something.
RomfsReady(place) ==
  /\ done[romfs] = 0 => fs = <<>> /\ phase[romfs] = "idle"
  /\ done[romfs] \in {0, 1}
  /\ place[romfs] = "asked" /\ asked[romfs] = RegisterFs => fs = <<>>
  /\ fs = <<>> => mounts = <<>>
  /\ \A t \in Tasks : place[t] \in {"sent", "queued"} =>
       /\ place[romfs] \in {"none", "answered"} /\ done[romfs] = 1
       /\ opening.cmd \in {"none", "reply"}

Placed(place) ==
  /\ place \in [Tasks -> Stations]
  /\ \A t \in Tasks : place[t] = "none" <=> phase[t] # "wait"
  /\ InFifo(place) /\ InWrite(place) /\ InOwn(place) /\ InRomfs(place) /\ InOpen(place)
  /\ InProgram(place) /\ RomfsReady(place)

\* The descriptors that romdev_driver and romfs_server have been given and not made
Due(t, v) ==
  \/ t = romdev /\ phase[t] = "mknod" /\ asked[t] = Word(v)
  \/ /\ t \in {romdev, romfs} /\ phase[t] = "wait" /\ asked[t].cmd = "register"
     /\ out = Answering(t, v) \/ fifo[t] = <<Word(v)>>
New ==
  /\ \A fd \in Fds : made[fd] <= 1 /\ (made[fd] > 0 => fd < NewFd)
  /\ \A t \in Tasks : \A v : Due(t, v) =>
       v \in Int /\ v < NewFd /\ (v \in Fds => made[v] = 0)
  /\ \A v : ~ (Due(romdev, v) /\ Due(romfs, v))

IInv == Shape /\ New /\ \E place : Placed(place)

-----------------------------------------------------------------------------
(* The requests, and what they may be answered *)

LEMMA Servers ==
  ASSUME BootPrograms
  PROVE  /\ romdev \in Tasks /\ romfs \in Tasks /\ romdev # romfs /\ Nobody \notin Tasks
         /\ PATHSERVER_FD \in Nat /\ FS_CMD_OPEN \in Nat
<1>1. romdev # romfs
  <2> SUFFICES ASSUME romdev = romfs PROVE FALSE
    OBVIOUS
  <2>1. <<RegisterFs>> \in Seq({Register(p) : p \in Paths})
    BY DEF BootPrograms
  <2>2. PICK s \in Seq({Register(p) : p \in Paths}) : s = <<RegisterFs>>
    BY <2>1
  <2>3. Len(s) = 1 /\ s[1] = RegisterFs
    BY <2>2
  <2>4. s[1] \in {Register(p) : p \in Paths}
    BY <2>3, ElementOfSeq
  <2> QED BY <2>3, <2>4 DEF RegisterFs, Register
<1> QED
  BY <1>1, PathsAssumption DEF Tasks, FS_CMD_OPEN

LEMMA RequestKinds ==
  /\ \A r \in Plain : /\ r.cmd \in {"mkfile", "open", "register", "mount"}
                      /\ r.path \in Paths
  /\ RegisterFs.cmd = "register_fs" /\ RegisterFs \notin Plain
  /\ \A p : Register(p).cmd = "register" /\ Register(p).path = p /\ Register(p) # RegisterFs
  /\ \A p \in Paths : Register(p) \in Plain
  /\ NoRequest.cmd = "none"
<1>1. \A r \in Plain : r.cmd \in {"mkfile", "open", "register", "mount"} /\ r.path \in Paths
  BY DEF Plain, Mkfile, Open, Register, Mount
<1>2. RegisterFs.cmd = "register_fs" /\ RegisterFs \notin Plain
  BY <1>1 DEF RegisterFs
<1>3. \A p : Register(p).cmd = "register" /\ Register(p).path = p /\ Register(p) # RegisterFs
  BY DEF Register, RegisterFs
<1>4. \A p \in Paths : Register(p) \in Plain
  BY DEF Plain
<1>5. NoRequest.cmd = "none"
  BY DEF NoRequest
<1> QED
  BY <1>1, <1>2, <1>3, <1>4, <1>5

LEMMA WordFacts ==
  /\ \A v : Word(v).value = v /\ "value" \in DOMAIN Word(v)
  /\ \A v, w : Word(v) = Word(w) => v = w
  /\ \A v : \A t, p, dev : Word(v) # Rest(t, p, dev)
  /\ \A v : \A t, w : Answering(t, v) = Answering(t, w) => v = w
BY DEF Word, Rest, Answering

LEMMA SameRight == \A r, v : Right(r, v) <=> RightIn(paths, r, v)
BY DEF Right, RightIn, FilesOf

LEMMA FileBounds ==
  ASSUME NEW ps \in Seq(Paths), NEW p, NEW v \in FilesOf(ps, p)
  PROVE  v \in Int /\ v < PathFd(Len(ps) + 1)
<1>1. PICK i \in DOMAIN ps : v = PathFd(i)
  BY DEF FilesOf
<1>2. i \in 1 .. Len(ps) /\ Len(ps) \in Nat
  BY LenProperties
<1> QED
  BY <1>1, <1>2, PathsAssumption DEF PathFd

LEMMA FilesGrow ==
  ASSUME NEW ps \in Seq(Paths), NEW q \in Paths
  PROVE  /\ Append(ps, q) \in Seq(Paths) /\ Len(Append(ps, q)) = Len(ps) + 1
         /\ PathFd(Len(ps) + 1) \in FilesOf(Append(ps, q), q)
         /\ \A r, v : RightIn(ps, r, v) => RightIn(Append(ps, q), r, v)
<1>1. PICK n \in Nat, s \in Seq(Paths) :
        /\ n = Len(ps) /\ s = Append(ps, q) /\ Len(s) = n + 1
        /\ \A i \in 1 .. n : s[i] = ps[i]
        /\ s[n + 1] = q
  <2>1. /\ Append(ps, q) \in Seq(Paths) /\ Len(Append(ps, q)) = Len(ps) + 1
        /\ \A i \in 1 .. Len(ps) : Append(ps, q)[i] = ps[i]
        /\ Append(ps, q)[Len(ps) + 1] = q
    BY AppendProperties
  <2>2. Len(ps) \in Nat
    BY LenProperties
  <2> QED BY <2>1, <2>2
<1>2. DOMAIN ps = 1 .. n /\ DOMAIN s = 1 .. n + 1
  BY <1>1, LenProperties
<1>3. \A p : FilesOf(ps, p) \subseteq FilesOf(s, p)
  <2>1. \A i \in 1 .. n : i \in 1 .. n + 1
    OBVIOUS
  <2> QED BY <1>1, <1>2, <2>1 DEF FilesOf
<1>4. PathFd(n + 1) \in FilesOf(s, q)
  <2>1. n + 1 \in 1 .. n + 1
    OBVIOUS
  <2> QED BY <1>1, <1>2, <2>1 DEF FilesOf
<1>5. ASSUME NEW r, NEW v, RightIn(ps, r, v) PROVE RightIn(s, r, v)
  BY <1>3, <1>5 DEF RightIn
<1> QED
  BY <1>1, <1>4, <1>5

LEMMA FirstOf ==
  ASSUME NEW S \in SUBSET Nat, S # {}
  PROVE  Min(S) \in S
<1>1. PICK m \in S : \A x \in S : ~(<<x, m>> \in OpToRel(<, Nat))
  BY NatLessThanWellFounded, WFMin
<1>2. \A x \in S : m <= x
  <2>1. ASSUME NEW x \in S, x < m PROVE FALSE
    <3>1. <<x, m>> \in Nat \X Nat /\ <<x, m>>[1] = x /\ <<x, m>>[2] = m
      OBVIOUS
    <3> QED BY <1>1, <2>1, <3>1 DEF OpToRel
  <2> QED BY <2>1
<1> QED
  BY <1>2 DEF Min

LEMMA FoundFile ==
  ASSUME paths \in Seq(Paths), NEW p, Registered(p)
  PROVE  FdOf(p) \in FilesOf(paths, p)
<1> DEFINE S == {i \in DOMAIN paths : paths[i] = p}
<1>1. S # {} /\ S \in SUBSET Nat
  <2>1. DOMAIN paths = 1 .. Len(paths) /\ Len(paths) \in Nat
    BY LenProperties
  <2> QED BY <2>1 DEF Registered, Range
<1>2. Min(S) \in S
  BY <1>1, FirstOf
<1> QED
  BY <1>2 DEF FdOf, FilesOf

\* The pieces in a FIFO
LEMMA Pieces ==
  ASSUME NEW a, NEW b, NEW c
  PROVE  /\ <<a, b>> \o <<>> = <<a, b>> /\ <<a>> \o <<>> = <<a>>
         /\ <<>> \o <<a>> = <<a>> /\ <<>> \o <<a, b>> = <<a, b>>
         /\ <<a>> \o <<b, c>> = <<a, b, c>>
         /\ Append(<<>>, a) = <<a>>
         /\ Tail(<<a>>) = <<>> /\ Tail(<<a, b, c>>) = <<b, c>>
         /\ SubSeq(<<a, b>>, 3, Len(<<a, b>>)) = <<>>
<1> DEFINE S == {a, b, c}
<1>1. <<>> \in Seq(S) /\ <<a>> \in Seq(S) /\ <<a, b>> \in Seq(S) /\ <<b, c>> \in Seq(S)
      /\ <<a, b, c>> \in Seq(S)
  OBVIOUS
<1>2. /\ <<a, b>> \o <<>> = <<a, b>> /\ <<a>> \o <<>> = <<a>>
      /\ <<>> \o <<a>> = <<a>> /\ <<>> \o <<a, b>> = <<a, b>>
  BY <1>1, ConcatEmptySeq
<1>3. Append(<<>>, a) = <<a>> /\ Tail(<<a>>) = <<>>
  OBVIOUS
<1>4. <<a>> \o <<b, c>> = <<a, b, c>>
  <2>1. PICK s \in Seq(S), t \in Seq(S), u \in Seq(S) :
          /\ s = <<a>> /\ t = <<b, c>> /\ u = <<a, b, c>>
          /\ Len(s) = 1 /\ s[1] = a /\ Len(t) = 2 /\ t[1] = b /\ t[2] = c
          /\ Len(u) = 3 /\ u[1] = a /\ u[2] = b /\ u[3] = c
    BY <1>1
  <2>2. /\ s \o t \in Seq(S) /\ Len(s \o t) = 3
        /\ (s \o t)[1] = a /\ (s \o t)[2] = b /\ (s \o t)[3] = c
    <3>1. /\ s \o t \in Seq(S) /\ Len(s \o t) = Len(s) + Len(t)
          /\ \A i \in 1 .. Len(s) + Len(t) :
               (s \o t)[i] = IF i <= Len(s) THEN s[i] ELSE t[i - Len(s)]
      BY <2>1, ConcatProperties
    <3>2. 1 \in 1 .. 3 /\ 2 \in 1 .. 3 /\ 3 \in 1 .. 3 /\ 2 - 1 = 1 /\ 3 - 1 = 2 /\ 1 + 2 = 3
      OBVIOUS
    <3> QED BY <2>1, <3>1, <3>2
  <2>3. ASSUME NEW i \in 1 .. 3 PROVE (s \o t)[i] = u[i]
    <3>1. i = 1 \/ i = 2 \/ i = 3
      OBVIOUS
    <3> QED BY <3>1, <2>1, <2>2
  <2>4. s \o t = u
    BY <2>1, <2>2, <2>3, SeqEqual
  <2> QED BY <2>1, <2>4
<1>5. Tail(<<a, b, c>>) = <<b, c>>
  <2>1. PICK s \in Seq(S), t \in Seq(S) :
          /\ s = <<a, b, c>> /\ t = <<b, c>> /\ Len(s) = 3 /\ s[2] = b /\ s[3] = c
          /\ Len(t) = 2 /\ t[1] = b /\ t[2] = c
    BY <1>1
  <2>2. /\ Tail(s) \in Seq(S) /\ Len(Tail(s)) = 2
        /\ \A i \in 1 .. 2 : Tail(s)[i] = s[i + 1]
    <3>1. s # <<>>
      BY <2>1, EmptySeq
    <3>2. Tail(s) \in Seq(S) /\ Len(Tail(s)) = Len(s) - 1
          /\ \A i \in 1 .. Len(Tail(s)) : Tail(s)[i] = s[i + 1]
      BY <2>1, <3>1, HeadTailProperties
    <3> QED BY <2>1, <3>2
  <2>3. ASSUME NEW i \in 1 .. 2 PROVE Tail(s)[i] = t[i]
    <3>1. i = 1 \/ i = 2
      OBVIOUS
    <3> QED BY <3>1, <2>1, <2>2
  <2>4. Tail(s) = t
    BY <2>1, <2>2, <2>3, SeqEqual
  <2> QED BY <2>1, <2>4
<1>6. SubSeq(<<a, b>>, 3, Len(<<a, b>>)) = <<>>
  OBVIOUS
<1> QED
  BY <1>2, <1>3, <1>4, <1>5, <1>6

LEMMA ForwardFacts ==
  ASSUME NEW t, NEW p, NEW dev, NEW v, NEW f, f = Forwarded(t, p, dev),
         NEW g, g = <<Word(v)>> \o f
  PROVE  /\ f # <<>> /\ Len(f) = 2 /\ f[1] = Word(FS_CMD_OPEN)
         /\ f[2].from = t /\ f[2].path = p /\ f[2].device = dev
         /\ SubSeq(f, 3, Len(f)) = <<>> /\ <<>> \o f = f
         /\ g # <<>> /\ Len(g) = 3 /\ Head(g) = Word(v) /\ Tail(g) = f
<1>1. Rest(t, p, dev).from = t /\ Rest(t, p, dev).path = p /\ Rest(t, p, dev).device = dev
  BY DEF Rest
<1>2. PICK w, r, x : w = Word(FS_CMD_OPEN) /\ r = Rest(t, p, dev) /\ x = Word(v)
  OBVIOUS
<1>3. f = <<w, r>>
  BY <1>2 DEF Forwarded
<1>4. f # <<>> /\ Len(f) = 2 /\ f[1] = w /\ f[2] = r
  BY <1>3
<1>5. g = <<x, w, r>>
  BY <1>2, <1>3, Pieces
<1>6. g # <<>> /\ Len(g) = 3 /\ Head(g) = x
  <2>1. <<x, w, r>> # <<>> /\ Len(<<x, w, r>>) = 3 /\ Head(<<x, w, r>>) = x
    OBVIOUS
  <2> QED BY <1>5, <2>1, Zenon
<1>7. SubSeq(f, 3, Len(f)) = <<>> /\ <<>> \o f = f
  BY <1>3, Pieces
<1>8. Tail(g) = f
  <2>1. Tail(<<x, w, r>>) = <<w, r>>
    BY Pieces
  <2> QED BY <1>3, <1>5, <2>1, Zenon
<1> QED
  BY <1>1, <1>2, <1>4, <1>6, <1>7, <1>8

LEMMA Mknod ==
  ASSUME made \in [Fds -> Nat], pool \in Nat, NEW fd, mknod(fd)
  PROVE  /\ made' \in [Fds -> Nat] /\ pool' \in Nat
         /\ \A x \in Fds : made'[x] = IF x = fd /\ pool > 0 THEN made[x] + 1 ELSE made[x]
<1>1. CASE pool > 0
  <2>1. made' = [made EXCEPT ![fd] = made[fd] + 1] /\ pool' = pool - 1
    BY <1>1 DEF mknod
  <2>2. pool' \in Nat
    BY <1>1, <2>1
  <2>3. CASE fd \in Fds
    BY <1>1, <2>1, <2>2, <2>3
  <2>4. CASE fd \notin Fds
    BY <1>1, <2>1, <2>2, <2>4
  <2> QED BY <2>3, <2>4
<1>2. CASE ~ (pool > 0)
  BY <1>2 DEF mknod
<1> QED
  BY <1>1, <1>2

-----------------------------------------------------------------------------
(* What a step does not disturb *)

\* The tasks at some stations stay there with their requests.
Same(place, next, S) ==
  \A t \in Tasks : place[t] \in S \/ next[t] \in S => next[t] = place[t] /\ asked'[t] = asked[t]
Growing == \A r, v : RightIn(paths, r, v) => RightIn(paths', r, v)

LEMMA FifoStays ==
  ASSUME Shape, NEW place, NEW next, InFifo(place), Same(place, next, {"asked"}),
         UNCHANGED requests
  PROVE  InFifo(next)'
<1>1. \A i \in 1 .. Len(requests) : requests[i].replyfd \in Tasks
  BY ElementOfSeq DEF Shape, Posted, Sent
<1> QED
  BY <1>1 DEF InFifo, Same

LEMMA WriteStays ==
  ASSUME NEW place, NEW next, InWrite(place), Same(place, next, {"answering", "sent"}),
         Growing, UNCHANGED out
  PROVE  InWrite(next)'
<1>1. ASSUME NEW t \in Tasks, next[t] = "answering"
      PROVE  \E v : out' = Answering(t, v) /\ RightIn(paths', asked'[t], v)
  <2>1. place[t] = "answering" /\ asked'[t] = asked[t]
    BY <1>1 DEF Same
  <2>2. PICK v : out = Answering(t, v) /\ RightIn(paths, asked[t], v)
    BY <2>1 DEF InWrite
  <2> QED BY <2>1, <2>2 DEF Growing
<1>2. ASSUME NEW t \in Tasks, next[t] = "sent"
      PROVE  \E dev : out' = [to |-> romfs, words |-> Forwarded(t, asked'[t].path, dev)]
  <2>1. place[t] = "sent" /\ asked'[t] = asked[t]
    BY <1>2 DEF Same
  <2> QED BY <2>1 DEF InWrite
<1>3. out' = NoWrite \/ \E t \in Tasks : next[t] \in {"answering", "sent"}
  BY DEF InWrite, Same
<1> QED
  BY <1>1, <1>2, <1>3 DEF InWrite

LEMMA OwnStays ==
  ASSUME NEW place, NEW next, InOwn(place), Same(place, next, {"answered"}), Growing,
         \A t \in Tasks \ {romfs} : fifo'[t] = fifo[t]
  PROVE  InOwn(next)'
<1> SUFFICES ASSUME NEW t \in Tasks \ {romfs}, fifo[t] # <<>>
             PROVE  \E v : /\ next[t] = "answered" /\ RightIn(paths', asked'[t], v)
                           /\ fifo'[t] = <<Word(v)>>
  BY DEF InOwn, HasAnswer
<1>1. PICK v : place[t] = "answered" /\ RightIn(paths, asked[t], v) /\ fifo[t] = <<Word(v)>>
  BY DEF InOwn, HasAnswer
<1> QED
  BY <1>1 DEF Same, Growing

LEMMA RomfsStays ==
  ASSUME NEW place, NEW next, InRomfs(place), Same(place, next, {"queued"}), Growing,
         place[romfs] = "answered" <=> next[romfs] = "answered",
         place[romfs] = "answered" => asked'[romfs] = asked[romfs],
         fifo'[romfs] = fifo[romfs]
  PROVE  InRomfs(next)'
<1>1. PICK answer, message :
        /\ fifo[romfs] = answer \o message
        /\ AnswerPart(place, answer) /\ MessagePart(place, message)
  BY DEF InRomfs
<1>2. AnswerPart(next, answer)'
  BY <1>1 DEF AnswerPart, HasAnswer, Growing
<1>3. MessagePart(next, message)'
  BY <1>1 DEF MessagePart, Same
<1> QED
  BY <1>1, <1>2, <1>3 DEF InRomfs

LEMMA OpenStays ==
  ASSUME NEW place, NEW next, InOpen(place), Same(place, next, {"opened"}), Growing,
         UNCHANGED <<opening, status>>, done'[romfs] = done[romfs], phase'[romfs] = phase[romfs],
         phase[romfs] = "wait" => asked'[romfs] = asked[romfs]
  PROVE  InOpen(next)'
BY DEF InOpen, Same, Growing

\* A task's request goes into the FIFO of the path server.
LEMMA SendStep ==
  ASSUME BootPrograms, Shape, NEW place, Placed(place), NEW t \in Tasks, NEW r \in Asks, Send(t, r),
         NEW next, next = [place EXCEPT ![t] = "asked"]
  PROVE  /\ place[t] = "none" /\ next \in [Tasks -> Stations] /\ Growing
         /\ \A u \in Tasks : next[u] = "none" <=> phase'[u] # "wait"
         /\ \A S : "none" \notin S /\ "asked" \notin S => Same(place, next, S)
         /\ InFifo(next)' /\ InWrite(next)' /\ InOwn(next)' /\ InRomfs(next)'
         /\ Shape' \/ done' \notin [Tasks -> Nat]
         /\ asked' = [asked EXCEPT ![t] = r] /\ phase' = [phase EXCEPT ![t] = "wait"]
<1>1. /\ phase[t] = "idle" /\ requests' = Append(requests, Sent(r, t))
      /\ asked' = [asked EXCEPT ![t] = r] /\ phase' = [phase EXCEPT ![t] = "wait"]
      /\ UNCHANGED <<paths, fs, mounts, fifo, made, pool, out>>
  BY DEF Send, tables
<1>2. /\ place \in [Tasks -> Stations] /\ \A u \in Tasks : place[u] = "none" <=> phase[u] # "wait"
      /\ InFifo(place) /\ InWrite(place) /\ InOwn(place) /\ InRomfs(place)
  BY DEF Placed
<1>3. place[t] = "none" /\ next \in [Tasks -> Stations] /\ next[t] = "asked"
      /\ \A u \in Tasks : u # t => next[u] = place[u]
  BY <1>1, <1>2 DEF Stations
<1>4. /\ \A u \in Tasks : u # t => asked'[u] = asked[u] /\ phase'[u] = phase[u]
      /\ asked'[t] = r /\ phase'[t] = "wait"
  BY <1>1 DEF Shape
<1>5. \A u \in Tasks : next[u] = "none" <=> phase'[u] # "wait"
  BY <1>2, <1>3, <1>4
<1>6. \A S : "none" \notin S /\ "asked" \notin S => Same(place, next, S)
  BY <1>3, <1>4 DEF Same
<1>7. Growing
  BY <1>1 DEF Growing
<1>8. InWrite(next)' /\ InOwn(next)'
  <2>1. Same(place, next, {"answering", "sent"}) /\ Same(place, next, {"answered"})
    BY <1>6
  <2>2. InWrite(next)'
    BY <1>1, <1>2, <1>7, <2>1, WriteStays
  <2>3. InOwn(next)'
    BY <1>1, <1>2, <1>7, <2>1, OwnStays
  <2> QED BY <2>2, <2>3
<1>9. InRomfs(next)'
  <2>1. Same(place, next, {"queued"})
    BY <1>6
  <2>2. place[romfs] = "answered" <=> next[romfs] = "answered"
    BY <1>3, Servers
  <2>3. place[romfs] = "answered" => asked'[romfs] = asked[romfs]
    BY <1>3, <1>4, Servers
  <2> QED BY <1>1, <1>2, <1>7, <2>1, <2>2, <2>3, RomfsStays
<1>10. requests' \in Seq(Posted) /\ InFifo(next)'
  <2>1. Sent(r, t) \in Posted /\ Sent(r, t).replyfd = t /\ Sent(r, t).ask = r
    BY DEF Posted, Sent
  <2>2. PICK n \in Nat, s \in Seq(Posted), q \in Seq(Posted) :
          /\ q = requests /\ s = requests' /\ n = Len(q) /\ Len(s) = n + 1
          /\ \A i \in 1 .. n : s[i] = q[i]
          /\ s[n + 1] = Sent(r, t)
    <3>1. requests \in Seq(Posted)
      BY DEF Shape
    <3>2. /\ Append(requests, Sent(r, t)) \in Seq(Posted)
          /\ Len(Append(requests, Sent(r, t))) = Len(requests) + 1
          /\ \A i \in 1 .. Len(requests) : Append(requests, Sent(r, t))[i] = requests[i]
          /\ Append(requests, Sent(r, t))[Len(requests) + 1] = Sent(r, t)
      BY <2>1, <3>1, AppendProperties
    <3>3. Len(requests) \in Nat
      BY <3>1, LenProperties
    <3> QED BY <1>1, <3>1, <3>2, <3>3
  <2>3. \A i \in 1 .. n : q[i].replyfd \in Tasks /\ place[q[i].replyfd] = "asked"
                          /\ q[i].ask = asked[q[i].replyfd]
    <3>1. \A i \in 1 .. n : q[i] \in Posted
      BY <2>2, ElementOfSeq
    <3> QED BY <1>2, <2>2, <3>1 DEF Posted, Sent, InFifo
  <2>4. \A i \in 1 .. n : q[i].replyfd # t
    BY <1>3, <2>3
  <2>5. ASSUME NEW i \in 1 .. n + 1
        PROVE  next[s[i].replyfd] = "asked" /\ s[i].ask = asked'[s[i].replyfd]
    <3>1. CASE i = n + 1
      BY <1>3, <1>4, <2>1, <2>2, <3>1
    <3>2. CASE i # n + 1
      <4>1. i \in 1 .. n
        BY <3>2
      <4> QED BY <1>3, <1>4, <2>2, <2>3, <2>4, <4>1
    <3> QED BY <3>1, <3>2
  <2>6. ASSUME NEW i \in 1 .. n + 1, NEW j \in 1 .. n + 1, s[i].replyfd = s[j].replyfd
        PROVE  i = j
    <3>1. \A k \in 1 .. n + 1 : k \in 1 .. n \/ k = n + 1
      OBVIOUS
    <3>2. \A k, l \in 1 .. n : q[k].replyfd = q[l].replyfd => k = l
      BY <1>2, <2>2 DEF InFifo
    <3> QED BY <2>1, <2>2, <2>4, <2>6, <3>1, <3>2
  <2> QED BY <2>2, <2>5, <2>6 DEF InFifo
<1>11. Shape' \/ done' \notin [Tasks -> Nat]
  BY <1>1, <1>10 DEF Shape
<1> QED
  BY <1>1, <1>3, <1>5, <1>6, <1>7, <1>8, <1>9, <1>10, <1>11


\* The path server is in one write at most.
LEMMA OneWrite ==
  ASSUME BootPrograms, NEW place, Placed(place)
  PROVE  /\ \A t, u \in Tasks : place[t] \in {"answering", "sent"} /\ place[u] \in {"answering", "sent"} => t = u
         /\ out = NoWrite => \A t \in Tasks : place[t] \notin {"answering", "sent"}
         /\ \A t, v : out = Answering(t, v) =>
              t \in Tasks /\ place[t] = "answering" /\ RightIn(paths, asked[t], v)
<1>1. \A t, v : Answering(t, v).to = t /\ Len(Answering(t, v).words) = 1
  BY DEF Answering
<1>2. ASSUME NEW t, NEW p, NEW dev
      PROVE  Len(Forwarded(t, p, dev)) = 2 /\ Forwarded(t, p, dev)[2].from = t
  <2>1. PICK f, g : f = Forwarded(t, p, dev) /\ g = <<Word(0)>> \o f
    OBVIOUS
  <2>2. Len(f) = 2 /\ f[2].from = t
    BY <2>1, ForwardFacts
  <2> QED BY <2>1, <2>2
<1>3. \A t, v : Answering(t, v) # NoWrite
  BY DEF Answering, NoWrite
<1>4. \A m : [to |-> romfs, words |-> m] # NoWrite /\ [to |-> romfs, words |-> m].words = m
  BY DEF NoWrite
<1>5. InWrite(place)
  BY DEF Placed
<1>6. ASSUME NEW t \in Tasks, NEW u \in Tasks, place[t] \in {"answering", "sent"},
             place[u] \in {"answering", "sent"}
      PROVE  t = u
  <2>1. CASE place[t] = "answering" /\ place[u] = "answering"
    BY <1>1, <1>5, <2>1 DEF InWrite
  <2>2. CASE place[t] = "sent" /\ place[u] = "sent"
    <3>1. PICK d : out = [to |-> romfs, words |-> Forwarded(t, asked[t].path, d)]
      BY <1>5, <2>2 DEF InWrite
    <3>2. PICK e : out = [to |-> romfs, words |-> Forwarded(u, asked[u].path, e)]
      BY <1>5, <2>2 DEF InWrite
    <3>3. Forwarded(t, asked[t].path, d) = Forwarded(u, asked[u].path, e)
      BY <1>4, <3>1, <3>2, Zenon
    <3>4. Forwarded(t, asked[t].path, d)[2].from = t /\ Forwarded(u, asked[u].path, e)[2].from = u
      BY <1>2
    <3> QED BY <3>3, <3>4
  <2>3. \A x, y \in Tasks : ~ (place[x] = "answering" /\ place[y] = "sent")
    <3> SUFFICES ASSUME NEW x \in Tasks, NEW y \in Tasks, place[x] = "answering", place[y] = "sent"
                 PROVE  FALSE
      OBVIOUS
    <3>1. Len(out.words) = 1
      BY <1>1, <1>5 DEF InWrite
    <3>2. PICK e : out = [to |-> romfs, words |-> Forwarded(y, asked[y].path, e)]
      BY <1>5 DEF InWrite
    <3>3. out.words = Forwarded(y, asked[y].path, e)
      BY <1>4, <3>2, Zenon
    <3>4. Len(out.words) = 2
      BY <1>2, <3>3
    <3> QED BY <3>1, <3>4
  <2> QED BY <1>6, <2>1, <2>2, <2>3
<1>7. ASSUME out = NoWrite, NEW t \in Tasks PROVE place[t] \notin {"answering", "sent"}
  BY <1>3, <1>4, <1>5, <1>7 DEF InWrite
<1>8. ASSUME NEW t, NEW v, out = Answering(t, v)
      PROVE  t \in Tasks /\ place[t] = "answering" /\ RightIn(paths, asked[t], v)
  <2>1. PICK u \in Tasks : place[u] \in {"answering", "sent"}
    BY <1>3, <1>5, <1>8 DEF InWrite
  <2>2. place[u] # "sent"
    <3> SUFFICES ASSUME place[u] = "sent" PROVE FALSE
      OBVIOUS
    <3>1. PICK e : out = [to |-> romfs, words |-> Forwarded(u, asked[u].path, e)]
      BY <1>5 DEF InWrite
    <3>2. out.words = Forwarded(u, asked[u].path, e)
      BY <1>4, <3>1, Zenon
    <3>3. Len(out.words) = 2
      BY <1>2, <3>2
    <3> QED BY <1>1, <1>8, <3>3
  <2>3. PICK w : out = Answering(u, w) /\ RightIn(paths, asked[u], w)
    BY <1>5, <2>1, <2>2 DEF InWrite
  <2>4. u = t
    <3>1. Answering(u, w).to = u /\ Answering(t, v).to = t
      BY <1>1
    <3> QED BY <1>8, <2>3, <3>1
  <2>5. w = v
    BY <1>8, <2>3, <2>4, WordFacts
  <2> QED BY <2>1, <2>2, <2>3, <2>4, <2>5
<1> QED
  BY <1>6, <1>7, <1>8

\* What a task that waits reads from its FIFO
LEMMA OwnAnswer ==
  ASSUME BootPrograms, NEW place, Placed(place), NEW t \in Tasks, phase[t] = "wait", fifo[t] # <<>>
  PROVE  /\ place[t] = "answered"
         /\ \E v : /\ RightIn(paths, asked[t], v) /\ Head(fifo[t]) = Word(v)
                   /\ t # romfs \/ (\A u \in Tasks : place[u] # "queued") => fifo[t] = <<Word(v)>>
         /\ t # romfs => Tail(fifo[t]) = <<>>
         /\ t = romfs => MessagePart(place, Tail(fifo[romfs]))
<1>1. CASE t # romfs
  <2>1. PICK v : HasAnswer(place, t, v) /\ fifo[t] = <<Word(v)>>
    BY <1>1 DEF Placed, InOwn
  <2>2. Head(<<Word(v)>>) = Word(v) /\ Tail(<<Word(v)>>) = <<>>
    OBVIOUS
  <2> QED BY <1>1, <2>1, <2>2 DEF HasAnswer
<1>2. CASE t = romfs
  <2>1. PICK answer, message :
          /\ fifo[romfs] = answer \o message
          /\ AnswerPart(place, answer) /\ MessagePart(place, message)
    BY DEF Placed, InRomfs
  <2>2. message = <<>> \/ \E u, p, dev : message = Forwarded(u, p, dev)
    BY <2>1 DEF MessagePart
  <2>3. place[romfs] = "answered"
    <3>1. SUFFICES ASSUME place[romfs] # "answered" PROVE FALSE
      BY <1>2
    <3>2. answer = <<>>
      BY <2>1, <3>1 DEF AnswerPart, HasAnswer
    <3>3. <<>> \o message = message
      BY <2>2, ForwardFacts, Pieces
    <3>4. message # <<>>
      BY <1>2, <2>1, <3>2, <3>3
    <3>5. PICK u \in Tasks : place[u] = "queued"
      BY <2>1, <3>4 DEF MessagePart
    <3>6. place[romfs] = "none"
      BY <3>1, <3>5 DEF Placed, RomfsReady
    <3> QED BY <1>2, <3>6 DEF Placed
  <2>4. PICK v : RightIn(paths, asked[romfs], v) /\ answer = <<Word(v)>>
    BY <2>1, <2>3 DEF AnswerPart, HasAnswer
  <2>5. Head(fifo[romfs]) = Word(v) /\ Tail(fifo[romfs]) = message
    <3>1. CASE message = <<>>
      <4>1. fifo[romfs] = <<Word(v)>>
        BY <2>1, <2>4, <3>1, Pieces
      <4>2. Head(<<Word(v)>>) = Word(v) /\ Tail(<<Word(v)>>) = <<>>
        OBVIOUS
      <4> QED BY <3>1, <4>1, <4>2, Zenon
    <3>2. CASE message # <<>>
      <4>1. PICK u, p, dev : message = Forwarded(u, p, dev)
        BY <2>2, <3>2
      <4>2. fifo[romfs] = <<Word(v)>> \o message
        BY <2>1, <2>4
      <4>3. PICK f, g : f = message /\ g = fifo[romfs]
        OBVIOUS
      <4>4. Head(g) = Word(v) /\ Tail(g) = f
        BY <4>1, <4>2, <4>3, ForwardFacts
      <4> QED BY <4>3, <4>4
    <3> QED BY <3>1, <3>2
  <2>6. (\A u \in Tasks : place[u] # "queued") => fifo[romfs] = <<Word(v)>>
    <3> SUFFICES ASSUME \A u \in Tasks : place[u] # "queued" PROVE fifo[romfs] = <<Word(v)>>
      OBVIOUS
    <3>1. message = <<>>
      BY <2>1 DEF MessagePart
    <3> QED BY <2>1, <2>4, <3>1, Pieces
  <2> QED BY <1>2, <2>1, <2>3, <2>4, <2>5, <2>6
<1> QED
  BY <1>1, <1>2

LEMMA ProgramFacts ==
  ASSUME BootPrograms, NEW t \in Tasks, NEW n \in Nat, n < Len(Programs[t]),
         NEW r, r = Programs[t][n + 1]
  PROVE  /\ r \in Asks
         /\ t # romfs => r \in Plain
         /\ t = romfs => n = 0 /\ r = RegisterFs
         /\ t = romdev => r.cmd = "register"
<1>1. CASE t = romfs
  <2>1. Programs[t] = <<RegisterFs>>
    BY <1>1 DEF BootPrograms
  <2>2. Len(Programs[t]) = 1 /\ Programs[t][1] = RegisterFs
    BY <2>1
  <2>3. n = 0
    BY <2>2
  <2> QED BY <1>1, <2>2, <2>3, Servers DEF Asks
<1>2. CASE t # romfs
  <2>1. PICK s \in Seq(Plain) : s = Programs[t]
    BY <1>2 DEF BootPrograms
  <2>2. Len(s) \in Nat
    BY LenProperties
  <2>3. n + 1 \in 1 .. Len(s)
    BY <2>1, <2>2
  <2>4. r \in Plain
    BY <2>1, <2>3, ElementOfSeq
  <2>5. t = romdev => r.cmd = "register"
    <3> SUFFICES ASSUME t = romdev PROVE r.cmd = "register"
      OBVIOUS
    <3>1. PICK q \in Seq({Register(p) : p \in Paths}) : q = Programs[t]
      BY DEF BootPrograms
    <3>2. r \in {Register(p) : p \in Paths}
      BY <2>1, <2>3, <3>1, ElementOfSeq
    <3> QED BY <3>2, RequestKinds
  <2> QED BY <1>2, <2>4, <2>5 DEF Asks
<1> QED
  BY <1>1, <1>2

LEMMA AskStep ==
  ASSUME BootPrograms, Shape, NEW place, Placed(place), NEW t \in Tasks, Ask(t)
  PROVE  Shape' /\ \E next : Placed(next)'
<1>1. PICK r : r = Programs[t][done[t] + 1]
  OBVIOUS
<1>2. /\ done[t] < Len(Programs[t]) /\ Send(t, r) /\ done' = [done EXCEPT ![t] = @ + 1]
      /\ opening' = opening /\ status' = status /\ nodes' = nodes
  BY <1>1 DEF Ask, server
<1>3. done \in [Tasks -> Nat] /\ done[t] \in Nat
  BY DEF Shape
<1>4. /\ r \in Asks
      /\ t # romfs => r \in Plain
      /\ t = romfs => done[t] = 0 /\ r = RegisterFs
      /\ t = romdev => r.cmd = "register"
  BY <1>1, <1>2, <1>3, ProgramFacts
<1>5. /\ done' \in [Tasks -> Nat] /\ done'[t] = done[t] + 1
      /\ \A u \in Tasks : u # t => done'[u] = done[u]
  BY <1>2, <1>3
<1>6. PICK next : next = [place EXCEPT ![t] = "asked"]
  OBVIOUS
<1>7. /\ place[t] = "none" /\ next \in [Tasks -> Stations] /\ Growing
      /\ \A u \in Tasks : next[u] = "none" <=> phase'[u] # "wait"
      /\ \A S : "none" \notin S /\ "asked" \notin S => Same(place, next, S)
      /\ InFifo(next)' /\ InWrite(next)' /\ InOwn(next)' /\ InRomfs(next)'
      /\ Shape' \/ done' \notin [Tasks -> Nat]
      /\ asked' = [asked EXCEPT ![t] = r] /\ phase' = [phase EXCEPT ![t] = "wait"]
  <2>1. place[t] = "none" /\ next \in [Tasks -> Stations] /\ Growing
    BY <1>2, <1>4, <1>6, SendStep
  <2>2. \A u \in Tasks : next[u] = "none" <=> phase'[u] # "wait"
    BY <1>2, <1>4, <1>6, SendStep
  <2>3. \A S : "none" \notin S /\ "asked" \notin S => Same(place, next, S)
    BY <1>2, <1>4, <1>6, SendStep
  <2>4. InFifo(next)' /\ InWrite(next)' /\ InOwn(next)' /\ InRomfs(next)'
    BY <1>2, <1>4, <1>6, SendStep
  <2>5. /\ Shape' \/ done' \notin [Tasks -> Nat]
        /\ asked' = [asked EXCEPT ![t] = r] /\ phase' = [phase EXCEPT ![t] = "wait"]
    BY <1>2, <1>4, <1>6, SendStep
  <2> QED BY <2>1, <2>2, <2>3, <2>4, <2>5
<1>8. /\ \A u \in Tasks : u # t => asked'[u] = asked[u] /\ phase'[u] = phase[u] /\ next[u] = place[u]
      /\ asked'[t] = r /\ phase'[t] = "wait" /\ next[t] = "asked"
  BY <1>6, <1>7 DEF Shape, Placed
<1>9. fs' = fs /\ mounts' = mounts
  BY <1>2 DEF Send, tables
<1>10. InOpen(place) /\ InProgram(place) /\ RomfsReady(place)
  BY DEF Placed
<1>11. InOpen(next)'
  <2>1. CASE t = romfs
    <3>1. opening = NoRequest
      BY <1>4, <1>10, <2>1 DEF InOpen
    <3> QED BY <1>2, <3>1 DEF InOpen
  <2>2. CASE t # romfs
    <3>1. Same(place, next, {"opened"})
      BY <1>7
    <3> QED BY <1>2, <1>5, <1>7, <1>8, <1>10, <2>2, <3>1, Servers, OpenStays
  <2> QED BY <2>1, <2>2
<1>12. InProgram(next)'
  <2>1. Same(place, next, {"sent", "queued", "opened"})
    BY <1>7
  <2>2. \A u \in Tasks : next[u] \in {"sent", "queued", "opened"} =>
          u # romfs /\ asked'[u].cmd = "open" /\ asked'[u].path \in Covered
    BY <1>10, <2>1 DEF InProgram, Same
  <2>3. /\ \A u \in Tasks : phase'[u] = "mknod" => u = romdev /\ \E v : asked'[u] = Word(v)
        /\ \A u \in Tasks \ {romfs} : phase'[u] = "wait" => asked'[u] \in Plain
    BY <1>4, <1>8, <1>10 DEF InProgram
  <2>4. phase'[romdev] = "wait" => asked'[romdev].cmd = "register"
    BY <1>4, <1>8, <1>10, Servers DEF InProgram
  <2>5. phase'[romfs] = "wait" /\ opening' = NoRequest => asked'[romfs] = RegisterFs
    BY <1>2, <1>4, <1>8, <1>10, Servers DEF InProgram
  <2> QED BY <2>2, <2>3, <2>4, <2>5 DEF InProgram
<1>13. RomfsReady(next)'
  <2>1. CASE t = romfs
    <3>1. done[romfs] = 0 /\ fs = <<>> /\ mounts = <<>> /\ done'[romfs] = 1
      BY <1>4, <1>5, <1>10, <2>1 DEF RomfsReady
    <3>2. \A u \in Tasks : next[u] \notin {"sent", "queued"}
      BY <1>8, <1>10, <3>1 DEF RomfsReady
    <3> QED BY <1>9, <3>1, <3>2 DEF RomfsReady
  <2>2. CASE t # romfs
    <3>1. done'[romfs] = done[romfs] /\ next[romfs] = place[romfs] /\ asked'[romfs] = asked[romfs]
          /\ phase'[romfs] = phase[romfs]
      BY <1>5, <1>8, <2>2, Servers
    <3>2. \A u \in Tasks : next[u] \in {"sent", "queued"} => place[u] \in {"sent", "queued"}
      BY <1>8
    <3> QED BY <1>2, <1>9, <1>10, <3>1, <3>2 DEF RomfsReady
  <2> QED BY <2>1, <2>2
<1> QED
  BY <1>5, <1>7, <1>11, <1>12, <1>13 DEF Placed

\* A task takes the answer out of its FIFO.
LEMMA ReadStep ==
  ASSUME BootPrograms, Shape, NEW place, Placed(place), NEW t \in Tasks, ReadAnswer(t),
         NEW a, NEW ph \in {"idle", "mknod"},
         asked' = [asked EXCEPT ![t] = a], phase' = [phase EXCEPT ![t] = ph],
         NEW next, next = [place EXCEPT ![t] = "none"]
  PROVE  /\ place[t] = "answered" /\ next \in [Tasks -> Stations] /\ Growing
         /\ \A u \in Tasks : next[u] = "none" <=> phase'[u] # "wait"
         /\ \A S : "none" \notin S /\ "answered" \notin S => Same(place, next, S)
         /\ InFifo(next)' /\ InWrite(next)' /\ InOwn(next)' /\ InRomfs(next)'
         /\ made' \in [Fds -> Nat] /\ pool' \in Nat => Shape'
<1>1. /\ phase[t] = "wait" /\ fifo[t] # <<>>
      /\ fifo' = [fifo EXCEPT ![t] = Tail(@)]
      /\ UNCHANGED <<paths, fs, mounts, requests, done, out>>
  BY DEF ReadAnswer, tables
<1>2. /\ place \in [Tasks -> Stations] /\ \A u \in Tasks : place[u] = "none" <=> phase[u] # "wait"
      /\ InFifo(place) /\ InWrite(place) /\ InOwn(place) /\ InRomfs(place)
  BY DEF Placed
<1>3. /\ place[t] = "answered"
      /\ t # romfs => Tail(fifo[t]) = <<>>
      /\ t = romfs => MessagePart(place, Tail(fifo[romfs]))
  BY <1>1, OwnAnswer
<1>4. next \in [Tasks -> Stations] /\ next[t] = "none" /\ \A u \in Tasks : u # t => next[u] = place[u]
  BY <1>2 DEF Stations
<1>5. /\ \A u \in Tasks : u # t => asked'[u] = asked[u] /\ phase'[u] = phase[u] /\ fifo'[u] = fifo[u]
      /\ asked'[t] = a /\ phase'[t] = ph /\ fifo'[t] = Tail(fifo[t])
  BY <1>1 DEF Shape
<1>6. \A u \in Tasks : next[u] = "none" <=> phase'[u] # "wait"
  BY <1>2, <1>4, <1>5
<1>7. \A S : "none" \notin S /\ "answered" \notin S => Same(place, next, S)
  BY <1>3, <1>4, <1>5 DEF Same
<1>8. Growing
  BY <1>1 DEF Growing
<1>9. InFifo(next)' /\ InWrite(next)'
  <2>1. Same(place, next, {"asked"}) /\ Same(place, next, {"answering", "sent"})
    BY <1>7
  <2>2. InFifo(next)'
    BY <1>1, <1>2, <2>1, FifoStays
  <2>3. InWrite(next)'
    BY <1>1, <1>2, <1>8, <2>1, WriteStays
  <2> QED BY <2>2, <2>3
<1>10. InOwn(next)'
  <2> SUFFICES ASSUME NEW u \in Tasks \ {romfs}, fifo'[u] # <<>>
               PROVE  \E v : /\ next[u] = "answered" /\ RightIn(paths', asked'[u], v)
                             /\ fifo'[u] = <<Word(v)>>
    BY DEF InOwn, HasAnswer
  <2>1. u # t
    BY <1>3, <1>5
  <2>2. PICK v : place[u] = "answered" /\ RightIn(paths, asked[u], v) /\ fifo[u] = <<Word(v)>>
    BY <1>2, <1>5, <2>1 DEF InOwn, HasAnswer
  <2> QED BY <1>1, <1>4, <1>5, <2>1, <2>2
<1>11. InRomfs(next)'
  <2>1. Same(place, next, {"queued"})
    BY <1>7
  <2>2. CASE t = romfs
    <3>1. PICK message : message = Tail(fifo[romfs]) /\ MessagePart(place, message)
      BY <1>3, <2>2
    <3>2. message = <<>> \/ \E u, p, dev : message = Forwarded(u, p, dev)
      BY <3>1 DEF MessagePart
    <3>3. <<>> \o message = message
      BY <3>2, ForwardFacts, Pieces
    <3>4. PICK answer : answer = <<>>
      OBVIOUS
    <3>5. fifo'[romfs] = answer \o message
      BY <1>5, <2>2, <3>1, <3>3, <3>4
    <3>6. AnswerPart(next, answer)'
      BY <1>4, <2>2, <3>4 DEF AnswerPart
    <3>7. MessagePart(next, message)'
      <4>1. MessagePart(place, message)
        BY <3>1
      <4> QED BY <2>1, <4>1 DEF MessagePart, Same
    <3> QED BY <3>5, <3>6, <3>7 DEF InRomfs
  <2>3. CASE t # romfs
    <3>1. place[romfs] = "answered" <=> next[romfs] = "answered"
      BY <1>4, <2>3, Servers
    <3>2. asked'[romfs] = asked[romfs] /\ fifo'[romfs] = fifo[romfs]
      BY <1>5, <2>3, Servers
    <3> QED BY <1>2, <1>8, <2>1, <3>1, <3>2, RomfsStays
  <2> QED BY <2>2, <2>3
<1>12. made' \in [Fds -> Nat] /\ pool' \in Nat => Shape'
  BY <1>1 DEF Shape
<1> QED
  BY <1>3, <1>4, <1>6, <1>7, <1>8, <1>9, <1>10, <1>11, <1>12

LEMMA ReturnStep ==
  ASSUME BootPrograms, Shape, NEW place, Placed(place), NEW t \in Tasks, Return(t)
  PROVE  Shape' /\ \E next : Placed(next)'
<1>1. /\ t = romfs => opening = NoRequest
      /\ ReadAnswer(t) /\ UNCHANGED <<made, pool, opening, status, nodes>>
      /\ UNCHANGED <<paths, fs, mounts, done>>
  BY DEF Return, server, ReadAnswer, tables
<1>2. PICK a, ph : /\ asked' = [asked EXCEPT ![t] = a] /\ phase' = [phase EXCEPT ![t] = ph]
                   /\ ph = "idle" \/ (ph = "mknod" /\ t = romdev /\ a = Word(Answer(t)))
  BY DEF Return
<1>3. PICK next : next = [place EXCEPT ![t] = "none"]
  OBVIOUS
<1>4. /\ place[t] = "answered" /\ next \in [Tasks -> Stations] /\ Growing
      /\ \A u \in Tasks : next[u] = "none" <=> phase'[u] # "wait"
      /\ \A S : "none" \notin S /\ "answered" \notin S => Same(place, next, S)
      /\ InFifo(next)' /\ InWrite(next)' /\ InOwn(next)' /\ InRomfs(next)'
      /\ Shape'
  <2>1. ph \in {"idle", "mknod"}
    BY <1>2
  <2>2. place[t] = "answered" /\ next \in [Tasks -> Stations] /\ Growing
    BY <1>1, <1>2, <1>3, <2>1, ReadStep
  <2>3. \A u \in Tasks : next[u] = "none" <=> phase'[u] # "wait"
    <3> SUFFICES ASSUME NEW u \in Tasks PROVE next[u] = "none" <=> phase'[u] # "wait"
      OBVIOUS
    <3>1. place \in [Tasks -> Stations] /\ (place[u] = "none" <=> phase[u] # "wait")
          /\ phase \in [Tasks -> {"idle", "wait", "mknod"}]
      BY DEF Placed, Shape
    <3> QED BY <1>2, <1>3, <2>1, <3>1 DEF Stations
  <2>4. \A S : "none" \notin S /\ "answered" \notin S => Same(place, next, S)
    BY <1>1, <1>2, <1>3, <2>1, ReadStep
  <2>5. InFifo(next)' /\ InWrite(next)' /\ InOwn(next)' /\ InRomfs(next)'
    BY <1>1, <1>2, <1>3, <2>1, ReadStep
  <2>6. made' \in [Fds -> Nat] /\ pool' \in Nat => Shape'
    BY <1>1, <1>2, <1>3, <2>1, ReadStep
  <2>7. made' \in [Fds -> Nat] /\ pool' \in Nat
    BY <1>1 DEF Shape
  <2> QED BY <2>2, <2>3, <2>4, <2>5, <2>6, <2>7
<1>5. /\ \A u \in Tasks : u # t => asked'[u] = asked[u] /\ phase'[u] = phase[u] /\ next[u] = place[u]
      /\ asked'[t] = a /\ phase'[t] = ph /\ next[t] = "none"
  BY <1>2, <1>3 DEF Shape, Placed
<1>6. InOpen(place) /\ InProgram(place) /\ RomfsReady(place)
  BY DEF Placed
<1>7. InOpen(next)'
  <2>1. CASE t = romfs
    BY <1>1, <2>1 DEF InOpen
  <2>2. CASE t # romfs
    <3>1. Same(place, next, {"opened"})
      BY <1>4
    <3>2. asked'[romfs] = asked[romfs] /\ phase'[romfs] = phase[romfs] /\ done'[romfs] = done[romfs]
      BY <1>1, <1>5, <2>2, Servers
    <3> QED BY <1>1, <1>4, <1>6, <3>1, <3>2, OpenStays
  <2> QED BY <2>1, <2>2
<1>8. InProgram(next)'
  <2>1. Same(place, next, {"sent", "queued", "opened"})
    BY <1>4
  <2>2. \A u \in Tasks : next[u] \in {"sent", "queued", "opened"} =>
          u # romfs /\ asked'[u].cmd = "open" /\ asked'[u].path \in Covered
    BY <1>6, <2>1 DEF InProgram, Same
  <2>3. /\ \A u \in Tasks : phase'[u] = "mknod" => u = romdev /\ \E v : asked'[u] = Word(v)
        /\ \A u \in Tasks \ {romfs} : phase'[u] = "wait" => asked'[u] \in Plain
    BY <1>2, <1>5, <1>6 DEF InProgram
  <2>4. phase'[romdev] = "wait" => asked'[romdev].cmd = "register"
    BY <1>2, <1>5, <1>6, Servers DEF InProgram
  <2>5. phase'[romfs] = "wait" /\ opening' = NoRequest => asked'[romfs] = RegisterFs
    BY <1>1, <1>2, <1>5, <1>6, Servers DEF InProgram
  <2> QED BY <2>2, <2>3, <2>4, <2>5 DEF InProgram
<1>9. RomfsReady(next)'
  <2>1. \A u \in Tasks : next[u] \in {"sent", "queued"} => place[u] \in {"sent", "queued"}
    BY <1>5
  <2>2. next[romfs] \in {"none", place[romfs]} /\ (next[romfs] = "asked" => asked'[romfs] = asked[romfs])
    BY <1>5, Servers
  <2>3. done[romfs] = 0 => phase'[romfs] = phase[romfs]
    <3>1. phase[t] = "wait"
      BY <1>1 DEF ReadAnswer
    <3> QED BY <1>5, <1>6, <3>1, Servers DEF RomfsReady
  <2> QED BY <1>1, <1>6, <2>1, <2>2, <2>3 DEF RomfsReady
<1> QED
  BY <1>4, <1>7, <1>8, <1>9 DEF Placed

LEMMA MakesStep ==
  ASSUME BootPrograms, Shape, NEW place, Placed(place), RomdevMakes
  PROVE  Shape' /\ \E next : Placed(next)'
<1>1. /\ phase[romdev] = "mknod" /\ mknod(asked[romdev].value)
      /\ asked' = [asked EXCEPT ![romdev] = NoRequest] /\ phase' = [phase EXCEPT ![romdev] = "idle"]
      /\ UNCHANGED <<paths, fs, mounts, requests, fifo, done, out, opening, status, nodes>>
  BY DEF RomdevMakes, tables, server
<1>2. /\ place \in [Tasks -> Stations] /\ \A u \in Tasks : place[u] = "none" <=> phase[u] # "wait"
      /\ InFifo(place) /\ InWrite(place) /\ InOwn(place) /\ InRomfs(place)
      /\ InOpen(place) /\ InProgram(place) /\ RomfsReady(place)
  BY DEF Placed
<1>3. made' \in [Fds -> Nat] /\ pool' \in Nat
  BY <1>1, Mknod DEF Shape
<1>4. Shape'
  BY <1>1, <1>3 DEF Shape
<1>5. /\ \A u \in Tasks : u # romdev => asked'[u] = asked[u] /\ phase'[u] = phase[u]
      /\ phase'[romdev] = "idle"
  BY <1>1, Servers DEF Shape
<1>6. \A u \in Tasks : place[u] = "none" <=> phase'[u] # "wait"
  BY <1>1, <1>2, <1>5
<1>7. \A S : "none" \notin S => Same(place, place, S)
  <2>1. place[romdev] = "none"
    BY <1>1, <1>2, Servers
  <2> QED BY <1>5, <2>1 DEF Same
<1>8. Growing
  BY <1>1 DEF Growing
<1>9. InFifo(place)' /\ InWrite(place)' /\ InOwn(place)' /\ InRomfs(place)' /\ InOpen(place)'
  <2>1. /\ Same(place, place, {"asked"}) /\ Same(place, place, {"answering", "sent"})
        /\ Same(place, place, {"answered"}) /\ Same(place, place, {"queued"})
        /\ Same(place, place, {"opened"})
    BY <1>7
  <2>2. asked'[romfs] = asked[romfs] /\ phase'[romfs] = phase[romfs]
    BY <1>5, Servers
  <2>3. InFifo(place)'
    BY <1>1, <1>2, <2>1, FifoStays
  <2>4. InWrite(place)'
    BY <1>1, <1>2, <1>8, <2>1, WriteStays
  <2>5. InOwn(place)'
    BY <1>1, <1>2, <1>8, <2>1, OwnStays
  <2>6. InRomfs(place)'
    BY <1>1, <1>2, <1>8, <2>1, <2>2, RomfsStays
  <2>7. InOpen(place)'
    BY <1>1, <1>2, <1>8, <2>1, <2>2, OpenStays
  <2> QED BY <2>3, <2>4, <2>5, <2>6, <2>7
<1>10. InProgram(place)'
  <2>1. Same(place, place, {"sent", "queued", "opened"})
    BY <1>7
  <2>2. \A u \in Tasks : place[u] \in {"sent", "queued", "opened"} =>
          u # romfs /\ asked'[u].cmd = "open" /\ asked'[u].path \in Covered
    BY <1>2, <2>1 DEF InProgram, Same
  <2> QED BY <1>1, <1>2, <1>5, <2>2, Servers DEF InProgram
<1>11. RomfsReady(place)'
  BY <1>1, <1>2, <1>5, Servers DEF RomfsReady
<1> QED
  BY <1>2, <1>4, <1>6, <1>9, <1>10, <1>11 DEF Placed

\* The path server takes up a request and holds the answer, or the open for romfs_server.
LEMMA ServeStep ==
  ASSUME BootPrograms, Shape, NEW place, Placed(place),
         out = NoWrite, requests # <<>>,
         NEW t, t = Head(requests).replyfd, NEW r, r = Head(requests).ask,
         requests' = Tail(requests), UNCHANGED <<fifo, asked, phase, done, opening, status>>,
         Growing, NEW s \in {"answering", "sent"},
         s = "answering" => \E v : out' = Answering(t, v) /\ RightIn(paths', r, v),
         s = "sent" => /\ \E dev : out' = [to |-> romfs, words |-> Forwarded(t, r.path, dev)]
                       /\ t # romfs /\ r.cmd = "open" /\ r.path \in Covered
                       /\ place[romfs] \in {"none", "answered"} /\ done[romfs] = 1
                       /\ opening.cmd \in {"none", "reply"},
         fs' = fs \/ t = romfs, fs' = <<>> => mounts' = <<>>
  PROVE  requests' \in Seq(Posted) /\ \E next : Placed(next)'
<1>1. PICK next : next = [place EXCEPT ![t] = s]
  OBVIOUS
<1>2. /\ place \in [Tasks -> Stations] /\ \A u \in Tasks : place[u] = "none" <=> phase[u] # "wait"
      /\ InFifo(place) /\ InWrite(place) /\ InOwn(place) /\ InRomfs(place)
      /\ InOpen(place) /\ InProgram(place) /\ RomfsReady(place)
  BY DEF Placed
<1>3. PICK n \in Nat, q \in Seq(Posted), w \in Seq(Posted) :
        /\ q = requests /\ w = requests' /\ Len(q) = n + 1 /\ Len(w) = n
        /\ q[1] \in Posted /\ t = q[1].replyfd /\ r = q[1].ask
        /\ \A i \in 1 .. n : w[i] = q[i + 1]
  <2>1. requests \in Seq(Posted)
    BY DEF Shape
  <2>2. /\ Head(requests) \in Posted /\ Tail(requests) \in Seq(Posted)
        /\ Len(Tail(requests)) = Len(requests) - 1
        /\ \A i \in 1 .. Len(Tail(requests)) : Tail(requests)[i] = requests[i + 1]
    BY <2>1, HeadTailProperties
  <2>3. Head(requests) = requests[1]
    BY <2>1
  <2>4. Len(requests) \in Nat /\ Len(requests) # 0
    BY <2>1, EmptySeq, LenProperties
  <2>5. Len(requests) - 1 \in Nat
    BY <2>4
  <2> QED BY <2>1, <2>2, <2>3, <2>4, <2>5
<1>4. t \in Tasks /\ place[t] = "asked" /\ asked[t] = r
  <2>1. 1 \in 1 .. n + 1
    OBVIOUS
  <2>2. place[requests[1].replyfd] = "asked" /\ requests[1].ask = asked[requests[1].replyfd]
    BY <1>2, <1>3, <2>1 DEF InFifo
  <2>3. q[1].replyfd \in Tasks
    BY <1>3 DEF Posted, Sent
  <2> QED BY <1>3, <2>2, <2>3
<1>5. /\ next \in [Tasks -> Stations] /\ next[t] = s
      /\ \A u \in Tasks : u # t => next[u] = place[u]
  BY <1>1, <1>2, <1>4 DEF Stations
<1>6. \A u \in Tasks : next[u] = "none" <=> phase'[u] # "wait"
  BY <1>2, <1>4, <1>5
<1>7. \A S : "asked" \notin S /\ s \notin S => Same(place, next, S)
  BY <1>4, <1>5 DEF Same
<1>8. InFifo(next)'
  <2>1. ASSUME NEW i \in 1 .. n
        PROVE  i + 1 \in 1 .. n + 1 /\ i + 1 # 1 /\ w[i] = q[i + 1] /\ q[i + 1] \in Posted
    <3>1. i + 1 \in 1 .. n + 1 /\ i + 1 # 1
      OBVIOUS
    <3> QED BY <1>3, <3>1, ElementOfSeq
  <2>2. /\ \A i \in 1 .. n + 1 : place[q[i].replyfd] = "asked" /\ q[i].ask = asked[q[i].replyfd]
        /\ \A i, j \in 1 .. n + 1 : q[i].replyfd = q[j].replyfd => i = j
    BY <1>2, <1>3 DEF InFifo
  <2>3. ASSUME NEW i \in 1 .. n
        PROVE  next[w[i].replyfd] = "asked" /\ w[i].ask = asked'[w[i].replyfd]
    <3>1. place[q[i + 1].replyfd] = "asked" /\ q[i + 1].ask = asked[q[i + 1].replyfd]
      BY <2>1, <2>2
    <3>2. 1 \in 1 .. n + 1
      OBVIOUS
    <3>3. q[i + 1].replyfd # t
      BY <1>3, <2>1, <2>2, <3>2
    <3>4. q[i + 1].replyfd \in Tasks
      <4>1. PICK x \in Posted : x = q[i + 1]
        BY <2>1
      <4>2. x.replyfd \in Tasks
        BY DEF Posted, Sent
      <4> QED BY <4>1, <4>2
    <3> QED BY <1>5, <2>1, <3>1, <3>3, <3>4
  <2>4. ASSUME NEW i \in 1 .. n, NEW j \in 1 .. n, w[i].replyfd = w[j].replyfd
        PROVE  i = j
    <3>1. i + 1 = j + 1
      BY <2>1, <2>2, <2>4
    <3> QED BY <3>1
  <2> QED BY <1>3, <2>3, <2>4 DEF InFifo
<1>9. InWrite(next)'
  <2>1. \A u \in Tasks : u # t => next[u] \notin {"answering", "sent"}
    BY <1>5, OneWrite
  <2>2. CASE s = "answering"
    BY <1>4, <1>5, <2>1, <2>2 DEF InWrite
  <2>3. CASE s = "sent"
    BY <1>4, <1>5, <2>1, <2>3 DEF InWrite
  <2> QED BY <2>2, <2>3
<1>10. InOwn(next)' /\ InRomfs(next)' /\ InOpen(next)'
  <2>1. Same(place, next, {"answered"}) /\ Same(place, next, {"queued"}) /\ Same(place, next, {"opened"})
    BY <1>7
  <2>2. place[romfs] = "answered" <=> next[romfs] = "answered"
    BY <1>4, <1>5, Servers
  <2>3. InOwn(next)'
    BY <1>2, <2>1, OwnStays
  <2>4. InRomfs(next)'
    BY <1>2, <2>1, <2>2, RomfsStays
  <2>5. InOpen(next)'
    BY <1>2, <2>1, OpenStays
  <2> QED BY <2>3, <2>4, <2>5
<1>11. InProgram(next)'
  <2>1. \A u \in Tasks : next[u] \in {"sent", "queued", "opened"} =>
          u # romfs /\ asked'[u].cmd = "open" /\ asked'[u].path \in Covered
    BY <1>2, <1>4, <1>5 DEF InProgram
  <2> QED BY <1>2, <2>1 DEF InProgram
<1>12. RomfsReady(next)'
  <2>1. done[romfs] = 0 => t # romfs
    BY <1>2, <1>4 DEF RomfsReady
  <2>2. done'[romfs] = 0 => fs' = <<>> /\ phase'[romfs] = "idle"
    BY <1>2, <2>1 DEF RomfsReady
  <2>3. next[romfs] = "asked" /\ asked'[romfs] = RegisterFs => fs' = <<>>
    BY <1>2, <1>5, Servers DEF RomfsReady
  <2>4. ASSUME NEW u \in Tasks, next[u] \in {"sent", "queued"}
        PROVE  /\ next[romfs] \in {"none", "answered"} /\ done'[romfs] = 1
               /\ opening'.cmd \in {"none", "reply"}
    <3>1. place[romfs] \in {"none", "answered"} /\ done[romfs] = 1 /\ opening.cmd \in {"none", "reply"}
      BY <1>2, <1>5, <2>4 DEF RomfsReady
    <3> QED BY <1>4, <1>5, <3>1, Servers
  <2> QED BY <1>2, <2>2, <2>3, <2>4 DEF RomfsReady
<1> QED
  BY <1>3, <1>5, <1>6, <1>8, <1>9, <1>10, <1>11, <1>12 DEF Placed

LEMMA ForwardStep ==
  ASSUME BootPrograms, Shape, NEW place, Placed(place),
         out = NoWrite, mounts # <<>>, opening.cmd \in {"none", "reply"}
  PROVE  place[romfs] \in {"none", "answered"} /\ done[romfs] = 1
<1>1. InOpen(place) /\ InProgram(place) /\ RomfsReady(place) /\ place \in [Tasks -> Stations]
      /\ \A u \in Tasks : place[u] = "none" <=> phase[u] # "wait"
  BY DEF Placed
<1>2. done[romfs] = 1 /\ fs # <<>>
  BY <1>1 DEF RomfsReady
<1>3. place[romfs] \notin {"answering", "sent"}
  BY OneWrite, Servers
<1>4. place[romfs] \notin {"queued", "opened"}
  BY <1>1, Servers DEF InProgram
<1>5. place[romfs] # "asked"
  <2> SUFFICES ASSUME place[romfs] = "asked" PROVE FALSE
    OBVIOUS
  <2>1. phase[romfs] = "wait" /\ asked[romfs] # RegisterFs
    BY <1>1, <1>2, Servers DEF RomfsReady
  <2>2. opening # NoRequest
    BY <1>1, <2>1 DEF InProgram
  <2> QED BY <1>1, <2>1, <2>2 DEF InOpen
<1> QED
  BY <1>1, <1>2, <1>3, <1>4, <1>5, Servers DEF Stations

LEMMA HandlersStep ==
  ASSUME BootPrograms, Shape, NEW place, Placed(place), Serve, OneAtATime'
  PROVE  Shape' /\ \E next : Placed(next)'
<1>1. PICK t, r : t = Head(requests).replyfd /\ r = Head(requests).ask
  OBVIOUS
<1>2. /\ out = NoWrite /\ requests # <<>> /\ requests' = Tail(requests)
      /\ UNCHANGED <<fifo, asked, phase, done, opening, status, nodes>>
      /\ \/ PathMkfile(t, r) \/ PathOpen(t, r) \/ PathRegister(t, r) \/ PathRegisterFs(t, r)
         \/ PathMount(t, r)
  BY <1>1 DEF Serve, client, server
<1>3. paths \in Seq(Paths) /\ fs \in Seq({romfs}) /\ mounts \in Seq([fs : {romfs}, dev : Int])
      /\ requests \in Seq(Posted) /\ made \in [Fds -> Nat] /\ pool \in Nat
  BY DEF Shape
<1>4. t \in Tasks /\ r \in Asks /\ asked[t] = r /\ phase[t] = "wait"
  <2>1. PICK x \in Posted : x = Head(requests)
    BY <1>2, <1>3, HeadTailProperties
  <2>2. x.replyfd \in Tasks /\ x.ask \in Asks
    BY DEF Posted, Sent
  <2>3. Head(requests) = requests[1] /\ 1 \in 1 .. Len(requests)
    <3>1. Len(requests) \in Nat /\ Len(requests) # 0
      BY <1>2, <1>3, EmptySeq, LenProperties
    <3> QED BY <1>3, <3>1
  <2>4. place[t] = "asked" /\ asked[t] = r
    BY <1>1, <2>3 DEF Placed, InFifo
  <2>5. phase[t] = "wait"
    BY <1>1, <2>1, <2>2, <2>4 DEF Placed
  <2> QED BY <1>1, <2>1, <2>2, <2>4, <2>5
<1>5. r = RegisterFs \/ (r \in Plain /\ r.path \in Paths)
  BY <1>4, RequestKinds DEF Asks
<1>6. r = RegisterFs => t = romfs
  BY <1>4, RequestKinds DEF Placed, InProgram
<1>7. fs = <<>> => mounts = <<>>
  BY DEF Placed, RomfsReady
<1>8. paths' = paths \/ (paths' = Append(paths, r.path) /\ r.path \in Paths)
  <2>1. r.cmd \in {"mkfile", "register"} => r.path \in Paths
    BY <1>5, RequestKinds
  <2>2. PathMkfile(t, r) => paths' = paths \/ (paths' = Append(paths, r.path) /\ r.cmd = "mkfile")
    BY DEF PathMkfile
  <2>3. PathOpen(t, r) => paths' = paths
    BY DEF PathOpen, tables
  <2>4. PathRegister(t, r) => paths' = Append(paths, r.path) /\ r.cmd = "register"
    BY DEF PathRegister
  <2>5. PathRegisterFs(t, r) \/ PathMount(t, r) => paths' = paths
    BY DEF PathRegisterFs, PathMount
  <2> QED BY <1>2, <2>1, <2>2, <2>3, <2>4, <2>5
<1>9. paths' \in Seq(Paths) /\ Growing
  BY <1>3, <1>8, FilesGrow DEF Growing
<1>10. /\ fs' \in Seq({romfs}) /\ mounts' \in Seq([fs : {romfs}, dev : Int])
       /\ made' \in [Fds -> Nat] /\ pool' \in Nat
       /\ fs' = fs \/ t = romfs
       /\ fs' = <<>> => mounts' = <<>>
  <2>1. CASE PathMkfile(t, r)
    BY <1>3, <1>7, <2>1, Mknod DEF PathMkfile
  <2>2. CASE PathOpen(t, r)
    BY <1>3, <1>7, <2>2 DEF PathOpen, tables
  <2>3. CASE PathRegister(t, r)
    BY <1>3, <1>7, <2>3 DEF PathRegister
  <2>4. CASE PathRegisterFs(t, r)
    <3>1. t = romfs /\ fs' = Append(fs, romfs) /\ UNCHANGED <<paths, mounts, made, pool>>
      BY <1>5, <1>6, <2>4, RequestKinds DEF PathRegisterFs
    <3>2. Append(fs, romfs) \in Seq({romfs}) /\ Append(fs, romfs) # <<>>
      <4>1. Append(fs, romfs) \in Seq({romfs}) /\ Len(Append(fs, romfs)) = Len(fs) + 1
        BY <1>3, AppendProperties
      <4>2. Len(fs) \in Nat
        BY <1>3, LenProperties
      <4> QED BY <4>1, <4>2, EmptySeq
    <3> QED BY <1>3, <3>1, <3>2
  <2>5. CASE PathMount(t, r)
    <3>1. UNCHANGED <<paths, fs, made, pool>>
      BY <2>5 DEF PathMount
    <3>2. CASE fs # <<>> /\ Registered(r.path)
      <4>1. mounts' = Append(mounts, [fs |-> fs[1], dev |-> FdOf(r.path)])
        BY <2>5, <3>2 DEF PathMount
      <4>2. fs[1] = romfs
        <5>1. Len(fs) \in Nat /\ Len(fs) # 0
          BY <1>3, <3>2, EmptySeq, LenProperties
        <5>2. 1 \in 1 .. Len(fs)
          BY <5>1
        <5> QED BY <1>3, <5>2, ElementOfSeq
      <4>3. FdOf(r.path) \in Int
        BY <1>3, <3>2, FoundFile, FileBounds
      <4>4. [fs |-> fs[1], dev |-> FdOf(r.path)] \in [fs : {romfs}, dev : Int]
        BY <4>2, <4>3
      <4>5. mounts' \in Seq([fs : {romfs}, dev : Int])
        BY <1>3, <4>1, <4>4, AppendProperties
      <4> QED BY <1>3, <3>1, <3>2, <4>5
    <3>3. CASE ~ (fs # <<>> /\ Registered(r.path))
      BY <1>3, <1>7, <2>5, <3>1, <3>3 DEF PathMount
    <3> QED BY <3>2, <3>3
  <2> QED BY <1>2, <2>1, <2>2, <2>3, <2>4, <2>5
<1>11. \/ \E v : out' = Answering(t, v) /\ RightIn(paths', r, v)
       \/ /\ \E dev : out' = [to |-> romfs, words |-> Forwarded(t, r.path, dev)]
          /\ r.cmd = "open" /\ r.path \in Covered /\ mounts # <<>>
          /\ opening'.cmd \in {"none", "reply"}
  <2>1. \A v : Reply(t, v) => out' = Answering(t, v)
    BY DEF Reply, Answering
  <2>2. CASE PathMkfile(t, r)
    <3>1. r.cmd = "mkfile" /\ Reply(t, IF pool > 0 THEN NewFd ELSE -1)
          /\ paths' = IF pool > 0 THEN Append(paths, r.path) ELSE paths
      BY <2>2 DEF PathMkfile
    <3>2. CASE pool > 0
      <4>1. NewFd \in FilesOf(paths', r.path)
        BY <1>3, <1>5, <3>1, <3>2, RequestKinds, FilesGrow DEF NewFd
      <4>2. out' = Answering(t, NewFd)
        BY <2>1, <3>1, <3>2
      <4> QED BY <3>1, <4>1, <4>2 DEF RightIn
    <3>3. CASE ~ (pool > 0)
      <4>1. out' = Answering(t, -1)
        BY <2>1, <3>1, <3>3
      <4> QED BY <3>1, <4>1 DEF RightIn
    <3> QED BY <3>2, <3>3
  <2>3. CASE PathOpen(t, r)
    <3>1. r.cmd = "open" /\ paths' = paths
      BY <2>3 DEF PathOpen, tables
    <3>2. CASE Registered(r.path) /\ Reply(t, FdOf(r.path))
      <4>1. FdOf(r.path) \in FilesOf(paths', r.path)
        BY <1>3, <3>1, <3>2, FoundFile
      <4> QED BY <2>1, <3>1, <3>2, <4>1 DEF RightIn
    <3>3. CASE /\ r.path \in Covered /\ mounts # <<>>
               /\ out' = [to |-> mounts[1].fs,
                          words |-> <<Word(FS_CMD_OPEN), Rest(t, r.path, mounts[1].dev)>>]
      <4>1. mounts[1].fs = romfs
        <5>1. Len(mounts) \in Nat /\ Len(mounts) # 0
          BY <1>3, <3>3, EmptySeq, LenProperties
        <5>2. 1 \in 1 .. Len(mounts)
          BY <5>1
        <5>3. mounts[1] \in [fs : {romfs}, dev : Int]
          BY <1>3, <5>2, ElementOfSeq
        <5> QED BY <5>3
      <4>2. PICK dev : dev = mounts[1].dev
        OBVIOUS
      <4>3. out' = [to |-> romfs, words |-> Forwarded(t, r.path, dev)]
        BY <3>3, <4>1, <4>2 DEF Forwarded
      <4>4. out' # NoWrite /\ out'.words = Forwarded(t, r.path, dev)
        BY <4>3 DEF NoWrite
      <4>5. Len(out'.words) = 2
        <5>1. PICK f, g : f = Forwarded(t, r.path, dev) /\ g = <<Word(0)>> \o f
          OBVIOUS
        <5>2. Len(f) = 2
          BY <5>1, ForwardFacts
        <5> QED BY <4>4, <5>1, <5>2
      <4>6. opening'.cmd \in {"none", "reply"}
        BY <4>4, <4>5 DEF OneAtATime
      <4> QED BY <3>1, <3>3, <4>3, <4>6
    <3>4. CASE Reply(t, -1)
      BY <2>1, <3>1, <3>4 DEF RightIn
    <3> QED BY <2>3, <3>2, <3>3, <3>4 DEF PathOpen
  <2>4. CASE PathRegister(t, r)
    <3>1. r.cmd = "register" /\ out' = Answering(t, NewFd) /\ paths' = Append(paths, r.path)
      BY <2>1, <2>4 DEF PathRegister
    <3>2. NewFd \in FilesOf(paths', r.path)
      BY <1>3, <1>5, <3>1, RequestKinds, FilesGrow DEF NewFd
    <3> QED BY <3>1, <3>2 DEF RightIn
  <2>5. CASE PathRegisterFs(t, r)
    <3>1. r.cmd = "register_fs" /\ out' = Answering(t, 0)
      BY <2>1, <2>5 DEF PathRegisterFs
    <3> QED BY <3>1 DEF RightIn
  <2>6. CASE PathMount(t, r)
    <3>1. r.cmd = "mount" /\ (out' = Answering(t, 0) \/ out' = Answering(t, -1))
      BY <2>1, <2>6 DEF PathMount
    <3> QED BY <3>1 DEF RightIn
  <2> QED BY <1>2, <2>2, <2>3, <2>4, <2>5, <2>6
<1>12. requests' \in Seq(Posted) /\ \E next : Placed(next)'
  <2>1. CASE \E v : out' = Answering(t, v) /\ RightIn(paths', r, v)
    <3>1. PICK s \in {"answering", "sent"} : s = "answering"
      OBVIOUS
    <3>2. /\ s = "answering" => \E v : out' = Answering(t, v) /\ RightIn(paths', r, v)
          /\ s # "sent"
      BY <2>1, <3>1
    <3> QED BY <1>1, <1>2, <1>9, <1>10, <3>2, ServeStep
  <2>2. CASE /\ \E dev : out' = [to |-> romfs, words |-> Forwarded(t, r.path, dev)]
             /\ r.cmd = "open" /\ r.path \in Covered /\ mounts # <<>>
             /\ opening'.cmd \in {"none", "reply"}
    <3>1. PICK s \in {"answering", "sent"} : s = "sent"
      OBVIOUS
    <3>2. place[romfs] \in {"none", "answered"} /\ done[romfs] = 1 /\ opening.cmd \in {"none", "reply"}
      BY <1>2, <2>2, ForwardStep
    <3>3. t # romfs
      <4> SUFFICES ASSUME t = romfs PROVE FALSE
        OBVIOUS
      <4>1. Head(requests) = requests[1] /\ 1 \in 1 .. Len(requests)
        <5>1. Len(requests) \in Nat /\ Len(requests) # 0
          BY <1>2, <1>3, EmptySeq, LenProperties
        <5> QED BY <1>3, <5>1
      <4>2. place[romfs] = "asked"
        BY <1>1, <4>1 DEF Placed, InFifo
      <4> QED BY <3>2, <4>2
    <3>4. /\ s # "answering"
          /\ s = "sent" => /\ \E dev : out' = [to |-> romfs, words |-> Forwarded(t, r.path, dev)]
                           /\ t # romfs /\ r.cmd = "open" /\ r.path \in Covered
                           /\ place[romfs] \in {"none", "answered"} /\ done[romfs] = 1
                           /\ opening.cmd \in {"none", "reply"}
      BY <2>2, <3>1, <3>2, <3>3
    <3> QED BY <1>1, <1>2, <1>9, <1>10, <3>4, ServeStep
  <2> QED BY <1>11, <2>1, <2>2
<1>13. Shape'
  BY <1>2, <1>9, <1>10, <1>12 DEF Shape
<1> QED
  BY <1>12, <1>13

LEMMA DeliverStep ==
  ASSUME BootPrograms, Shape, NEW place, Placed(place), Deliver, OneAtATime
  PROVE  /\ Shape' /\ \E next : Placed(next)'
         /\ \A u \in Tasks : \/ fifo'[u] = fifo[u]
                             \/ \E w : out = Answering(u, w) /\ fifo'[u] = <<Word(w)>>
                             \/ u = romfs /\ \A w : fifo'[u] # <<Word(w)>>
<1>1. /\ out # NoWrite /\ fifo' = [fifo EXCEPT ![out.to] = @ \o out.words] /\ out' = NoWrite
      /\ UNCHANGED <<paths, fs, mounts, requests, made, pool, asked, phase, done, opening,
                     status, nodes>>
  BY DEF Deliver, tables, client, server
<1>2. /\ place \in [Tasks -> Stations] /\ \A u \in Tasks : place[u] = "none" <=> phase[u] # "wait"
      /\ InFifo(place) /\ InWrite(place) /\ InOwn(place) /\ InRomfs(place)
      /\ InOpen(place) /\ InProgram(place) /\ RomfsReady(place)
  BY DEF Placed
<1>3. PICK t \in Tasks : place[t] \in {"answering", "sent"}
  BY <1>1, <1>2 DEF InWrite
<1>4. PICK s, next :
        /\ s = IF place[t] = "answering" THEN "answered" ELSE "queued"
        /\ next = [place EXCEPT ![t] = s]
  OBVIOUS
<1>5. /\ next \in [Tasks -> Stations] /\ next[t] = s
      /\ \A u \in Tasks : u # t => next[u] = place[u]
  BY <1>2, <1>4 DEF Stations
<1>6. \A u \in Tasks : next[u] = "none" <=> phase'[u] # "wait"
  BY <1>1, <1>2, <1>3, <1>4, <1>5
<1>7. \A S : "answering" \notin S /\ "sent" \notin S /\ s \notin S => Same(place, next, S)
  BY <1>1, <1>3, <1>5 DEF Same
<1>8. Growing
  BY <1>1 DEF Growing
<1>9. InFifo(next)' /\ InWrite(next)' /\ InOpen(next)'
  <2>1. Same(place, next, {"asked"}) /\ Same(place, next, {"opened"})
    BY <1>4, <1>7
  <2>2. InFifo(next)'
    BY <1>1, <1>2, <2>1, FifoStays
  <2>3. InOpen(next)'
    BY <1>1, <1>2, <1>8, <2>1, OpenStays
  <2>4. \A u \in Tasks : next[u] \notin {"answering", "sent"}
    BY <1>3, <1>4, <1>5, OneWrite
  <2> QED BY <1>1, <2>2, <2>3, <2>4 DEF InWrite
<1>10. PICK answer, message :
         /\ fifo[romfs] = answer \o message
         /\ AnswerPart(place, answer) /\ MessagePart(place, message)
  BY <1>2 DEF InRomfs
<1>11. /\ InOwn(next)' /\ InRomfs(next)'
       /\ \A u \in Tasks : \/ fifo'[u] = fifo[u]
                           \/ \E w : out = Answering(u, w) /\ fifo'[u] = <<Word(w)>>
                           \/ u = romfs /\ \A w : fifo'[u] # <<Word(w)>>
  <2>1. CASE place[t] = "answering"
    <3>1. PICK v : out = Answering(t, v) /\ RightIn(paths, asked[t], v)
      BY <1>2, <2>1 DEF InWrite
    <3>2. /\ fifo'[t] = fifo[t] \o <<Word(v)>>
          /\ \A u \in Tasks : u # t => fifo'[u] = fifo[u]
      BY <1>1, <3>1 DEF Shape, Answering
    <3>3. next[t] = "answered"
      BY <1>4, <1>5, <2>1
    <3>4. CASE t # romfs
      <4>1. fifo[t] = <<>>
        BY <1>2, <2>1, <3>4 DEF InOwn, HasAnswer
      <4>2. fifo'[t] = <<Word(v)>>
        BY <3>2, <4>1, Pieces
      <4>3. ASSUME NEW u \in Tasks \ {romfs}, fifo'[u] # <<>>
            PROVE  \E x : /\ next[u] = "answered" /\ RightIn(paths', asked'[u], x)
                          /\ fifo'[u] = <<Word(x)>>
        <5>1. CASE u = t
          BY <1>1, <3>1, <3>3, <4>2, <5>1
        <5>2. CASE u # t
          <6>1. PICK x : place[u] = "answered" /\ RightIn(paths, asked[u], x) /\ fifo[u] = <<Word(x)>>
            BY <1>2, <3>2, <4>3, <5>2 DEF InOwn, HasAnswer
          <6> QED BY <1>1, <1>5, <3>2, <5>2, <6>1
        <5> QED BY <5>1, <5>2
      <4>4. InOwn(next)'
        BY <4>3 DEF InOwn, HasAnswer
      <4>5. Same(place, next, {"queued"})
        BY <1>4, <1>7, <2>1
      <4>6. fifo'[romfs] = fifo[romfs] /\ next[romfs] = place[romfs]
        BY <1>5, <3>2, <3>4, Servers
      <4>7. InRomfs(next)'
        BY <1>1, <1>2, <1>8, <4>5, <4>6, RomfsStays
      <4> QED BY <3>1, <3>2, <4>2, <4>4, <4>7
    <3>5. CASE t = romfs
      <4>1. \A u \in Tasks : place[u] # "queued"
        BY <1>2, <2>1, <3>5 DEF RomfsReady
      <4>2. message = <<>>
        BY <1>10, <4>1 DEF MessagePart
      <4>3. answer = <<>>
        BY <1>10, <2>1, <3>5 DEF AnswerPart, HasAnswer
      <4>4. <<>> \o <<>> = <<>>
        BY ConcatEmptySeq
      <4>5. fifo'[romfs] = <<Word(v)>> \o <<>>
        <5>1. fifo[romfs] = <<>>
          BY <1>10, <4>2, <4>3, <4>4
        <5> QED BY <3>2, <3>5, <5>1, Pieces
      <4>6. PICK a, m : a = <<Word(v)>> /\ m = <<>>
        OBVIOUS
      <4>7. AnswerPart(next, a)'
        BY <1>1, <3>1, <3>3, <3>5, <4>6 DEF AnswerPart, HasAnswer
      <4>8. MessagePart(next, m)'
        BY <1>5, <3>3, <4>1, <4>6 DEF MessagePart
      <4>9. InRomfs(next)'
        BY <4>5, <4>6, <4>7, <4>8 DEF InRomfs
      <4>10. ASSUME NEW u \in Tasks \ {romfs}, fifo'[u] # <<>>
             PROVE  \E x : /\ next[u] = "answered" /\ RightIn(paths', asked'[u], x)
                           /\ fifo'[u] = <<Word(x)>>
        <5>1. PICK x : place[u] = "answered" /\ RightIn(paths, asked[u], x) /\ fifo[u] = <<Word(x)>>
          BY <1>2, <3>2, <3>5, <4>10 DEF InOwn, HasAnswer
        <5> QED BY <1>1, <1>5, <3>2, <3>5, <5>1
      <4>11. InOwn(next)'
        BY <4>10 DEF InOwn, HasAnswer
      <4>12. fifo'[romfs] = <<Word(v)>>
        BY <4>5, Pieces
      <4> QED BY <3>1, <3>2, <3>5, <4>9, <4>11, <4>12
    <3> QED BY <3>4, <3>5
  <2>2. CASE place[t] = "sent"
    <3>1. PICK dev : out = [to |-> romfs, words |-> Forwarded(t, asked[t].path, dev)]
      BY <1>2, <2>2 DEF InWrite
    <3>2. PICK f, g : f = Forwarded(t, asked[t].path, dev) /\ g = <<Word(0)>> \o f
      OBVIOUS
    <3>3. Len(f) = 2 /\ <<>> \o f = f
      BY <3>2, ForwardFacts
    <3>4. out.to = romfs /\ out.words = f
      BY <3>1, <3>2
    <3>5. /\ fifo'[romfs] = fifo[romfs] \o f
          /\ \A u \in Tasks \ {romfs} : fifo'[u] = fifo[u]
      BY <1>1, <3>4, Servers DEF Shape
    <3>6. Len(fifo[romfs]) < 2
      BY <1>1, <3>3, <3>4 DEF OneAtATime
    <3>7. message = <<>> /\ \A u \in Tasks : place[u] # "queued"
      <4> SUFFICES ASSUME NEW u \in Tasks, NEW d, message = Forwarded(u, asked[u].path, d)
                   PROVE  FALSE
        BY <1>10 DEF MessagePart
      <4>1. CASE answer = <<>>
        <5>1. PICK e, h : e = message /\ h = <<Word(0)>> \o e
          OBVIOUS
        <5>2. Len(e) = 2 /\ <<>> \o e = e
          BY <5>1, ForwardFacts
        <5>3. Len(fifo[romfs]) = 2
          BY <1>10, <4>1, <5>1, <5>2
        <5> QED BY <3>6, <5>3
      <4>2. CASE answer # <<>>
        <5>1. PICK x : answer = <<Word(x)>>
          BY <1>10, <4>2 DEF AnswerPart
        <5>2. PICK e, h : e = message /\ h = <<Word(x)>> \o e
          OBVIOUS
        <5>3. Len(h) = 3
          BY <5>2, ForwardFacts
        <5>4. fifo[romfs] = h
          BY <1>10, <5>1, <5>2
        <5> QED BY <3>6, <5>3, <5>4
      <4> QED BY <4>1, <4>2
    <3>8. fifo'[romfs] = answer \o f
      <4>1. answer \o <<>> = answer
        <5>1. answer = <<>> \/ \E x : answer = <<Word(x)>>
          BY <1>10 DEF AnswerPart
        <5> QED BY <5>1, Pieces, ConcatEmptySeq
      <4>2. fifo[romfs] = answer
        BY <1>10, <3>7, <4>1
      <4> QED BY <3>5, <4>2
    <3>9. next[t] = "queued" /\ t # romfs
      BY <1>2, <1>4, <1>5, <2>2 DEF InProgram
    <3>10. AnswerPart(next, answer)'
      <4>1. next[romfs] = place[romfs]
        BY <1>5, <3>9, Servers
      <4> QED BY <1>1, <1>10, <4>1 DEF AnswerPart, HasAnswer
    <3>11. MessagePart(next, f)'
      <4>1. \A u \in Tasks : next[u] = "queued" <=> u = t
        BY <1>5, <3>7, <3>9
      <4>2. f = Forwarded(t, asked'[t].path, dev)
        BY <1>1, <3>2
      <4> QED BY <4>1, <4>2 DEF MessagePart
    <3>12. InRomfs(next)'
      BY <3>8, <3>10, <3>11 DEF InRomfs
    <3>13. Same(place, next, {"answered"})
      BY <1>4, <1>7, <2>2
    <3>14. InOwn(next)'
      BY <1>2, <1>8, <3>5, <3>13, OwnStays
    <3>15. \A w : fifo'[romfs] # <<Word(w)>>
      <4>1. CASE answer = <<>>
        BY <3>3, <3>8, <4>1
      <4>2. CASE answer # <<>>
        <5>1. PICK x : answer = <<Word(x)>>
          BY <1>10, <4>2 DEF AnswerPart
        <5>2. f = Forwarded(t, asked[t].path, dev)
          BY <3>2
        <5>3. PICK h : h = <<Word(x)>> \o f
          OBVIOUS
        <5>4. Len(h) = 3
          BY <5>2, <5>3, ForwardFacts
        <5> QED BY <3>8, <5>1, <5>3, <5>4
      <4> QED BY <4>1, <4>2
    <3> QED BY <3>5, <3>12, <3>14, <3>15
  <2> QED BY <1>3, <2>1, <2>2
<1>12. \A u \in Tasks : next[u] \in {"sent", "queued"} => place[u] \in {"sent", "queued"}
  BY <1>3, <1>4, <1>5
<1>13. InProgram(next)'
  <2>1. \A u \in Tasks : next[u] \in {"sent", "queued", "opened"} =>
          place[u] \in {"sent", "queued", "opened"}
    BY <1>3, <1>4, <1>5
  <2> QED BY <1>1, <1>2, <2>1 DEF InProgram
<1>14. RomfsReady(next)'
  <2>1. place[romfs] \in {"none", "answered"} => next[romfs] = place[romfs]
    BY <1>3, <1>5, Servers
  <2>2. next[romfs] = "asked" => place[romfs] = "asked"
    BY <1>3, <1>4, <1>5, Servers
  <2> QED BY <1>1, <1>2, <1>12, <2>1, <2>2 DEF RomfsReady
<1>15. Shape'
  BY <1>1 DEF Shape
<1> QED
  BY <1>5, <1>6, <1>9, <1>11, <1>13, <1>14, <1>15 DEF Placed

\* romfs_server takes an open out of its FIFO; there is nothing else in it.
LEMMA ReceiveStep ==
  ASSUME BootPrograms, Shape, NEW place, Placed(place), RomfsReceive, OneAtATime
  PROVE  Shape' /\ \E next : Placed(next)'
<1>1. /\ phase[romfs] = "idle" /\ done[romfs] = Len(Programs[romfs]) /\ opening = NoRequest
      /\ Held(fifo[romfs]) >= FS_REQUEST
      /\ IF fifo[romfs][1] = Word(FS_CMD_OPEN)
         THEN opening' = [cmd |-> "open", from |-> fifo[romfs][2].from,
                          path |-> fifo[romfs][2].path, device |-> fifo[romfs][2].device]
         ELSE opening' = opening
      /\ fifo' = [fifo EXCEPT ![romfs] = SubSeq(@, 3, Len(@))]
      /\ UNCHANGED <<paths, fs, mounts, requests, made, pool, asked, phase, done, out, status, nodes>>
  BY DEF RomfsReceive, Serving, tables, client
<1>2. /\ place \in [Tasks -> Stations] /\ \A u \in Tasks : place[u] = "none" <=> phase[u] # "wait"
      /\ InFifo(place) /\ InWrite(place) /\ InOwn(place) /\ InRomfs(place)
      /\ InOpen(place) /\ InProgram(place) /\ RomfsReady(place)
  BY DEF Placed
<1>3. done[romfs] = 1
  <2>1. Programs[romfs] = <<RegisterFs>>
    BY DEF BootPrograms
  <2> QED BY <1>1, <2>1
<1>4. PICK answer, message :
        /\ fifo[romfs] = answer \o message
        /\ AnswerPart(place, answer) /\ MessagePart(place, message)
  BY <1>2 DEF InRomfs
<1>5. answer = <<>>
  <2>1. place[romfs] = "none"
    BY <1>1, <1>2, Servers
  <2> QED BY <1>4, <2>1 DEF AnswerPart, HasAnswer
<1>6. message # <<>>
  <2> SUFFICES ASSUME message = <<>> PROVE FALSE
    OBVIOUS
  <2>1. fifo[romfs] = <<>>
    BY <1>4, <1>5, ConcatEmptySeq
  <2>2. Held(<<>>) = 0
    <3> DEFINE sum == CHOOSE f : f = [n \in 0 .. Len(<<>>) |->
                                       IF n = 0 THEN 0 ELSE f[n - 1] + (<<>>)[n].bytes]
               zero == [n \in 0 .. Len(<<>>) |-> 0]
    <3>1. zero = [n \in 0 .. Len(<<>>) |-> IF n = 0 THEN 0 ELSE zero[n - 1] + (<<>>)[n].bytes]
      OBVIOUS
    <3>2. sum = [n \in 0 .. Len(<<>>) |-> IF n = 0 THEN 0 ELSE sum[n - 1] + (<<>>)[n].bytes]
      <4> HIDE DEF zero
      <4> QED BY <3>1
    <3>3. sum[0] = 0
      <4> HIDE DEF sum
      <4> QED BY <3>2
    <3>4. Held(<<>>) = sum[0]
      BY DEF Held
    <3> QED BY <3>3, <3>4
  <2> QED BY <1>1, <2>1, <2>2 DEF FS_REQUEST
<1>7. PICK t \in Tasks : /\ \A u \in Tasks : place[u] = "queued" <=> u = t
                         /\ \E dev : message = Forwarded(t, asked[t].path, dev)
  BY <1>4, <1>6 DEF MessagePart
<1>8. PICK f, g : f = message /\ g = <<Word(0)>> \o f
  OBVIOUS
<1>9. /\ Len(f) = 2 /\ f[1] = Word(FS_CMD_OPEN) /\ f[2].from = t /\ f[2].path = asked[t].path
      /\ SubSeq(f, 3, Len(f)) = <<>> /\ <<>> \o f = f
  BY <1>7, <1>8, ForwardFacts
<1>10. fifo[romfs] = f
  BY <1>4, <1>5, <1>8, <1>9
<1>11. /\ fifo'[romfs] = <<>> /\ \A u \in Tasks \ {romfs} : fifo'[u] = fifo[u]
       /\ opening' = [cmd |-> "open", from |-> t, path |-> asked[t].path, device |-> f[2].device]
  <2>1. fifo'[romfs] = SubSeq(f, 3, Len(f)) /\ \A u \in Tasks \ {romfs} : fifo'[u] = fifo[u]
    BY <1>1, <1>10, Servers DEF Shape
  <2>2. opening' = [cmd |-> "open", from |-> t, path |-> asked[t].path, device |-> f[2].device]
    BY <1>1, <1>9, <1>10
  <2> QED BY <1>9, <2>1, <2>2
<1>12. PICK next : next = [place EXCEPT ![t] = "opened"]
  OBVIOUS
<1>13. /\ next \in [Tasks -> Stations] /\ next[t] = "opened"
       /\ \A u \in Tasks : u # t => next[u] = place[u]
  BY <1>2, <1>12 DEF Stations
<1>14. t # romfs /\ place[t] = "queued" /\ asked[t].cmd = "open" /\ asked[t].path \in Covered
  BY <1>2, <1>7 DEF InProgram
<1>15. \A u \in Tasks : next[u] = "none" <=> phase'[u] # "wait"
  BY <1>1, <1>2, <1>13, <1>14
<1>16. \A S : "queued" \notin S /\ "opened" \notin S => Same(place, next, S)
  BY <1>1, <1>13, <1>14 DEF Same
<1>17. Growing
  BY <1>1 DEF Growing
<1>18. InFifo(next)' /\ InWrite(next)' /\ InOwn(next)'
  <2>1. /\ Same(place, next, {"asked"}) /\ Same(place, next, {"answering", "sent"})
        /\ Same(place, next, {"answered"})
    BY <1>16
  <2>2. InFifo(next)'
    BY <1>1, <1>2, <2>1, FifoStays
  <2>3. InWrite(next)'
    BY <1>1, <1>2, <1>17, <2>1, WriteStays
  <2>4. InOwn(next)'
    BY <1>2, <1>11, <1>17, <2>1, OwnStays
  <2> QED BY <2>2, <2>3, <2>4
<1>19. InRomfs(next)'
  <2>1. PICK a, m : a = <<>> /\ m = <<>>
    OBVIOUS
  <2>2. fifo'[romfs] = a \o m
    BY <1>11, <2>1, ConcatEmptySeq
  <2>3. next[romfs] = "none"
    BY <1>1, <1>2, <1>13, <1>14, Servers
  <2>4. AnswerPart(next, a)'
    BY <2>1, <2>3 DEF AnswerPart
  <2>5. MessagePart(next, m)'
    BY <1>7, <1>13, <2>1 DEF MessagePart
  <2> QED BY <2>2, <2>4, <2>5 DEF InRomfs
<1>20. InOpen(next)'
  BY <1>1, <1>3, <1>11, <1>13 DEF InOpen
<1>21. InProgram(next)'
  <2>1. \A u \in Tasks : next[u] \in {"sent", "queued", "opened"} =>
          u # romfs /\ asked'[u].cmd = "open" /\ asked'[u].path \in Covered
    BY <1>1, <1>2, <1>13, <1>14 DEF InProgram
  <2> QED BY <1>1, <1>2, <2>1 DEF InProgram
<1>22. RomfsReady(next)'
  <2>1. ASSUME NEW u \in Tasks, next[u] \in {"sent", "queued"} PROVE FALSE
    <3>1. place[u] = "sent"
      BY <1>7, <1>13, <2>1
    <3>2. PICK d : out = [to |-> romfs, words |-> Forwarded(u, asked[u].path, d)]
      BY <1>2, <3>1 DEF InWrite
    <3>3. PICK e, h : e = Forwarded(u, asked[u].path, d) /\ h = <<Word(0)>> \o e
      OBVIOUS
    <3>4. Len(e) = 2
      BY <3>3, ForwardFacts
    <3>5. out # NoWrite /\ out.words = e
      BY <3>2, <3>3 DEF NoWrite
    <3>6. Len(fifo[romfs]) < 2
      BY <3>4, <3>5 DEF OneAtATime
    <3>7. Len(fifo[romfs]) = 2
      BY <1>9, <1>10
    <3> QED BY <3>6, <3>7
  <2>2. next[romfs] = place[romfs]
    BY <1>13, <1>14, Servers
  <2> QED BY <1>1, <1>2, <2>1, <2>2 DEF RomfsReady
<1>23. Shape'
  BY <1>1 DEF Shape
<1> QED
  BY <1>13, <1>15, <1>18, <1>19, <1>20, <1>21, <1>22, <1>23 DEF Placed

\* What romfs_server is in
LEMMA Opened ==
  ASSUME BootPrograms, NEW place, Placed(place), opening.cmd \in {"open", "register", "reply"}
  PROVE  /\ opening = [cmd |-> opening.cmd, from |-> opening.from, path |-> opening.path,
                       device |-> opening.device]
         /\ opening.from \in Tasks /\ opening.from # romfs /\ place[opening.from] = "opened"
         /\ opening.path = asked[opening.from].path /\ opening.path \in Paths
         /\ asked[opening.from].cmd = "open" /\ done[romfs] = 1
         /\ opening.cmd \in {"open", "reply"} => phase[romfs] = "idle"
         /\ opening.cmd = "register" =>
              phase[romfs] = "wait" /\ asked[romfs] = Register(opening.path)
         /\ opening.cmd = "reply" => RightIn(paths, asked[opening.from], status)
         /\ opening.cmd # "reply" => \A u \in Tasks : place[u] \notin {"sent", "queued"}
<1>1. opening # NoRequest
  BY DEF NoRequest
<1>2. InOpen(place) /\ InProgram(place) /\ RomfsReady(place)
  BY DEF Placed
<1>3. /\ opening = [cmd |-> opening.cmd, from |-> opening.from, path |-> opening.path,
                    device |-> opening.device]
      /\ opening.from \in Tasks /\ place[opening.from] = "opened"
      /\ opening.path = asked[opening.from].path /\ done[romfs] = 1
  BY <1>1, <1>2, Zenon DEF InOpen
<1>4. opening.from # romfs /\ asked[opening.from].cmd = "open" /\ opening.path \in Paths
  BY <1>2, <1>3, PathsAssumption DEF InProgram
<1>5. /\ opening.cmd \in {"open", "reply"} => phase[romfs] = "idle"
      /\ opening.cmd = "register" => phase[romfs] = "wait" /\ asked[romfs] = Register(opening.path)
      /\ opening.cmd = "reply" => RightIn(paths, asked[opening.from], status)
  <2>1. \/ opening.cmd = "open" /\ phase[romfs] = "idle"
        \/ /\ opening.cmd = "register" /\ phase[romfs] = "wait"
           /\ asked[romfs] = Register(opening.path)
        \/ /\ opening.cmd = "reply" /\ phase[romfs] = "idle"
           /\ RightIn(paths, asked[opening.from], status)
    BY <1>1, <1>2 DEF InOpen
  <2> QED BY <2>1
<1>6. opening.cmd # "reply" => \A u \in Tasks : place[u] \notin {"sent", "queued"}
  BY <1>2 DEF RomfsReady
<1> QED
  BY <1>3, <1>4, <1>5, <1>6

LEMMA FoundStep ==
  ASSUME BootPrograms, Shape, NEW place, Placed(place), RomfsFound
  PROVE  Shape' /\ \E next : Placed(next)'
<1>1. /\ opening.cmd = "open" /\ Send(romfs, Register(opening.path))
      /\ opening' = [opening EXCEPT !.cmd = "register"]
      /\ UNCHANGED <<done, status, nodes>>
  BY DEF RomfsFound
<1>2. /\ opening = [cmd |-> opening.cmd, from |-> opening.from, path |-> opening.path,
                    device |-> opening.device]
      /\ opening.from \in Tasks /\ opening.from # romfs /\ place[opening.from] = "opened"
      /\ opening.path = asked[opening.from].path /\ opening.path \in Paths
      /\ asked[opening.from].cmd = "open" /\ done[romfs] = 1
      /\ \A u \in Tasks : place[u] \notin {"sent", "queued"}
  BY <1>1, Opened
<1>3. opening' = [cmd |-> "register", from |-> opening.from, path |-> opening.path,
                  device |-> opening.device]
  BY <1>1, <1>2
<1>4. PICK r, next : r = Register(opening.path) /\ next = [place EXCEPT ![romfs] = "asked"]
  OBVIOUS
<1>5. romfs \in Tasks /\ r \in Asks /\ Send(romfs, r) /\ r # RegisterFs
  BY <1>1, <1>2, <1>4, Servers, RequestKinds DEF Asks
<1>6. /\ place[romfs] = "none" /\ next \in [Tasks -> Stations] /\ Growing
      /\ \A u \in Tasks : next[u] = "none" <=> phase'[u] # "wait"
      /\ \A S : "none" \notin S /\ "asked" \notin S => Same(place, next, S)
      /\ InFifo(next)' /\ InWrite(next)' /\ InOwn(next)' /\ InRomfs(next)'
      /\ Shape' \/ done' \notin [Tasks -> Nat]
      /\ asked' = [asked EXCEPT ![romfs] = r] /\ phase' = [phase EXCEPT ![romfs] = "wait"]
  <2>1. place[romfs] = "none" /\ next \in [Tasks -> Stations] /\ Growing
    BY <1>4, <1>5, SendStep
  <2>2. \A u \in Tasks : next[u] = "none" <=> phase'[u] # "wait"
    BY <1>4, <1>5, SendStep
  <2>3. \A S : "none" \notin S /\ "asked" \notin S => Same(place, next, S)
    BY <1>4, <1>5, SendStep
  <2>4. InFifo(next)' /\ InWrite(next)' /\ InOwn(next)' /\ InRomfs(next)'
    BY <1>4, <1>5, SendStep
  <2>5. /\ Shape' \/ done' \notin [Tasks -> Nat]
        /\ asked' = [asked EXCEPT ![romfs] = r] /\ phase' = [phase EXCEPT ![romfs] = "wait"]
    BY <1>4, <1>5, SendStep
  <2> QED BY <2>1, <2>2, <2>3, <2>4, <2>5
<1>7. /\ \A u \in Tasks : u # romfs => asked'[u] = asked[u] /\ phase'[u] = phase[u] /\ next[u] = place[u]
      /\ asked'[romfs] = r /\ phase'[romfs] = "wait" /\ next[romfs] = "asked"
  BY <1>4, <1>5, <1>6 DEF Shape, Placed
<1>8. InProgram(place) /\ RomfsReady(place) /\ fs' = fs /\ mounts' = mounts
  BY <1>5 DEF Placed, Send, tables
<1>9. InOpen(next)'
  BY <1>1, <1>2, <1>3, <1>4, <1>7 DEF InOpen
<1>10. InProgram(next)'
  <2>1. \A u \in Tasks : next[u] \in {"sent", "queued", "opened"} =>
          u # romfs /\ asked'[u].cmd = "open" /\ asked'[u].path \in Covered
    BY <1>7, <1>8 DEF InProgram
  <2>2. opening' # NoRequest
    BY <1>3 DEF NoRequest
  <2> QED BY <1>7, <1>8, <2>1, <2>2, Servers DEF InProgram
<1>11. RomfsReady(next)'
  <2>1. \A u \in Tasks : next[u] \notin {"sent", "queued"}
    BY <1>2, <1>7
  <2> QED BY <1>1, <1>2, <1>5, <1>7, <1>8, <2>1 DEF RomfsReady
<1>12. Shape'
  <2>1. done' \in [Tasks -> Nat]
    BY <1>1 DEF Shape
  <2> QED BY <1>6, <2>1
<1> QED
  BY <1>6, <1>9, <1>10, <1>11, <1>12 DEF Placed

LEMMA MissedStep ==
  ASSUME BootPrograms, Shape, NEW place, Placed(place), RomfsMissed
  PROVE  Shape' /\ Placed(place)'
<1>1. /\ opening.cmd = "open" /\ opening' = [opening EXCEPT !.cmd = "reply"] /\ status' = -1
      /\ UNCHANGED <<paths, fs, mounts, requests, fifo, made, pool, asked, phase, done, out, nodes>>
  BY DEF RomfsMissed, tables, client
<1>2. /\ opening = [cmd |-> opening.cmd, from |-> opening.from, path |-> opening.path,
                    device |-> opening.device]
      /\ opening.from \in Tasks /\ place[opening.from] = "opened"
      /\ opening.path = asked[opening.from].path /\ asked[opening.from].cmd = "open"
      /\ done[romfs] = 1 /\ phase[romfs] = "idle"
      /\ \A u \in Tasks : place[u] \notin {"sent", "queued"}
  BY <1>1, Opened
<1>3. opening' = [cmd |-> "reply", from |-> opening.from, path |-> opening.path,
                  device |-> opening.device]
  BY <1>1, <1>2
<1>4. /\ place \in [Tasks -> Stations] /\ \A u \in Tasks : place[u] = "none" <=> phase[u] # "wait"
      /\ InFifo(place) /\ InWrite(place) /\ InOwn(place) /\ InRomfs(place)
      /\ InProgram(place) /\ RomfsReady(place)
  BY DEF Placed
<1>5. Growing /\ \A S : Same(place, place, S)
  BY <1>1 DEF Growing, Same
<1>6. InFifo(place)' /\ InWrite(place)' /\ InOwn(place)' /\ InRomfs(place)'
  <2>1. InFifo(place)'
    BY <1>1, <1>4, <1>5, FifoStays
  <2>2. InWrite(place)'
    BY <1>1, <1>4, <1>5, WriteStays
  <2>3. InOwn(place)'
    BY <1>1, <1>4, <1>5, OwnStays
  <2>4. InRomfs(place)'
    BY <1>1, <1>4, <1>5, RomfsStays
  <2> QED BY <2>1, <2>2, <2>3, <2>4
<1>7. InOpen(place)'
  <2>1. RightIn(paths', asked'[opening'.from], status')
    BY <1>1, <1>2, <1>3 DEF RightIn
  <2> QED BY <1>1, <1>2, <1>3, <2>1 DEF InOpen
<1>8. InProgram(place)'
  BY <1>1, <1>2, <1>4 DEF InProgram
<1>9. RomfsReady(place)'
  BY <1>1, <1>2, <1>4 DEF RomfsReady
<1>10. Shape'
  BY <1>1 DEF Shape
<1> QED
  BY <1>1, <1>4, <1>6, <1>7, <1>8, <1>9, <1>10 DEF Placed

LEMMA RegisteredStep ==
  ASSUME BootPrograms, Shape, NEW place, Placed(place), RomfsRegistered
  PROVE  Shape' /\ \E next : Placed(next)'
<1>1. /\ opening.cmd = "register" /\ ReadAnswer(romfs) /\ mknod(Answer(romfs))
      /\ status' = Answer(romfs) /\ opening' = [opening EXCEPT !.cmd = "reply"]
      /\ asked' = [asked EXCEPT ![romfs] = NoRequest] /\ phase' = [phase EXCEPT ![romfs] = "idle"]
      /\ UNCHANGED <<paths, fs, mounts, done>>
  BY DEF RomfsRegistered, ReadAnswer, tables
<1>2. /\ opening = [cmd |-> opening.cmd, from |-> opening.from, path |-> opening.path,
                    device |-> opening.device]
      /\ opening.from \in Tasks /\ opening.from # romfs /\ place[opening.from] = "opened"
      /\ opening.path = asked[opening.from].path /\ asked[opening.from].cmd = "open"
      /\ done[romfs] = 1 /\ phase[romfs] = "wait" /\ asked[romfs] = Register(opening.path)
      /\ \A u \in Tasks : place[u] \notin {"sent", "queued"}
  BY <1>1, Opened
<1>3. opening' = [cmd |-> "reply", from |-> opening.from, path |-> opening.path,
                  device |-> opening.device]
  BY <1>1, <1>2
<1>4. PICK a, ph, next : a = NoRequest /\ ph = "idle" /\ next = [place EXCEPT ![romfs] = "none"]
  OBVIOUS
<1>5. /\ romfs \in Tasks /\ ph \in {"idle", "mknod"} /\ ReadAnswer(romfs)
      /\ asked' = [asked EXCEPT ![romfs] = a] /\ phase' = [phase EXCEPT ![romfs] = ph]
  BY <1>1, <1>4, Servers
<1>6. /\ next \in [Tasks -> Stations] /\ Growing
      /\ \A S : "none" \notin S /\ "answered" \notin S => Same(place, next, S)
      /\ InFifo(next)' /\ InWrite(next)' /\ InOwn(next)' /\ InRomfs(next)'
      /\ Shape'
  <2>1. next \in [Tasks -> Stations] /\ Growing
    BY <1>4, <1>5, ReadStep
  <2>2. \A S : "none" \notin S /\ "answered" \notin S => Same(place, next, S)
    BY <1>4, <1>5, ReadStep
  <2>3. InFifo(next)' /\ InWrite(next)' /\ InOwn(next)' /\ InRomfs(next)'
    BY <1>4, <1>5, ReadStep
  <2>4. made' \in [Fds -> Nat] /\ pool' \in Nat => Shape'
    BY <1>4, <1>5, ReadStep
  <2>5. made' \in [Fds -> Nat] /\ pool' \in Nat
    BY <1>1, Mknod DEF Shape
  <2> QED BY <2>1, <2>2, <2>3, <2>4, <2>5
<1>7. /\ \A u \in Tasks : u # romfs => asked'[u] = asked[u] /\ phase'[u] = phase[u] /\ next[u] = place[u]
      /\ phase'[romfs] = "idle" /\ next[romfs] = "none"
  BY <1>4, <1>5 DEF Shape, Placed
<1>8. \A u \in Tasks : next[u] = "none" <=> phase'[u] # "wait"
  BY <1>5, <1>7 DEF Placed
<1>9. InProgram(place) /\ RomfsReady(place)
  BY DEF Placed
<1>10. RightIn(paths', asked'[opening'.from], status')
  <2>1. phase[romfs] = "wait" /\ fifo[romfs] # <<>>
    BY <1>1 DEF ReadAnswer
  <2>2. PICK v : RightIn(paths, asked[romfs], v) /\ Head(fifo[romfs]) = Word(v)
    BY <1>5, <2>1, OwnAnswer
  <2>3. status' = v
    BY <1>1, <2>2, WordFacts DEF Answer
  <2>4. v \in FilesOf(paths, opening.path)
    BY <1>2, <2>2, RequestKinds DEF RightIn
  <2>5. RightIn(paths, asked[opening.from], v)
    BY <1>2, <2>4 DEF RightIn
  <2>6. asked'[opening'.from] = asked[opening.from]
    BY <1>2, <1>3, <1>7
  <2> QED BY <1>1, <2>3, <2>5, <2>6
<1>11. InOpen(next)'
  BY <1>1, <1>2, <1>3, <1>7, <1>10 DEF InOpen
<1>12. InProgram(next)'
  <2>1. \A u \in Tasks : next[u] \in {"sent", "queued", "opened"} =>
          u # romfs /\ asked'[u].cmd = "open" /\ asked'[u].path \in Covered
    BY <1>7, <1>9 DEF InProgram
  <2> QED BY <1>7, <1>9, <2>1, Servers DEF InProgram
<1>13. RomfsReady(next)'
  <2>1. \A u \in Tasks : next[u] \notin {"sent", "queued"}
    BY <1>2, <1>7
  <2> QED BY <1>1, <1>2, <1>7, <1>9, <2>1 DEF RomfsReady
<1> QED
  BY <1>6, <1>8, <1>11, <1>12, <1>13 DEF Placed

LEMMA ReplyStep ==
  ASSUME BootPrograms, Shape, NEW place, Placed(place), RomfsReply
  PROVE  Shape' /\ \E next : Placed(next)'
<1>1. /\ opening.cmd = "reply" /\ opening' = NoRequest
      /\ fifo' = [fifo EXCEPT ![opening.from] = Append(@, Word(status))]
      /\ UNCHANGED <<paths, fs, mounts, requests, made, pool, asked, phase, done, out, status, nodes>>
  BY DEF RomfsReply, tables, client
<1>2. PICK t \in Tasks : /\ t = opening.from /\ t # romfs /\ place[t] = "opened"
                         /\ phase[romfs] = "idle" /\ RightIn(paths, asked[t], status)
  BY <1>1, Opened
<1>3. /\ place \in [Tasks -> Stations] /\ \A u \in Tasks : place[u] = "none" <=> phase[u] # "wait"
      /\ InFifo(place) /\ InWrite(place) /\ InOwn(place) /\ InRomfs(place)
      /\ InOpen(place) /\ InProgram(place) /\ RomfsReady(place)
  BY DEF Placed
<1>4. PICK next : next = [place EXCEPT ![t] = "answered"]
  OBVIOUS
<1>5. /\ next \in [Tasks -> Stations] /\ next[t] = "answered"
      /\ \A u \in Tasks : u # t => next[u] = place[u]
  BY <1>3, <1>4 DEF Stations
<1>6. \A u \in Tasks : next[u] = "none" <=> phase'[u] # "wait"
  BY <1>1, <1>2, <1>3, <1>5
<1>7. \A S : "opened" \notin S /\ "answered" \notin S => Same(place, next, S)
  BY <1>1, <1>2, <1>5 DEF Same
<1>8. Growing
  BY <1>1 DEF Growing
<1>9. /\ fifo'[t] = <<Word(status)>>
      /\ \A u \in Tasks : u # t => fifo'[u] = fifo[u]
  <2>1. fifo[t] = <<>>
    BY <1>2, <1>3 DEF InOwn, HasAnswer
  <2>2. fifo'[t] = Append(fifo[t], Word(status)) /\ \A u \in Tasks : u # t => fifo'[u] = fifo[u]
    BY <1>1, <1>2 DEF Shape
  <2> QED BY <2>1, <2>2, Pieces
<1>10. InFifo(next)' /\ InWrite(next)' /\ InRomfs(next)'
  <2>1. /\ Same(place, next, {"asked"}) /\ Same(place, next, {"answering", "sent"})
        /\ Same(place, next, {"queued"})
    BY <1>7
  <2>2. place[romfs] = "answered" <=> next[romfs] = "answered"
    BY <1>2, <1>5, Servers
  <2>3. fifo'[romfs] = fifo[romfs]
    BY <1>2, <1>9, Servers
  <2>4. InFifo(next)'
    BY <1>1, <1>3, <2>1, FifoStays
  <2>5. InWrite(next)'
    BY <1>1, <1>3, <1>8, <2>1, WriteStays
  <2>6. InRomfs(next)'
    BY <1>1, <1>3, <1>8, <2>1, <2>2, <2>3, RomfsStays
  <2> QED BY <2>4, <2>5, <2>6
<1>11. InOwn(next)'
  <2> SUFFICES ASSUME NEW u \in Tasks \ {romfs}, fifo'[u] # <<>>
               PROVE  \E v : /\ next[u] = "answered" /\ RightIn(paths', asked'[u], v)
                             /\ fifo'[u] = <<Word(v)>>
    BY DEF InOwn, HasAnswer
  <2>1. CASE u = t
    BY <1>1, <1>2, <1>5, <1>9, <2>1
  <2>2. CASE u # t
    <3>1. PICK v : place[u] = "answered" /\ RightIn(paths, asked[u], v) /\ fifo[u] = <<Word(v)>>
      BY <1>3, <1>9, <2>2 DEF InOwn, HasAnswer
    <3> QED BY <1>1, <1>5, <1>9, <2>2, <3>1
  <2> QED BY <2>1, <2>2
<1>12. InOpen(next)' /\ InProgram(next)'
  <2>1. \A u \in Tasks : next[u] \in {"sent", "queued", "opened"} =>
          u # romfs /\ asked'[u].cmd = "open" /\ asked'[u].path \in Covered
    BY <1>1, <1>3, <1>5 DEF InProgram
  <2> QED BY <1>1, <1>2, <1>3, <2>1 DEF InProgram, InOpen
<1>13. RomfsReady(next)'
  <2>1. next[romfs] = place[romfs]
    BY <1>2, <1>5, Servers
  <2>2. \A u \in Tasks : next[u] \in {"sent", "queued"} => place[u] \in {"sent", "queued"}
    BY <1>5
  <2>3. opening'.cmd = "none"
    BY <1>1, RequestKinds
  <2> QED BY <1>1, <1>3, <2>1, <2>2, <2>3 DEF RomfsReady
<1>14. Shape'
  BY <1>1 DEF Shape
<1> QED
  BY <1>5, <1>6, <1>10, <1>11, <1>12, <1>13, <1>14 DEF Placed

-----------------------------------------------------------------------------
(* The descriptors *)

\* An answer that is given to a task, or is in its FIFO, is to its request.
LEMMA AnswerAt ==
  ASSUME BootPrograms, NEW place, Placed(place), NEW t \in Tasks, NEW v,
         out = Answering(t, v) \/ fifo[t] = <<Word(v)>>
  PROVE  place[t] \in {"answering", "answered"} /\ phase[t] = "wait" /\ RightIn(paths, asked[t], v)
<1>1. CASE out = Answering(t, v)
  <2>1. place[t] = "answering" /\ RightIn(paths, asked[t], v)
    BY <1>1, OneWrite
  <2> QED BY <2>1 DEF Placed
<1>2. CASE fifo[t] = <<Word(v)>> /\ t # romfs
  <2>1. PICK x : HasAnswer(place, t, x) /\ fifo[t] = <<Word(x)>>
    BY <1>2 DEF Placed, InOwn
  <2>2. x = v
    BY <1>2, <2>1, WordFacts
  <2> QED BY <2>1, <2>2 DEF HasAnswer, Placed
<1>3. CASE fifo[t] = <<Word(v)>> /\ t = romfs
  <2>1. PICK answer, message :
          /\ fifo[romfs] = answer \o message
          /\ AnswerPart(place, answer) /\ MessagePart(place, message)
    BY DEF Placed, InRomfs
  <2>2. Len(fifo[romfs]) = 1
    BY <1>3
  <2>3. CASE message = <<>>
    <3>1. answer # <<>>
      BY <1>3, <2>1, <2>3, ConcatEmptySeq
    <3>2. PICK x : HasAnswer(place, romfs, x) /\ answer = <<Word(x)>>
      BY <2>1, <3>1 DEF AnswerPart
    <3>3. fifo[romfs] = <<Word(x)>>
      BY <2>1, <2>3, <3>2, Pieces
    <3>4. x = v
      BY <1>3, <3>3, WordFacts
    <3> QED BY <1>3, <3>2, <3>4 DEF HasAnswer, Placed
  <2>4. CASE message # <<>>
    <3>1. PICK u, p, dev : message = Forwarded(u, p, dev)
      BY <2>1, <2>4 DEF MessagePart
    <3>2. CASE answer = <<>>
      <4>1. PICK e, h : e = message /\ h = <<Word(0)>> \o e
        OBVIOUS
      <4>2. Len(e) = 2 /\ <<>> \o e = e
        BY <3>1, <4>1, ForwardFacts
      <4>3. fifo[romfs] = e
        BY <2>1, <3>2, <4>1, <4>2
      <4> QED BY <2>2, <4>2, <4>3
    <3>3. CASE answer # <<>>
      <4>1. PICK x : answer = <<Word(x)>>
        BY <2>1, <3>3 DEF AnswerPart
      <4>2. PICK e, h : e = message /\ h = <<Word(x)>> \o e
        OBVIOUS
      <4>3. Len(h) = 3
        BY <3>1, <4>2, ForwardFacts
      <4>4. fifo[romfs] = h
        BY <2>1, <4>1, <4>2
      <4> QED BY <2>2, <4>3, <4>4
    <3> QED BY <3>2, <3>3
  <2> QED BY <2>3, <2>4
<1> QED
  BY <1>1, <1>2, <1>3

\* A step that makes no file and gives out no descriptor
LEMMA NewStays ==
  ASSUME BootPrograms, Shape, New, paths' = paths, made' = made,
         \A t \in {romdev, romfs} : \A v : Due(t, v)' => Due(t, v)
  PROVE  New'
<1>1. NewFd' = NewFd
  BY DEF NewFd
<1>2. \A t, v : Due(t, v)' => t \in {romdev, romfs}
  BY DEF Due
<1>3. \A t, v : Due(t, v)' => Due(t, v)
  BY <1>2
<1> HIDE DEF Due
<1> QED
  BY <1>1, <1>3, Servers DEF New

\* A task makes the file whose descriptor it was given.
LEMMA NewMade ==
  ASSUME BootPrograms, Shape, New, paths' = paths, NEW x \in Tasks, NEW w, Due(x, w), mknod(w),
         \A t \in {romdev, romfs} : \A v : Due(t, v)' => t # x /\ Due(t, v)
  PROVE  New'
<1>1. NewFd' = NewFd
  BY DEF NewFd
<1>2. \A t, v : Due(t, v)' => t \in {romdev, romfs}
  BY DEF Due
<1>3. \A t, v : Due(t, v)' => t # x /\ Due(t, v) /\ t \in {romdev, romfs}
  BY <1>2
<1>4. \A fd \in Fds : made'[fd] = IF fd = w /\ pool > 0 THEN made[fd] + 1 ELSE made[fd]
  BY Mknod DEF Shape
<1>5. x \in {romdev, romfs}
  BY DEF Due
<1> HIDE DEF Due
<1>6. w \in Int /\ w < NewFd /\ (w \in Fds => made[w] = 0)
  BY DEF New
<1>7. \A t, v : Due(t, v)' => v # w
  BY <1>3, <1>5 DEF New
<1>8. \A fd \in Fds : made'[fd] <= 1 /\ (made'[fd] > 0 => fd < NewFd')
  <2> SUFFICES ASSUME NEW fd \in Fds PROVE made'[fd] <= 1 /\ (made'[fd] > 0 => fd < NewFd')
    OBVIOUS
  <2>1. made[fd] \in Nat /\ made[fd] <= 1 /\ (made[fd] > 0 => fd < NewFd)
    BY DEF New, Shape
  <2>2. CASE fd = w
    <3>1. made[fd] = 0 /\ fd < NewFd
      BY <1>6, <2>2
    <3>2. made'[fd] = 1 \/ made'[fd] = 0
      BY <1>4, <3>1
    <3> QED BY <1>1, <3>1, <3>2
  <2>3. CASE fd # w
    BY <1>1, <1>4, <2>1, <2>3
  <2> QED BY <2>2, <2>3
<1>9. \A t \in Tasks : \A v : Due(t, v)' => v \in Int /\ v < NewFd' /\ (v \in Fds => made'[v] = 0)
  BY <1>1, <1>3, <1>4, <1>7 DEF New
<1>10. \A v : ~ (Due(romdev, v)' /\ Due(romfs, v)')
  BY <1>3 DEF New
<1> QED
  BY <1>8, <1>9, <1>10 DEF New

LEMMA SendNew ==
  ASSUME BootPrograms, Shape, New, NEW place, Placed(place), NEW t \in Tasks, NEW r, Send(t, r)
  PROVE  New'
<1>1. /\ phase[t] = "idle"
      /\ asked' = [asked EXCEPT ![t] = r] /\ phase' = [phase EXCEPT ![t] = "wait"]
      /\ UNCHANGED <<paths, fifo, made, out>>
  BY DEF Send, tables
<1>2. /\ \A u \in Tasks : u # t => asked'[u] = asked[u] /\ phase'[u] = phase[u]
      /\ phase'[t] = "wait"
  BY <1>1 DEF Shape
<1>3. ASSUME NEW u \in {romdev, romfs}, NEW v, Due(u, v)' PROVE Due(u, v)
  <2>1. u \in Tasks
    BY Servers
  <2>2. CASE u = t
    <3>1. out = Answering(t, v) \/ fifo[t] = <<Word(v)>>
      BY <1>1, <1>2, <1>3, <2>2 DEF Due
    <3> QED BY <1>1, <3>1, AnswerAt
  <2>3. CASE u # t
    BY <1>1, <1>2, <1>3, <2>1, <2>3 DEF Due
  <2> QED BY <2>2, <2>3
<1> QED
  BY <1>1, <1>3, NewStays

LEMMA ReturnNew ==
  ASSUME BootPrograms, Shape, New, NEW place, Placed(place), NEW t \in Tasks, Return(t)
  PROVE  New'
<1>1. /\ phase[t] = "wait" /\ fifo[t] # <<>>
      /\ fifo' = [fifo EXCEPT ![t] = Tail(@)]
      /\ IF t = romdev
         THEN /\ asked' = [asked EXCEPT ![t] = Word(Answer(t))]
              /\ phase' = [phase EXCEPT ![t] = "mknod"]
         ELSE /\ asked' = [asked EXCEPT ![t] = NoRequest]
              /\ phase' = [phase EXCEPT ![t] = "idle"]
      /\ UNCHANGED <<paths, made, out>>
  BY DEF Return, ReadAnswer, tables
<1>2. /\ \A u \in Tasks : u # t => asked'[u] = asked[u] /\ phase'[u] = phase[u] /\ fifo'[u] = fifo[u]
      /\ t = romdev => asked'[t] = Word(Answer(t)) /\ phase'[t] = "mknod"
      /\ t # romdev => phase'[t] = "idle"
  BY <1>1 DEF Shape
<1>3. ASSUME NEW u \in {romdev, romfs}, NEW v, Due(u, v)' PROVE Due(u, v)
  <2>1. u \in Tasks
    BY Servers
  <2>2. CASE u = t
    <3>1. u = romdev /\ asked'[u] = Word(Answer(u)) /\ phase'[u] = "mknod"
      BY <1>2, <1>3, <2>2, Servers DEF Due
    <3>2. v = Answer(romdev)
      BY <1>3, <3>1, WordFacts DEF Due
    <3>3. PICK w : Head(fifo[romdev]) = Word(w) /\ fifo[romdev] = <<Word(w)>>
      BY <1>1, <2>1, <2>2, <3>1, Servers, OwnAnswer
    <3>4. w = v
      BY <3>2, <3>3, WordFacts DEF Answer
    <3>5. asked[romdev].cmd = "register" /\ phase[romdev] = "wait"
      BY <1>1, <2>2, <3>1 DEF Placed, InProgram
    <3> QED BY <3>1, <3>3, <3>4, <3>5 DEF Due
  <2>3. CASE u # t
    BY <1>1, <1>2, <1>3, <2>1, <2>3 DEF Due
  <2> QED BY <2>2, <2>3
<1> QED
  BY <1>1, <1>3, NewStays

LEMMA MakesNew ==
  ASSUME BootPrograms, Shape, New, NEW place, Placed(place), RomdevMakes
  PROVE  New'
<1>1. /\ phase[romdev] = "mknod" /\ mknod(asked[romdev].value)
      /\ asked' = [asked EXCEPT ![romdev] = NoRequest] /\ phase' = [phase EXCEPT ![romdev] = "idle"]
      /\ UNCHANGED <<paths, fifo, out>>
  BY DEF RomdevMakes, tables
<1>2. PICK w : asked[romdev] = Word(w)
  BY <1>1, Servers DEF Placed, InProgram
<1>3. mknod(w) /\ Due(romdev, w)
  BY <1>1, <1>2, WordFacts DEF Due
<1>4. asked'[romfs] = asked[romfs] /\ phase'[romfs] = phase[romfs] /\ phase'[romdev] = "idle"
  BY <1>1, Servers DEF Shape
<1>5. \A t \in {romdev, romfs} : \A v : Due(t, v)' => t # romdev /\ Due(t, v)
  BY <1>1, <1>4, Servers DEF Due
<1> QED
  BY <1>1, <1>3, <1>5, Servers, NewMade

LEMMA RegisteredNew ==
  ASSUME BootPrograms, Shape, New, NEW place, Placed(place), RomfsRegistered
  PROVE  New'
<1>1. /\ opening.cmd = "register" /\ ReadAnswer(romfs) /\ mknod(Answer(romfs))
      /\ asked' = [asked EXCEPT ![romfs] = NoRequest] /\ phase' = [phase EXCEPT ![romfs] = "idle"]
      /\ phase[romfs] = "wait" /\ fifo[romfs] # <<>> /\ fifo' = [fifo EXCEPT ![romfs] = Tail(@)]
      /\ UNCHANGED <<paths, out>>
  BY DEF RomfsRegistered, ReadAnswer, tables
<1>2. asked[romfs].cmd = "register" /\ \A u \in Tasks : place[u] # "queued"
  BY <1>1, Opened, RequestKinds
<1>3. PICK w : Head(fifo[romfs]) = Word(w) /\ fifo[romfs] = <<Word(w)>>
  BY <1>1, <1>2, Servers, OwnAnswer
<1>4. mknod(w) /\ Due(romfs, w)
  BY <1>1, <1>2, <1>3, WordFacts DEF Due, Answer
<1>5. /\ asked'[romdev] = asked[romdev] /\ phase'[romdev] = phase[romdev]
      /\ fifo'[romdev] = fifo[romdev] /\ phase'[romfs] = "idle"
  BY <1>1, Servers DEF Shape
<1>6. \A t \in {romdev, romfs} : \A v : Due(t, v)' => t # romfs /\ Due(t, v)
  BY <1>1, <1>5, Servers DEF Due
<1> QED
  BY <1>1, <1>4, <1>6, Servers, NewMade

LEMMA ServeNew ==
  ASSUME BootPrograms, Shape, New, NEW place, Placed(place), Serve, Shape'
  PROVE  New'
<1>1. PICK t, r : t = Head(requests).replyfd /\ r = Head(requests).ask
  OBVIOUS
<1>2. /\ out = NoWrite /\ requests # <<>> /\ UNCHANGED <<fifo, asked, phase>>
      /\ \/ PathMkfile(t, r) \/ PathOpen(t, r) \/ PathRegister(t, r) \/ PathRegisterFs(t, r)
         \/ PathMount(t, r)
  BY <1>1 DEF Serve, client
<1>3. paths \in Seq(Paths) /\ requests \in Seq(Posted) /\ made \in [Fds -> Nat] /\ Len(paths) \in Nat
      /\ NewFd \in Int
  <2>1. paths \in Seq(Paths) /\ requests \in Seq(Posted) /\ made \in [Fds -> Nat]
    BY DEF Shape
  <2>2. Len(paths) \in Nat
    BY <2>1, LenProperties
  <2> QED BY <2>1, <2>2, Servers DEF NewFd, PathFd
<1>4. asked[t] = r
  <2>1. Len(requests) \in Nat /\ Len(requests) # 0
    BY <1>2, <1>3, EmptySeq, LenProperties
  <2>2. Head(requests) = requests[1] /\ 1 \in 1 .. Len(requests)
    BY <1>3, <2>1
  <2> QED BY <1>1, <2>2 DEF Placed, InFifo
<1>5. /\ NewFd' = NewFd \/ NewFd' = NewFd + 1
      /\ made' # made => NewFd' = NewFd + 1 /\ mknod(NewFd)
      /\ r.cmd = "register" => NewFd' = NewFd + 1 /\ out' = Answering(t, NewFd)
  <2>1. paths' = Append(paths, r.path) => NewFd' = NewFd + 1
    <3> SUFFICES ASSUME paths' = Append(paths, r.path) PROVE NewFd' = NewFd + 1
      OBVIOUS
    <3>1. Len(paths') = Len(paths) + 1
      BY <1>3
    <3> QED BY <1>3, <3>1, Servers DEF NewFd, PathFd
  <2>2. paths' = paths => NewFd' = NewFd
    BY DEF NewFd
  <2>3. CASE PathMkfile(t, r)
    <3>1. /\ r.cmd = "mkfile" /\ mknod(NewFd)
          /\ paths' = IF pool > 0 THEN Append(paths, r.path) ELSE paths
      BY <2>3 DEF PathMkfile
    <3>2. made' # made => pool > 0
      BY <3>1 DEF mknod
    <3> QED BY <2>1, <2>2, <3>1, <3>2
  <2>4. CASE PathOpen(t, r)
    BY <2>2, <2>4 DEF PathOpen, tables
  <2>5. CASE PathRegister(t, r)
    BY <2>1, <2>5 DEF PathRegister, Reply, Answering
  <2>6. CASE PathRegisterFs(t, r)
    BY <2>2, <2>6 DEF PathRegisterFs
  <2>7. CASE PathMount(t, r)
    BY <2>2, <2>7 DEF PathMount
  <2> QED BY <1>2, <2>3, <2>4, <2>5, <2>6, <2>7
<1>6. ASSUME NEW u, NEW v, Due(u, v)'
      PROVE  \/ Due(u, v)
             \/ u = t /\ v = NewFd /\ NewFd' = NewFd + 1 /\ made' = made
  <2>1. CASE Due(u, v)
    BY <2>1
  <2>2. CASE ~ Due(u, v)
    <3>1. phase[u] = "wait" /\ asked[u].cmd = "register" /\ out' = Answering(u, v)
      BY <1>2, <1>6, <2>2 DEF Due
    <3>2. Len(out'.words) = 1 /\ out'.to = u /\ out' # NoWrite
      BY <3>1 DEF Answering, NoWrite
    <3>3. u = t
      <4>1. CASE r.cmd = "register"
        BY <1>5, <3>2, <4>1 DEF Answering
      <4>2. CASE r.cmd # "register"
        <5>1. \/ \E w : out' = [to |-> t, words |-> <<Word(w)>>]
              \/ \E f, p, d : out' = [to |-> f, words |-> <<Word(FS_CMD_OPEN), Rest(t, p, d)>>]
          BY <1>2, <4>2 DEF PathMkfile, PathOpen, PathRegister, PathRegisterFs, PathMount, Reply
        <5>2. \A f, p, d : Len([to |-> f, words |-> <<Word(FS_CMD_OPEN), Rest(t, p, d)>>].words) = 2
          OBVIOUS
        <5>3. PICK w : out' = [to |-> t, words |-> <<Word(w)>>]
          BY <3>2, <5>1, <5>2
        <5> QED BY <3>2, <5>3
      <4> QED BY <4>1, <4>2
    <3>4. r.cmd = "register"
      BY <1>4, <3>1, <3>3
    <3>5. v = NewFd
      BY <1>5, <3>1, <3>3, <3>4, WordFacts
    <3>6. made' = made
      BY <1>2, <3>4 DEF PathMkfile, PathOpen, PathRegister, PathRegisterFs, PathMount
    <3> QED BY <1>5, <3>3, <3>4, <3>5, <3>6
  <2> QED BY <2>1, <2>2
<1> HIDE DEF Due
<1>7. \A fd \in Fds : made[fd] \in Nat /\ made[fd] <= 1 /\ (made[fd] > 0 => fd < NewFd)
  BY <1>3 DEF New
<1>8. \A fd \in Fds : \/ made'[fd] = made[fd]
                      \/ fd = NewFd /\ made'[fd] = made[fd] + 1 /\ NewFd' = NewFd + 1
  <2>1. CASE made' = made
    BY <2>1
  <2>2. CASE made' # made
    <3>1. \A fd \in Fds : made'[fd] = IF fd = NewFd /\ pool > 0 THEN made[fd] + 1 ELSE made[fd]
      BY <1>5, <2>2, Mknod DEF Shape
    <3> QED BY <1>5, <2>2, <3>1
  <2> QED BY <2>1, <2>2
<1>9. ASSUME NEW fd \in Fds PROVE made'[fd] <= 1 /\ (made'[fd] > 0 => fd < NewFd')
  <2>1. fd \in Int
    BY DEF Fds
  <2>2. CASE made'[fd] = made[fd]
    BY <1>3, <1>5, <1>7, <2>1, <2>2
  <2>3. CASE fd = NewFd /\ made'[fd] = made[fd] + 1 /\ NewFd' = NewFd + 1
    <3>1. made[fd] = 0
      BY <1>3, <1>7, <2>3
    <3> QED BY <1>3, <2>3, <3>1
  <2> QED BY <1>8, <2>2, <2>3
<1>10. ASSUME NEW u \in Tasks, NEW v, Due(u, v)'
       PROVE  v \in Int /\ v < NewFd' /\ (v \in Fds => made'[v] = 0)
  <2>1. CASE Due(u, v)
    <3>1. v \in Int /\ v < NewFd /\ (v \in Fds => made[v] = 0)
      BY <2>1 DEF New
    <3>2. v \in Fds => made'[v] = made[v]
      BY <1>3, <1>8, <3>1
    <3> QED BY <1>3, <1>5, <3>1, <3>2
  <2>2. CASE u = t /\ v = NewFd /\ NewFd' = NewFd + 1 /\ made' = made
    <3>1. v \in Fds => made[v] = 0
      BY <1>3, <1>7, <2>2
    <3> QED BY <1>3, <2>2, <3>1
  <2> QED BY <1>6, <1>10, <2>1, <2>2
<1>11. ASSUME NEW v, Due(romdev, v)', Due(romfs, v)' PROVE FALSE
  <2>1. Due(romdev, v) \/ (t = romdev /\ v = NewFd)
    BY <1>6, <1>11
  <2>2. Due(romfs, v) \/ (t = romfs /\ v = NewFd)
    BY <1>6, <1>11
  <2>3. \A u \in Tasks : ~ Due(u, NewFd)
    BY <1>3 DEF New
  <2> QED BY <2>1, <2>2, <2>3, Servers DEF New
<1> QED
  BY <1>9, <1>10, <1>11 DEF New

LEMMA DeliverNew ==
  ASSUME BootPrograms, Shape, New, NEW place, Placed(place), Deliver, OneAtATime
  PROVE  New'
<1>1. /\ out' = NoWrite /\ UNCHANGED <<paths, made, asked, phase>>
  BY DEF Deliver, tables, client
<1>2. \A u \in Tasks : \/ fifo'[u] = fifo[u]
                       \/ \E w : out = Answering(u, w) /\ fifo'[u] = <<Word(w)>>
                       \/ u = romfs /\ \A w : fifo'[u] # <<Word(w)>>
  BY DeliverStep
<1>3. \A u, v : Answering(u, v) # NoWrite
  BY DEF Answering, NoWrite
<1>4. ASSUME NEW u \in {romdev, romfs}, NEW v, Due(u, v)' PROVE Due(u, v)
  <2>1. CASE phase'[u] = "mknod"
    BY <1>1, <1>4, <2>1 DEF Due
  <2>2. CASE phase'[u] # "mknod"
    <3>1. phase[u] = "wait" /\ asked[u].cmd = "register" /\ fifo'[u] = <<Word(v)>>
      BY <1>1, <1>3, <1>4, <2>2 DEF Due
    <3>2. fifo[u] = <<Word(v)>> \/ \E w : out = Answering(u, w) /\ fifo'[u] = <<Word(w)>>
      BY <1>2, <3>1, Servers
    <3>3. fifo[u] = <<Word(v)>> \/ out = Answering(u, v)
      BY <3>1, <3>2, WordFacts
    <3> QED BY <3>1, <3>3 DEF Due
  <2> QED BY <2>1, <2>2
<1> QED
  BY <1>1, <1>4, NewStays

LEMMA RomfsNew ==
  ASSUME BootPrograms, Shape, New, NEW place, Placed(place),
         RomfsReceive \/ RomfsMissed \/ RomfsReply
  PROVE  New'
<1>1. UNCHANGED <<paths, made, asked, phase, out>>
  BY DEF RomfsReceive, RomfsMissed, RomfsReply, tables, client
<1>2. fifo'[romdev] = fifo[romdev] \/ phase[romdev] # "wait" \/ asked[romdev].cmd # "register"
  <2>1. CASE RomfsReceive
    BY <2>1, Servers DEF RomfsReceive, Shape
  <2>2. CASE RomfsMissed
    BY <2>2 DEF RomfsMissed
  <2>3. CASE RomfsReply
    <3>1. opening.from \in Tasks /\ asked[opening.from].cmd = "open"
      BY <2>3, Opened DEF RomfsReply
    <3>2. fifo' = [fifo EXCEPT ![opening.from] = Append(@, Word(status))]
      BY <2>3 DEF RomfsReply
    <3>3. CASE opening.from = romdev
      BY <3>1, <3>3
    <3>4. CASE opening.from # romdev
      BY <3>2, <3>4, Servers DEF Shape
    <3> QED BY <3>3, <3>4
  <2> QED BY <2>1, <2>2, <2>3
<1>3. fifo'[romfs] = fifo[romfs] \/ phase[romfs] = "idle"
  <2>1. CASE RomfsReceive
    BY <2>1 DEF RomfsReceive, Serving
  <2>2. CASE RomfsMissed
    BY <2>2 DEF RomfsMissed
  <2>3. CASE RomfsReply
    BY <2>3, Opened DEF RomfsReply
  <2> QED BY <2>1, <2>2, <2>3
<1>4. \A u \in {romdev, romfs} : \A v : Due(u, v)' => Due(u, v)
  BY <1>1, <1>2, <1>3, Servers DEF Due
<1> QED
  BY <1>1, <1>4, NewStays

-----------------------------------------------------------------------------
(* The theorems *)

LEMMA InitIInv == ASSUME BootPrograms, Init PROVE IInv
<1>1. PICK place : place = [t \in Tasks |-> "none"]
  OBVIOUS
<1>2. /\ paths = <<server_path>> /\ fs = <<>> /\ mounts = <<>>
      /\ requests = <<>> /\ fifo = [t \in Tasks |-> <<>>]
      /\ made = [fd \in Fds |-> 0] /\ pool = Pool
      /\ asked = [t \in Tasks |-> NoRequest] /\ phase = [t \in Tasks |-> "idle"]
      /\ done = [t \in Tasks |-> 0] /\ out = NoWrite /\ opening = NoRequest
  BY DEF Init
<1>3. Shape
  BY <1>2, PathsAssumption DEF Shape
<1>4. \A t, v : Answering(t, v) # NoWrite
  BY DEF Answering, NoWrite
<1>5. New
  <2>1. \A t, v : ~ Due(t, v)
    BY <1>2, Servers DEF Due
  <2> HIDE DEF Due
  <2> QED BY <1>2, <2>1 DEF New
<1>6. Placed(place)
  <2>1. place \in [Tasks -> Stations] /\ \A t \in Tasks : place[t] = "none" /\ phase[t] = "idle"
    BY <1>1, <1>2 DEF Stations
  <2>2. InFifo(place)
    BY <1>2 DEF InFifo
  <2>3. InWrite(place) /\ InOwn(place) /\ InOpen(place) /\ InProgram(place) /\ RomfsReady(place)
    BY <1>2, <2>1, Servers DEF InWrite, InOwn, InOpen, InProgram, RomfsReady
  <2>4. InRomfs(place)
    <3>1. PICK a, m : a = <<>> /\ m = <<>>
      OBVIOUS
    <3>2. fifo[romfs] = a \o m
      BY <1>2, <3>1, Servers, ConcatEmptySeq
    <3>3. AnswerPart(place, a) /\ MessagePart(place, m)
      BY <2>1, <3>1, Servers DEF AnswerPart, MessagePart
    <3> QED BY <3>2, <3>3 DEF InRomfs
  <2> QED BY <2>1, <2>2, <2>3, <2>4 DEF Placed
<1> QED
  BY <1>3, <1>5, <1>6 DEF IInv

LEMMA StepIInv ==
  ASSUME BootPrograms, IInv, OneAtATime, [Next]_vars, Serve => OneAtATime'
  PROVE  IInv'
<1>1. PICK place : Placed(place)
  BY DEF IInv
<1>2. Shape /\ New
  BY DEF IInv
<1> SUFFICES Shape' /\ New' /\ \E next : Placed(next)'
  BY DEF IInv
<1> HIDE DEF Shape, New, Placed
<1>3. ASSUME NEW t \in Tasks, Ask(t) PROVE Shape' /\ New' /\ \E next : Placed(next)'
  BY <1>1, <1>2, <1>3, AskStep, SendNew DEF Ask
<1>4. ASSUME NEW t \in Tasks, Return(t) PROVE Shape' /\ New' /\ \E next : Placed(next)'
  BY <1>1, <1>2, <1>4, ReturnStep, ReturnNew
<1>5. CASE RomdevMakes
  BY <1>1, <1>2, <1>5, MakesStep, MakesNew
<1>6. CASE Serve
  BY <1>1, <1>2, <1>6, HandlersStep, ServeNew
<1>7. CASE Deliver
  BY <1>1, <1>2, <1>7, DeliverStep, DeliverNew
<1>8. CASE RomfsReceive
  BY <1>1, <1>2, <1>8, ReceiveStep, RomfsNew
<1>9. CASE RomfsFound
  BY <1>1, <1>2, <1>9, FoundStep, SendNew, Servers DEF RomfsFound
<1>10. CASE RomfsMissed
  BY <1>1, <1>2, <1>10, MissedStep, RomfsNew
<1>11. CASE RomfsRegistered
  BY <1>1, <1>2, <1>11, RegisteredStep, RegisteredNew
<1>12. CASE RomfsReply
  BY <1>1, <1>2, <1>12, ReplyStep, RomfsNew
<1>13. CASE UNCHANGED vars
  <2>1. UNCHANGED <<paths, fs, mounts, requests, fifo, made, pool, asked, phase, done, out,
                    opening, status, nodes>>
    BY <1>13 DEF vars
  <2>2. Shape'
    BY <1>2, <2>1 DEF Shape
  <2>3. New'
    BY <1>2, <2>1 DEF New, Due, NewFd
  <2>4. Growing /\ \A S : Same(place, place, S)
    BY <2>1 DEF Growing, Same
  <2>5. /\ InFifo(place) /\ InWrite(place) /\ InOwn(place) /\ InRomfs(place) /\ InOpen(place)
        /\ InProgram(place) /\ RomfsReady(place)
    BY <1>1 DEF Placed
  <2>6. InFifo(place)'
    BY <1>2, <2>1, <2>4, <2>5, FifoStays
  <2>7. InWrite(place)'
    BY <2>1, <2>4, <2>5, WriteStays
  <2>8. InOwn(place)'
    BY <2>1, <2>4, <2>5, OwnStays
  <2>9. InRomfs(place)'
    BY <2>1, <2>4, <2>5, RomfsStays
  <2>10. InOpen(place)'
    BY <2>1, <2>4, <2>5, OpenStays
  <2>11. InProgram(place)' /\ RomfsReady(place)'
    BY <2>1, <2>5 DEF InProgram, RomfsReady
  <2>12. Placed(place)'
    BY <1>1, <2>1, <2>6, <2>7, <2>8, <2>9, <2>10, <2>11 DEF Placed
  <2> QED BY <2>2, <2>3, <2>12
<1> QED
  BY <1>3, <1>4, <1>5, <1>6, <1>7, <1>8, <1>9, <1>10, <1>11, <1>12, <1>13 DEF Next

LEMMA Answers == ASSUME BootPrograms PROVE IInv => RightAnswers /\ MadeOnce
<1>1. IInv => RightAnswers
  <2> SUFFICES ASSUME IInv, NEW t \in Tasks, phase[t] = "wait", fifo[t] # <<>>
               PROVE  "value" \in DOMAIN Head(fifo[t]) /\ Right(asked[t], Answer(t))
    BY DEF RightAnswers
  <2>1. PICK place : Placed(place)
    BY DEF IInv
  <2>2. PICK v : RightIn(paths, asked[t], v) /\ Head(fifo[t]) = Word(v)
    BY <2>1, OwnAnswer
  <2> QED BY <2>2, WordFacts, SameRight DEF Answer
<1>2. IInv => MadeOnce
  BY DEF IInv, New, MadeOnce
<1> QED
  BY <1>1, <1>2

\* Every answer a task reads is to the request it made: the descriptor it gets from an
\* open or a registration is that of the path it named (file.c, path.c, romfs.c), as long
\* as romfs_server is not sent a second open before it has registered the first.
THEOREM AnswersAreRight == ASSUME BootPrograms PROVE Spec /\ []OneAtATime => []RightAnswers
<1>1. IInv => RightAnswers
  BY Answers
<1>2. IInv /\ OneAtATime /\ [Next]_vars /\ OneAtATime' => IInv'
  BY StepIInv
<1> QED
  BY <1>1, <1>2, InitIInv, PTL DEF Spec

\* No file is made twice: path_register and mkfile hand out descriptors that no mknod has
\* had, and no two tasks are given the same one to make (path.c, romdev.c, romfs.c).
THEOREM FilesMadeOnce == ASSUME BootPrograms PROVE Spec /\ []OneAtATime => []MadeOnce
<1>1. IInv => MadeOnce
  BY Answers
<1>2. IInv /\ OneAtATime /\ [Next]_vars /\ OneAtATime' => IInv'
  BY StepIInv
<1> QED
  BY <1>1, <1>2, InitIInv, PTL DEF Spec

-----------------------------------------------------------------------------
(* Programs of which romfs_server is never sent two opens at a time *)

\* Enough, not necessary: an open of a path that is registered by then is not forwarded.
Opens(t) == \E i \in DOMAIN Programs[t] :
              Programs[t][i].cmd = "open" /\ Programs[t][i].path \in Covered
OneOpener == \A t, u \in Tasks : Opens(t) /\ Opens(u) => t = u

\* A task asks what its program says; romfs_server also registers what it opened.
Asking == \A t \in Tasks \ {romfs} :
            phase[t] = "wait" => \E i \in DOMAIN Programs[t] : asked[t] = Programs[t][i]

LEMMA AskingStep == ASSUME BootPrograms, IInv, Asking, [Next]_vars PROVE Asking'
<1>1. asked = [t \in Tasks |-> asked[t]] /\ phase \in [Tasks -> {"idle", "wait", "mknod"}]
      /\ done \in [Tasks -> Nat]
  BY DEF IInv, Shape
<1>2. \A t \in Tasks \ {romfs} :
        phase'[t] = "wait" => \/ asked'[t] = asked[t] /\ phase[t] = "wait"
                              \/ \E i \in DOMAIN Programs[t] : asked'[t] = Programs[t][i]
  <2> SUFFICES ASSUME NEW t \in Tasks \ {romfs}, phase'[t] = "wait"
               PROVE  \/ asked'[t] = asked[t] /\ phase[t] = "wait"
                      \/ \E i \in DOMAIN Programs[t] : asked'[t] = Programs[t][i]
    OBVIOUS
  <2>1. ASSUME NEW u \in Tasks, Ask(u)
        PROVE  \/ asked'[t] = asked[t] /\ phase[t] = "wait"
               \/ \E i \in DOMAIN Programs[t] : asked'[t] = Programs[t][i]
    <3>1. /\ done[u] < Len(Programs[u])
          /\ asked' = [asked EXCEPT ![u] = Programs[u][done[u] + 1]]
          /\ phase' = [phase EXCEPT ![u] = "wait"]
      BY <2>1 DEF Ask, Send
    <3>2. CASE u = t
      <4>1. PICK s \in Seq(Plain) : s = Programs[t]
        BY DEF BootPrograms
      <4>2. Len(s) \in Nat /\ DOMAIN s = 1 .. Len(s)
        BY LenProperties
      <4>3. done[t] \in Nat
        BY <1>1
      <4>4. done[t] + 1 \in DOMAIN s
        BY <3>1, <3>2, <4>1, <4>2, <4>3
      <4>5. asked'[t] = s[done[t] + 1]
        BY <1>1, <3>1, <3>2, <4>1
      <4> QED BY <4>1, <4>4, <4>5
    <3>3. CASE u # t
      BY <1>1, <3>1, <3>3
    <3> QED BY <3>2, <3>3
  <2>2. ASSUME NEW u \in Tasks, Return(u) PROVE asked'[t] = asked[t] /\ phase[t] = "wait"
    BY <1>1, <2>2 DEF Return
  <2>3. CASE RomdevMakes
    BY <1>1, <2>3 DEF RomdevMakes
  <2>4. CASE Serve \/ Deliver \/ RomfsReceive \/ RomfsMissed \/ RomfsReply
    BY <2>4 DEF Serve, Deliver, RomfsReceive, RomfsMissed, RomfsReply, client
  <2>5. CASE RomfsFound
    BY <1>1, <2>5 DEF RomfsFound, Send
  <2>6. CASE RomfsRegistered
    BY <1>1, <2>6 DEF RomfsRegistered
  <2>7. CASE UNCHANGED vars
    BY <2>7 DEF vars
  <2> QED BY <2>1, <2>2, <2>3, <2>4, <2>5, <2>6, <2>7 DEF Next
<1> QED
  BY <1>2 DEF Asking

\* With one opener, no open is on its way or served while another is.
LEMMA OneOnItsWay ==
  ASSUME BootPrograms, OneOpener, Asking, NEW place, Placed(place),
         NEW t \in Tasks \ {romfs}, phase[t] = "wait",
         asked[t].cmd = "open", asked[t].path \in Covered
  PROVE  \A u \in Tasks : place[u] \in {"sent", "queued", "opened"} => u = t
<1>1. Opens(t)
  BY DEF Asking, Opens
<1>2. ASSUME NEW u \in Tasks, place[u] \in {"sent", "queued", "opened"} PROVE u = t
  <2>1. u # romfs /\ asked[u].cmd = "open" /\ asked[u].path \in Covered /\ phase[u] = "wait"
    BY <1>2 DEF Placed, InProgram
  <2>2. Opens(u)
    BY <2>1 DEF Asking, Opens
  <2> QED BY <1>1, <2>2 DEF OneOpener
<1> QED
  BY <1>2

LEMMA NothingThere ==
  ASSUME BootPrograms, NEW place, Placed(place), \A u \in Tasks : place[u] \notin {"queued", "opened"}
  PROVE  opening.cmd = "none" /\ Len(fifo[romfs]) < 2
<1>1. opening.cmd = "none"
  BY RequestKinds DEF Placed, InOpen
<1>2. PICK answer, message :
        /\ fifo[romfs] = answer \o message
        /\ AnswerPart(place, answer) /\ MessagePart(place, message)
  BY DEF Placed, InRomfs
<1>3. message = <<>>
  BY <1>2 DEF MessagePart
<1>4. fifo[romfs] = <<>> \/ \E v : fifo[romfs] = <<Word(v)>>
  BY <1>2, <1>3, Pieces, ConcatEmptySeq DEF AnswerPart
<1>5. CASE fifo[romfs] = <<>>
  BY <1>1, <1>5
<1>6. CASE \E v : fifo[romfs] = <<Word(v)>>
  <2>1. PICK w : fifo[romfs] = <<w>>
    BY <1>6
  <2> QED BY <1>1, <2>1
<1> QED
  BY <1>4, <1>5, <1>6

LEMMA OpenerFacts ==
  ASSUME BootPrograms, OneOpener, IInv, Asking
  PROVE  OneAtATime /\ (Serve => OneAtATime')
<1>1. PICK place : Placed(place)
  BY DEF IInv
<1>2. \A t, v : Len(Answering(t, v).words) = 1
  BY DEF Answering
<1>3. OneAtATime
  <2> SUFFICES ASSUME out # NoWrite, Len(out.words) = 2
               PROVE  opening.cmd = "none" /\ Len(fifo[romfs]) < 2
    BY DEF OneAtATime
  <2>1. PICK t \in Tasks : place[t] = "sent"
    BY <1>1, <1>2 DEF Placed, InWrite
  <2>2. t # romfs /\ phase[t] = "wait" /\ asked[t].cmd = "open" /\ asked[t].path \in Covered
    BY <1>1, <2>1 DEF Placed, InProgram
  <2>3. \A u \in Tasks : place[u] \notin {"queued", "opened"}
    BY <1>1, <2>1, <2>2, OneOnItsWay
  <2> QED BY <1>1, <2>3, NothingThere
<1>4. ASSUME Serve PROVE OneAtATime'
  <2> SUFFICES ASSUME out' # NoWrite, Len(out'.words) = 2
               PROVE  opening'.cmd = "none" /\ Len(fifo'[romfs]) < 2
    BY DEF OneAtATime
  <2>1. PICK t, r : t = Head(requests).replyfd /\ r = Head(requests).ask
    OBVIOUS
  <2>2. /\ out = NoWrite /\ requests # <<>> /\ fifo' = fifo /\ opening' = opening
        /\ \/ PathMkfile(t, r) \/ PathOpen(t, r) \/ PathRegister(t, r) \/ PathRegisterFs(t, r)
           \/ PathMount(t, r)
    BY <1>4, <2>1 DEF Serve, server
  <2>3. \A v : Reply(t, v) => Len(out'.words) = 1
    BY DEF Reply
  <2>4. r.cmd = "open" /\ r.path \in Covered
    <3>1. ~ PathMkfile(t, r)
      BY <2>3 DEF PathMkfile
    <3>2. ~ PathRegister(t, r) /\ ~ PathRegisterFs(t, r) /\ ~ PathMount(t, r)
      BY <2>3 DEF PathRegister, PathRegisterFs, PathMount
    <3> QED BY <2>2, <2>3, <3>1, <3>2 DEF PathOpen
  <2>5. t \in Tasks /\ place[t] = "asked" /\ asked[t] = r
    <3>1. PICK q \in Seq(Posted) : q = requests
      BY DEF IInv, Shape
    <3>2. Len(q) \in Nat /\ Len(q) # 0
      BY <2>2, <3>1, EmptySeq, LenProperties
    <3>3. Head(q) = q[1] /\ 1 \in 1 .. Len(q)
      BY <3>1, <3>2
    <3>4. PICK x \in Posted : x = q[1]
      BY <3>3, ElementOfSeq
    <3>5. x.replyfd \in Tasks
      BY DEF Posted, Sent
    <3> QED BY <1>1, <2>1, <3>1, <3>3, <3>4, <3>5 DEF Placed, InFifo
  <2>6. phase[t] = "wait"
    BY <1>1, <2>5 DEF Placed
  <2>7. t # romfs
    <3> SUFFICES ASSUME t = romfs PROVE FALSE
      OBVIOUS
    <3>1. asked[romfs] = RegisterFs \/ \E p : asked[romfs] = Register(p)
      BY <1>1, <2>6 DEF Placed, InProgram, InOpen
    <3> QED BY <2>4, <2>5, <3>1, RequestKinds
  <2>8. \A u \in Tasks : place[u] \notin {"queued", "opened"}
    BY <1>1, <2>4, <2>5, <2>6, <2>7, OneOnItsWay
  <2> QED BY <1>1, <2>2, <2>8, NothingThere
<1> QED
  BY <1>3, <1>4

\* Whatever else the tasks ask for: if one task at most opens paths under the mount point,
\* romfs_server is sent one open at a time and every answer is right.
THEOREM OneOpenerIsRight ==
  ASSUME BootPrograms, OneOpener
  PROVE  Spec => [](OneAtATime /\ RightAnswers /\ MadeOnce)
<1>1. Init => Asking
  BY DEF Init, Asking
<1>2. Init => IInv
  BY InitIInv
<1>3. IInv /\ Asking => OneAtATime /\ RightAnswers /\ MadeOnce
  BY Answers, OpenerFacts
<1>4. IInv /\ Asking /\ [Next]_vars => IInv' /\ Asking'
  BY OpenerFacts, StepIInv, AskingStep
<1> QED
  BY <1>1, <1>2, <1>3, <1>4, PTL DEF Spec

-----------------------------------------------------------------------------
(* The bytes in a FIFO *)

\* The sums of the bytes of the first pieces of s
Sums(f, s, m) == f = [n \in 0 .. m |-> IF n = 0 THEN 0 ELSE f[n - 1] + s[n].bytes]

LEMMA SumsExist ==
  ASSUME NEW s, NEW m \in Nat
  PROVE  \E f : Sums(f, s, m)
<1> DEFINE S == {n \in Nat : \E f : Sums(f, s, n)}
<1>1. 0 \in S
  <2>1. Sums([n \in {0} |-> 0], s, 0)
    BY DEF Sums
  <2> QED BY <2>1
<1>2. ASSUME NEW n \in S PROVE n + 1 \in S
  <2>1. PICK f : Sums(f, s, n)
    OBVIOUS
  <2> DEFINE h == [i \in 0 .. n + 1 |-> IF i \in 0 .. n THEN f[i] ELSE f[i - 1] + s[i].bytes]
  <2>2. ASSUME NEW i \in 0 .. n + 1
        PROVE  h[i] = IF i = 0 THEN 0 ELSE h[i - 1] + s[i].bytes
    <3>1. CASE i = n + 1
      <4>1. i - 1 \in 0 .. n /\ i \notin 0 .. n /\ i - 1 \in 0 .. n + 1 /\ i # 0
        BY <3>1
      <4> QED BY <4>1
    <3>2. CASE i \in 0 .. n
      <4>1. f[i] = IF i = 0 THEN 0 ELSE f[i - 1] + s[i].bytes
        BY <3>2, <2>1 DEF Sums
      <4>2. i # 0 => i - 1 \in 0 .. n
        BY <3>2
      <4> QED BY <4>1, <4>2, <3>2
    <3> QED BY <3>1, <3>2
  <2>3. Sums(h, s, n + 1)
    <3> HIDE DEF h
    <3>1. h = [i \in 0 .. n + 1 |-> h[i]]
      BY DEF h
    <3> QED BY <2>2, <3>1 DEF Sums
  <2> QED BY <2>3
<1>3. S = Nat
  BY <1>1, <1>2, Lemmas!NatBySets
<1> QED
  BY <1>3

LEMMA HeldIs ==
  ASSUME NEW s, Len(s) \in Nat
  PROVE  \E f : Sums(f, s, Len(s)) /\ Held(s) = f[Len(s)]
<1> DEFINE sum == CHOOSE f : f = [n \in 0 .. Len(s) |-> IF n = 0 THEN 0 ELSE f[n - 1] + s[n].bytes]
<1>1. Held(s) = sum[Len(s)]
  BY DEF Held
<1>2. PICK g : g = [n \in 0 .. Len(s) |-> IF n = 0 THEN 0 ELSE g[n - 1] + s[n].bytes]
  BY SumsExist DEF Sums
<1>3. sum = [n \in 0 .. Len(s) |-> IF n = 0 THEN 0 ELSE sum[n - 1] + s[n].bytes]
  BY <1>2
<1>4. Sums(sum, s, Len(s))
  <2> HIDE DEF sum
  <2> QED BY <1>3 DEF Sums
<1> QED
  BY <1>1, <1>4

LEMMA SumsAre ==
  ASSUME NEW f, NEW s, NEW m \in Nat, Sums(f, s, m)
  PROVE  f[0] = 0 /\ \A n \in 1 .. m : f[n] = f[n - 1] + s[n].bytes
<1>1. 0 \in 0 .. m /\ \A n \in 1 .. m : n \in 0 .. m /\ n # 0
  OBVIOUS
<1>2. \A n \in 0 .. m : f[n] = IF n = 0 THEN 0 ELSE f[n - 1] + s[n].bytes
  BY DEF Sums
<1> QED
  BY <1>1, <1>2

\* Pieces with a number of bytes
Sized(X) == \A x \in X : x.bytes \in Nat

LEMMA HeldNone == Held(<<>>) = 0
<1>1. Len(<<>>) = 0
  OBVIOUS
<1>2. PICK f : Sums(f, <<>>, 0) /\ Held(<<>>) = f[0]
  BY <1>1, HeldIs
<1> QED
  BY <1>2, SumsAre

LEMMA HeldNat ==
  ASSUME NEW X, Sized(X), NEW s \in Seq(X)
  PROVE  Held(s) \in Nat
<1> PICK m : m = Len(s)
  OBVIOUS
<1>1. m \in Nat
  BY LenProperties
<1>2. PICK f : Sums(f, s, m) /\ Held(s) = f[m]
  BY <1>1, HeldIs
<1>3. f[0] = 0 /\ \A n \in 1 .. m : f[n] = f[n - 1] + s[n].bytes
  BY <1>1, <1>2, SumsAre
<1>4. \A n \in 1 .. m : s[n].bytes \in Nat
  BY ElementOfSeq DEF Sized
<1> DEFINE S == {n \in Nat : n <= m => f[n] \in Nat}
<1>5. 0 \in S
  BY <1>3
<1>6. ASSUME NEW n \in S PROVE n + 1 \in S
  <2> SUFFICES ASSUME n + 1 <= m PROVE f[n + 1] \in Nat
    OBVIOUS
  <2>1. n + 1 \in 1 .. m /\ n + 1 - 1 = n /\ f[n] \in Nat
    BY <1>1
  <2> QED BY <1>3, <1>4, <2>1
<1>7. S = Nat
  BY <1>5, <1>6, Lemmas!NatBySets
<1> QED
  BY <1>1, <1>2, <1>7

LEMMA HeldAppend ==
  ASSUME NEW X, Sized(X), NEW s \in Seq(X), NEW x \in X
  PROVE  Held(Append(s, x)) = Held(s) + x.bytes
<1> PICK m : m = Len(s)
  OBVIOUS
<1> PICK r : r = Append(s, x)
  OBVIOUS
<1>1. m \in Nat
  BY LenProperties
<1> PICK k \in Nat : k = m + 1
  BY <1>1
<1>2. Len(r) = k /\ (\A i \in 1 .. m : r[i] = s[i]) /\ r[k] = x
  BY AppendProperties
<1>3. PICK f : Sums(f, s, m) /\ Held(s) = f[m]
  BY <1>1, HeldIs
<1>4. PICK g : Sums(g, r, k) /\ Held(r) = g[k]
  BY <1>2, HeldIs
<1>5. f[0] = 0 /\ \A n \in 1 .. m : f[n] = f[n - 1] + s[n].bytes
  BY <1>1, <1>3, SumsAre
<1>6. g[0] = 0 /\ \A n \in 1 .. k : g[n] = g[n - 1] + r[n].bytes
  BY <1>4, SumsAre
<1> DEFINE S == {n \in Nat : n <= m => g[n] = f[n]}
<1>7. 0 \in S
  BY <1>5, <1>6
<1>8. ASSUME NEW n \in S PROVE n + 1 \in S
  <2> SUFFICES ASSUME n + 1 <= m PROVE g[n + 1] = f[n + 1]
    OBVIOUS
  <2>1. n + 1 \in 1 .. m /\ n + 1 \in 1 .. k /\ n + 1 - 1 = n /\ g[n] = f[n]
    BY <1>1
  <2> QED BY <1>2, <1>5, <1>6, <2>1
<1>9. S = Nat
  BY <1>7, <1>8, Lemmas!NatBySets
<1>10. g[m] = f[m]
  BY <1>1, <1>9
<1>11. k \in 1 .. k /\ k - 1 = m
  BY <1>1
<1> QED
  BY <1>2, <1>3, <1>4, <1>6, <1>10, <1>11

LEMMA HeldTail ==
  ASSUME NEW X, Sized(X), NEW s \in Seq(X), s # <<>>
  PROVE  Held(Tail(s)) <= Held(s)
<1> PICK m : m = Len(s) - 1
  OBVIOUS
<1> PICK r : r = Tail(s)
  OBVIOUS
<1>1. m \in Nat /\ Len(s) = m + 1
  <2>1. Len(s) \in Nat /\ Len(s) # 0
    BY LenProperties, EmptySeq
  <2> QED BY <2>1
<1>2. r \in Seq(X) /\ Len(r) = m /\ \A i \in 1 .. m : r[i] = s[i + 1]
  BY <1>1, HeadTailProperties
<1>3. PICK f : Sums(f, s, m + 1) /\ Held(s) = f[m + 1]
  BY <1>1, HeldIs
<1>4. PICK g : Sums(g, r, m) /\ Held(r) = g[m]
  BY <1>1, <1>2, HeldIs
<1>5. f[0] = 0 /\ \A n \in 1 .. m + 1 : f[n] = f[n - 1] + s[n].bytes
  BY <1>1, <1>3, SumsAre
<1>6. g[0] = 0 /\ \A n \in 1 .. m : g[n] = g[n - 1] + r[n].bytes
  BY <1>1, <1>4, SumsAre
<1>7. \A n \in 1 .. m + 1 : s[n].bytes \in Nat
  BY <1>1, ElementOfSeq DEF Sized
<1>8. PICK b \in Nat : b = s[1].bytes
  BY <1>1, <1>7
<1> DEFINE S == {n \in Nat : n <= m => g[n] \in Nat /\ f[n + 1] = g[n] + b}
<1>9. 0 \in S
  <2>1. 1 \in 1 .. m + 1 /\ 1 - 1 = 0 /\ 0 + 1 = 1
    BY <1>1
  <2> QED BY <1>5, <1>6, <1>8, <2>1
<1>10. ASSUME NEW n \in S PROVE n + 1 \in S
  <2> SUFFICES ASSUME n + 1 <= m PROVE g[n + 1] \in Nat /\ f[n + 1 + 1] = g[n + 1] + b
    OBVIOUS
  <2>1. /\ n + 1 \in 1 .. m /\ n + 1 - 1 = n /\ n + 1 + 1 \in 1 .. m + 1 /\ n + 1 + 1 - 1 = n + 1
        /\ g[n] \in Nat /\ f[n + 1] = g[n] + b
    BY <1>1
  <2>2. PICK c \in Nat : c = s[n + 1 + 1].bytes
    BY <1>7, <2>1
  <2>3. g[n + 1] = g[n] + c
    BY <1>2, <1>6, <2>1, <2>2
  <2>4. f[n + 1 + 1] = f[n + 1] + c
    BY <1>5, <2>1, <2>2
  <2> QED BY <2>1, <2>3, <2>4
<1>11. S = Nat
  BY <1>9, <1>10, Lemmas!NatBySets
<1>12. g[m] \in Nat /\ f[m + 1] = g[m] + b
  BY <1>1, <1>11
<1> QED
  BY <1>3, <1>4, <1>8, <1>12

LEMMA AppendedPieces ==
  ASSUME NEW a, NEW b, NEW c
  PROVE  Append(<<a>>, b) = <<a, b>> /\ Append(<<a, b>>, c) = <<a, b, c>>
<1> DEFINE S == {a, b, c}
<1>1. <<a>> \in Seq(S) /\ <<a, b>> \in Seq(S) /\ <<a, b, c>> \in Seq(S) /\ b \in S /\ c \in S
  OBVIOUS
<1>2. PICK s \in Seq(S), t \in Seq(S), u \in Seq(S) :
        /\ s = <<a>> /\ t = <<a, b>> /\ u = <<a, b, c>>
        /\ Len(s) = 1 /\ s[1] = a /\ Len(t) = 2 /\ t[1] = a /\ t[2] = b
        /\ Len(u) = 3 /\ u[1] = a /\ u[2] = b /\ u[3] = c
  BY <1>1
<1>3. Append(s, b) = t
  <2>1. /\ Append(s, b) \in Seq(S) /\ Len(Append(s, b)) = 2
        /\ Append(s, b)[1] = a /\ Append(s, b)[2] = b
    BY <1>1, <1>2, AppendProperties
  <2>2. \A i \in 1 .. 2 : i = 1 \/ i = 2
    OBVIOUS
  <2> QED BY <1>2, <2>1, <2>2, SeqEqual
<1>4. Append(t, c) = u
  <2>1. /\ Append(t, c) \in Seq(S) /\ Len(Append(t, c)) = 3
        /\ Append(t, c)[1] = a /\ Append(t, c)[2] = b /\ Append(t, c)[3] = c
    BY <1>1, <1>2, AppendProperties
  <2>2. \A i \in 1 .. 3 : i = 1 \/ i = 2 \/ i = 3
    OBVIOUS
  <2> QED BY <1>2, <2>1, <2>2, SeqEqual
<1> QED
  BY <1>2, <1>3, <1>4

\* Answers and opens as they lie in a FIFO
LEMMA HeldPieces ==
  /\ \A v : Held(<<Word(v)>>) = 4
  /\ \A t, p, dev : Held(Forwarded(t, p, dev)) = FS_REQUEST
<1>1. ASSUME NEW v PROVE Held(<<Word(v)>>) = 4
  <2>1. PICK a : a = Word(v)
    OBVIOUS
  <2>2. a.bytes = 4 /\ Sized({a})
    BY <2>1 DEF Word, Sized
  <2>3. <<>> \in Seq({a}) /\ Append(<<>>, a) = <<a>>
    OBVIOUS
  <2>4. Held(Append(<<>>, a)) = 0 + 4
    BY <2>2, <2>3, HeldAppend, HeldNone
  <2> QED BY <2>1, <2>3, <2>4
<1>2. ASSUME NEW t, NEW p, NEW dev PROVE Held(Forwarded(t, p, dev)) = FS_REQUEST
  <2>1. PICK a, b : a = Word(FS_CMD_OPEN) /\ b = Rest(t, p, dev)
    OBVIOUS
  <2>2. a.bytes = 4 /\ b.bytes = 52 /\ Sized({a, b})
    BY <2>1 DEF Word, Rest, Sized, FS_REQUEST
  <2>3. <<a>> \in Seq({a, b})
    OBVIOUS
  <2>4. PICK s \in Seq({a, b}) : s = <<a>>
    BY <2>3
  <2>5. Held(s) = 4
    BY <1>1, <2>1, <2>4, Zenon
  <2>6. Held(Append(s, b)) = FS_REQUEST
    BY <2>2, <2>5, HeldAppend DEF FS_REQUEST
  <2>7. Append(s, b) = Forwarded(t, p, dev)
    BY <2>1, <2>4, AppendedPieces, Zenon DEF Forwarded
  <2> QED BY <2>6, <2>7, Zenon
<1> QED
  BY <1>1, <1>2

LEMMA HeldBoth ==
  ASSUME NEW v, NEW t, NEW p, NEW dev
  PROVE  Held(<<Word(v)>> \o Forwarded(t, p, dev)) = 4 + FS_REQUEST
<1>1. PICK a, b, c : a = Word(v) /\ b = Word(FS_CMD_OPEN) /\ c = Rest(t, p, dev)
  OBVIOUS
<1>2. a.bytes = 4 /\ b.bytes = 4 /\ c.bytes = 52 /\ Sized({a, b, c})
  BY <1>1 DEF Word, Rest, Sized, FS_REQUEST
<1>3. <<a>> \in Seq({a, b, c}) /\ <<a, b>> \in Seq({a, b, c})
  OBVIOUS
<1>4. Append(<<a>>, b) = <<a, b>> /\ Append(<<a, b>>, c) = <<a, b, c>>
  BY AppendedPieces
<1>5. Held(<<a>>) = 4
  BY <1>1, HeldPieces
<1>6. Held(<<a, b>>) = 4 + 4
  BY <1>2, <1>3, <1>4, <1>5, HeldAppend
<1>7. Held(<<a, b, c>>) = 4 + FS_REQUEST
  <2>1. Held(<<a, b, c>>) = 4 + 4 + 52
    BY <1>2, <1>3, <1>4, <1>6, HeldAppend
  <2> QED BY <2>1 DEF FS_REQUEST
<1>8. Forwarded(t, p, dev) = <<b, c>>
  BY <1>1 DEF Forwarded
<1>9. <<Word(v)>> \o Forwarded(t, p, dev) = <<a, b, c>>
  BY <1>1, <1>8, Pieces
<1> QED
  BY <1>7, <1>9, Zenon

-----------------------------------------------------------------------------
(* The descriptors fit the table of files *)

\* The requests that may register a path
Naming == {x \in Tasks \X Nat : /\ x[2] \in DOMAIN Programs[x[1]]
                                /\ Programs[x[1]][x[2]].cmd \in {"mkfile", "open", "register"}}

\* There is a descriptor for every path that the programs make, register or open.
RoomForPaths == IsFiniteSet(Naming) /\ PATHSERVER_FD + Cardinality(Naming) <= FILE_LIMIT

\* A request in the path server's FIFO, and one that has been decided
Pending(t) == \E i \in 1 .. Len(requests) : requests[i].replyfd = t
Decided(t) ==
  \/ \E v : out = Answering(t, v)
  \/ fifo[t] # <<>>
  \/ opening.cmd = "register" /\ opening.from = t /\ ~ Pending(romfs)
  \/ opening.cmd = "reply" /\ opening.from = t
Owed(t) == phase[t] = "wait" /\ ~ Decided(t)

\* Every path but the first was registered for another request that has been decided.
Counted(S) ==
  /\ S \in SUBSET Naming /\ Len(paths) = Cardinality(S) + 1
  /\ \A x \in S : x[2] <= done[x[1]]
  /\ \A t \in Tasks \ {romfs} : Owed(t) => <<t, done[t]>> \notin S

\* A task asks for what its program has next.
Turn == \A t \in Tasks \ {romfs} :
          phase[t] = "wait" => /\ done[t] \in DOMAIN Programs[t]
                               /\ asked[t] = Programs[t][done[t]]

LEMMA TurnStep == ASSUME BootPrograms, IInv, Turn, [Next]_vars PROVE Turn'
<1>1. asked = [t \in Tasks |-> asked[t]] /\ phase \in [Tasks -> {"idle", "wait", "mknod"}]
      /\ done \in [Tasks -> Nat]
  BY DEF IInv, Shape
<1>2. ASSUME NEW t \in Tasks \ {romfs}, phase'[t] = "wait"
      PROVE  \/ asked'[t] = asked[t] /\ phase[t] = "wait" /\ done'[t] = done[t]
             \/ done'[t] \in DOMAIN Programs[t] /\ asked'[t] = Programs[t][done'[t]]
  <2>1. ASSUME NEW u \in Tasks, Ask(u)
        PROVE  \/ asked'[t] = asked[t] /\ phase[t] = "wait" /\ done'[t] = done[t]
               \/ done'[t] \in DOMAIN Programs[t] /\ asked'[t] = Programs[t][done'[t]]
    <3>1. /\ done[u] < Len(Programs[u])
          /\ asked' = [asked EXCEPT ![u] = Programs[u][done[u] + 1]]
          /\ phase' = [phase EXCEPT ![u] = "wait"] /\ done' = [done EXCEPT ![u] = @ + 1]
      BY <2>1 DEF Ask, Send
    <3>2. CASE u = t
      <4>1. PICK s \in Seq(Plain) : s = Programs[t]
        BY DEF BootPrograms
      <4>2. Len(s) \in Nat /\ DOMAIN s = 1 .. Len(s)
        BY LenProperties
      <4>3. done[t] \in Nat /\ done'[t] = done[t] + 1
        BY <1>1, <3>1, <3>2
      <4>4. done'[t] \in DOMAIN s
        BY <3>1, <3>2, <4>1, <4>2, <4>3
      <4>5. asked'[t] = s[done'[t]]
        BY <1>1, <3>1, <3>2, <4>1, <4>3
      <4> QED BY <4>1, <4>4, <4>5
    <3>3. CASE u # t
      BY <1>1, <1>2, <3>1, <3>3
    <3> QED BY <3>2, <3>3
  <2>2. ASSUME NEW u \in Tasks, Return(u)
        PROVE  asked'[t] = asked[t] /\ phase[t] = "wait" /\ done'[t] = done[t]
    <3>1. done' = done
      BY <2>2 DEF Return, ReadAnswer
    <3> QED BY <1>1, <1>2, <2>2, <3>1 DEF Return
  <2>3. CASE RomdevMakes
    BY <1>1, <1>2, <2>3 DEF RomdevMakes
  <2>4. CASE Serve \/ Deliver \/ RomfsReceive \/ RomfsMissed \/ RomfsReply
    BY <1>2, <2>4 DEF Serve, Deliver, RomfsReceive, RomfsMissed, RomfsReply, client
  <2>5. CASE RomfsFound
    BY <1>1, <1>2, <2>5 DEF RomfsFound, Send
  <2>6. CASE RomfsRegistered
    <3>1. done' = done
      BY <2>6 DEF RomfsRegistered, ReadAnswer
    <3> QED BY <1>1, <1>2, <2>6, <3>1 DEF RomfsRegistered
  <2>7. CASE UNCHANGED vars
    BY <1>2, <2>7 DEF vars
  <2> QED BY <2>1, <2>2, <2>3, <2>4, <2>5, <2>6, <2>7 DEF Next
<1> QED
  BY <1>2 DEF Turn

LEMMA CountedStays ==
  ASSUME NEW S, Counted(S), paths' = paths, done' = done,
         \A t \in Tasks \ {romfs} : Owed(t)' => Owed(t)
  PROVE  Counted(S)'
<1> HIDE DEF Owed
<1> QED
  BY DEF Counted

\* What is decided and what a task asks for
LEMMA OwedStays ==
  ASSUME NEW t, phase'[t] = "wait" => phase[t] = "wait", Decided(t) => Decided(t)'
  PROVE  Owed(t)' => Owed(t)
BY DEF Owed

LEMMA NoAnswerYet ==
  ASSUME BootPrograms
  PROVE  \A t \in Tasks : \A v : Answering(t, v) # NoWrite
<1>1. ASSUME NEW t \in Tasks, NEW v PROVE Answering(t, v) # NoWrite
  <2>1. Answering(t, v).to = t /\ NoWrite.to = Nobody
    BY DEF Answering, NoWrite
  <2> QED BY <2>1, PathsAssumption
<1> QED
  BY <1>1

LEMMA AskCounted ==
  ASSUME BootPrograms, Shape, NEW place, Placed(place), NEW t \in Tasks, Ask(t),
         NEW S, Counted(S)
  PROVE  Counted(S)'
<1>1. /\ phase[t] = "idle" /\ phase' = [phase EXCEPT ![t] = "wait"] /\ done' = [done EXCEPT ![t] = @ + 1]
      /\ \E r : requests' = Append(requests, Sent(r, t))
      /\ UNCHANGED <<paths, fifo, out, opening>>
  BY DEF Ask, Send, tables, server
<1>2. /\ \A u \in Tasks : u # t => phase'[u] = phase[u] /\ done'[u] = done[u]
      /\ \A u \in Tasks : done[u] \in Nat /\ done[u] <= done'[u]
      /\ done'[t] = done[t] + 1
  BY <1>1 DEF Shape
<1>3. \A x \in S : x[1] \in Tasks /\ x[2] \in Nat /\ x[2] <= done[x[1]]
  BY DEF Counted, Naming
<1>4. \A x \in S : x[2] <= done'[x[1]]
  BY <1>2, <1>3
<1>5. opening.cmd = "register" => t # romfs
  BY <1>1, Opened
<1>6. ASSUME t # romfs, Pending(romfs)' PROVE Pending(romfs)
  <2>1. PICK q \in Seq(Posted) : q = requests
    BY DEF Shape
  <2>2. PICK r : requests' = Append(requests, Sent(r, t))
    BY <1>1
  <2>3. PICK x : x = Sent(r, t)
    OBVIOUS
  <2>4. x.replyfd = t
    BY <2>3 DEF Sent
  <2>5. PICK n, s : /\ n \in Nat /\ n = Len(q) /\ s = Append(q, x) /\ Len(s) = n + 1
                   /\ (\A i \in 1 .. n : s[i] = q[i]) /\ s[n + 1] = x
    <3>1. PICK Z : Z = Posted \union {x}
      OBVIOUS
    <3>2. q \in Seq(Z) /\ x \in Z /\ Len(q) \in Nat
      BY <3>1, SeqMonotonic, LenProperties
    <3>3. /\ Len(Append(q, x)) = Len(q) + 1 /\ Append(q, x)[Len(q) + 1] = x
          /\ \A i \in 1 .. Len(q) : Append(q, x)[i] = q[i]
      BY <3>2, AppendProperties
    <3> QED BY <3>2, <3>3
  <2>6. PICK i \in 1 .. n + 1 : s[i].replyfd = romfs
    BY <1>6, <2>1, <2>2, <2>3, <2>5 DEF Pending
  <2>7. i \in 1 .. n
    <3>1. i # n + 1
      BY <1>6, <2>4, <2>5, <2>6
    <3> QED BY <2>5, <3>1
  <2> QED BY <2>1, <2>5, <2>6, <2>7 DEF Pending
<1>7. ASSUME NEW u \in Tasks \ {romfs}, Owed(u)' PROVE <<u, done'[u]>> \notin S
  <2>1. CASE u = t
    <3>1. ~ (done[t] + 1 <= done[t])
      BY <1>2
    <3>2. <<u, done'[u]>>[1] = t /\ <<u, done'[u]>>[2] = done[t] + 1
      BY <1>2, <2>1
    <3> QED BY <1>3, <3>1, <3>2
  <2>2. CASE u # t
    <3>1. Decided(u) => Decided(u)'
      BY <1>1, <1>5, <1>6 DEF Decided
    <3>2. Owed(u)
      BY <1>2, <1>7, <2>2, <3>1 DEF Owed
    <3> QED BY <1>2, <2>2, <3>2 DEF Counted
  <2> QED BY <2>1, <2>2
<1> QED
  BY <1>1, <1>4, <1>7 DEF Counted


LEMMA HeadFacts ==
  ASSUME BootPrograms, Shape, NEW place, Placed(place), Serve,
         NEW t, NEW r, t = Head(requests).replyfd, r = Head(requests).ask
  PROVE  /\ t \in Tasks /\ r \in Asks /\ asked[t] = r /\ place[t] = "asked" /\ phase[t] = "wait"
         /\ \E i \in 1 .. Len(requests) : requests[i].replyfd = t
         /\ \A u : (\E i \in 1 .. Len(requests') : requests'[i].replyfd = u) =>
                     u # t /\ \E i \in 1 .. Len(requests) : requests[i].replyfd = u
<1>1. requests # <<>> /\ requests' = Tail(requests) /\ requests \in Seq(Posted)
  BY DEF Serve, Shape
<1>2. PICK n \in Nat : n + 1 = Len(requests)
  <2>1. Len(requests) \in Nat /\ Len(requests) # 0
    BY <1>1, EmptySeq, LenProperties
  <2> QED BY <2>1
<1>3. PICK x \in Posted : x = Head(requests)
  BY <1>1, HeadTailProperties
<1>4. t \in Tasks /\ r \in Asks
  <2>1. x.replyfd \in Tasks /\ x.ask \in Asks
    BY DEF Posted, Sent
  <2> QED BY <1>3, <2>1
<1>5. Head(requests) = requests[1] /\ 1 \in 1 .. n + 1
  BY <1>1, <1>2
<1>6. place[t] = "asked" /\ asked[t] = r
  BY <1>2, <1>5 DEF Placed, InFifo
<1>7. phase[t] = "wait"
  BY <1>4, <1>6 DEF Placed
<1>8. Len(requests') = n /\ \A i \in 1 .. n : requests'[i] = requests[i + 1]
  <2>1. Len(Tail(requests)) = Len(requests) - 1
        /\ \A i \in 1 .. Len(Tail(requests)) : Tail(requests)[i] = requests[i + 1]
    BY <1>1, HeadTailProperties
  <2>2. Len(Tail(requests)) = n
    BY <1>2, <2>1
  <2> QED BY <1>1, <2>1, <2>2
<1>9. ASSUME NEW u, NEW i \in 1 .. n, requests'[i].replyfd = u
      PROVE  u # t /\ \E j \in 1 .. n + 1 : requests[j].replyfd = u
  <2>1. i + 1 \in 1 .. n + 1 /\ i + 1 # 1 /\ requests[i + 1].replyfd = u
    BY <1>8, <1>9
  <2>2. u # t
    BY <1>2, <1>5, <2>1 DEF Placed, InFifo
  <2> QED BY <2>1, <2>2
<1> QED
  BY <1>2, <1>4, <1>5, <1>6, <1>7, <1>8, <1>9

\* A path is registered for a request that was owed an answer and is no more.
LEMMA NamedFor ==
  ASSUME BootPrograms, Shape, NEW place, Placed(place), Serve,
         NEW t, NEW r, t = Head(requests).replyfd, r = Head(requests).ask,
         r.cmd \in {"mkfile", "register"}, \E v : out' = Answering(t, v)
  PROVE  \E u \in Tasks \ {romfs} :
           /\ Owed(u) /\ ~ Owed(u)'
           /\ asked[u].cmd \in {"mkfile", "open", "register"}
<1>1. /\ out = NoWrite /\ fifo' = fifo /\ phase' = phase /\ opening' = opening
  BY DEF Serve, client, server
<1>2. /\ t \in Tasks /\ asked[t] = r /\ place[t] = "asked" /\ phase[t] = "wait"
      /\ Pending(t) /\ ~ Pending(t)'
  BY HeadFacts DEF Pending
<1>3. \A u \in Tasks \ {romfs} : place[u] # "answered" => fifo[u] = <<>>
  BY DEF Placed, InOwn, HasAnswer
<1>4. \A u \in Tasks : \A v : out # Answering(u, v)
  BY <1>1, NoAnswerYet
<1>5. CASE t # romfs
  <2>1. opening.cmd \in {"register", "reply"} => opening.from # t
    BY <1>2, Opened
  <2>2. Owed(t)
    BY <1>2, <1>3, <1>4, <1>5, <2>1 DEF Owed, Decided
  <2>3. ~ Owed(t)'
    BY DEF Owed, Decided
  <2> QED BY <1>2, <1>5, <2>2, <2>3
<1>6. CASE t = romfs
  <2>1. opening.cmd = "register"
    <3>1. r # RegisterFs
      BY RequestKinds
    <3>2. opening # NoRequest
      BY <1>2, <1>6, <3>1 DEF Placed, InProgram
    <3> QED BY <1>2, <1>6, <3>2 DEF Placed, InOpen
  <2>2. PICK u \in Tasks : /\ u = opening.from /\ u # romfs /\ place[u] = "opened"
                           /\ asked[u].cmd = "open"
    BY <2>1, Opened
  <2>3. phase[u] = "wait" /\ fifo[u] = <<>>
    BY <1>3, <2>2 DEF Placed
  <2>4. Owed(u)
    BY <1>2, <1>4, <1>6, <2>1, <2>3 DEF Owed, Decided
  <2>5. ~ Owed(u)'
    BY <1>1, <1>2, <1>6, <2>1, <2>2 DEF Owed, Decided
  <2> QED BY <2>2, <2>4, <2>5
<1> QED
  BY <1>5, <1>6

LEMMA ServeCounted ==
  ASSUME BootPrograms, RoomForPaths, Shape, NEW place, Placed(place), Turn, Serve,
         NEW S, Counted(S)
  PROVE  \E T : Counted(T)'
<1>1. PICK t, r : t = Head(requests).replyfd /\ r = Head(requests).ask
  OBVIOUS
<1>2. /\ out = NoWrite /\ fifo' = fifo /\ phase' = phase /\ done' = done /\ opening' = opening
      /\ \/ PathMkfile(t, r) \/ PathOpen(t, r) \/ PathRegister(t, r) \/ PathRegisterFs(t, r)
         \/ PathMount(t, r)
  BY <1>1 DEF Serve, client, server
<1>3. t \in Tasks /\ r \in Asks
  BY <1>1, HeadFacts
<1>4. \A u \in Tasks \ {romfs} : Owed(u)' => Owed(u)
  <2> SUFFICES ASSUME NEW u \in Tasks \ {romfs}, Decided(u) PROVE Decided(u)'
    BY <1>2, OwedStays
  <2>1. \A v : out # Answering(u, v)
    BY <1>2, NoAnswerYet
  <2>2. Pending(romfs)' => Pending(romfs)
    BY <1>1, HeadFacts DEF Pending
  <2>3. CASE fifo[u] # <<>>
    BY <1>2, <2>3 DEF Decided
  <2>4. CASE opening.cmd = "register" /\ opening.from = u /\ ~ Pending(romfs)
    BY <1>2, <2>2, <2>4 DEF Decided
  <2>5. CASE opening.cmd = "reply" /\ opening.from = u
    BY <1>2, <2>5 DEF Decided
  <2> QED BY <2>1, <2>3, <2>4, <2>5 DEF Decided
<1>5. CASE paths' = paths
  <2>1. Counted(S)'
    BY <1>2, <1>4, <1>5, CountedStays
  <2> QED BY <2>1
<1>6. CASE paths' # paths
  <2>1. /\ paths' = Append(paths, r.path) /\ r.cmd \in {"mkfile", "register"}
        /\ \E v : out' = Answering(t, v)
    <3>1. PathMkfile(t, r) \/ PathRegister(t, r)
      BY <1>2, <1>6 DEF PathOpen, PathRegisterFs, PathMount, tables
    <3>2. CASE PathMkfile(t, r)
      <4>1. /\ r.cmd = "mkfile" /\ paths' = IF pool > 0 THEN Append(paths, r.path) ELSE paths
            /\ \E v : Reply(t, v)
        BY <3>2 DEF PathMkfile
      <4> QED BY <1>6, <4>1 DEF Reply, Answering
    <3>3. CASE PathRegister(t, r)
      BY <3>3 DEF PathRegister, Reply, Answering
    <3> QED BY <3>1, <3>2, <3>3
  <2>2. PICK u \in Tasks \ {romfs} : /\ Owed(u) /\ ~ Owed(u)'
                                     /\ asked[u].cmd \in {"mkfile", "open", "register"}
    BY <1>1, <2>1, NamedFor
  <2>3. PICK x : x = <<u, done[u]>>
    OBVIOUS
  <2>4. x \in Naming /\ x \notin S
    <3>1. done[u] \in Nat
      BY DEF Shape
    <3>2. done[u] \in DOMAIN Programs[u] /\ asked[u] = Programs[u][done[u]]
      BY <2>2 DEF Turn, Owed
    <3>3. x \notin S
      BY <2>2, <2>3 DEF Counted
    <3>4. x[1] = u /\ x[2] = done[u] /\ x \in Tasks \X Nat
      BY <2>3, <3>1
    <3> QED BY <2>2, <3>2, <3>3, <3>4 DEF Naming
  <2>5. PICK T : T = S \union {x}
    OBVIOUS
  <2>6. S \in SUBSET Naming /\ Len(paths) = Cardinality(S) + 1
    BY DEF Counted
  <2>7. Cardinality(T) = Cardinality(S) + 1 /\ Cardinality(S) \in Nat
    <3>1. IsFiniteSet(S)
      BY <2>6, FS_Subset DEF RoomForPaths
    <3> QED BY <2>4, <2>5, <3>1, FS_AddElement, FS_CardinalityType
  <2>8. Len(paths') = Len(paths) + 1
    <3>1. PICK p \in Paths : p = r.path
      BY <1>3, <2>1, RequestKinds DEF Asks
    <3> QED BY <2>1, <3>1, AppendProperties DEF Shape
  <2>9. \A y \in T : y[2] <= done'[y[1]]
    <3>1. done[u] \in Nat /\ x[1] = u /\ x[2] = done[u]
      BY <2>3 DEF Shape
    <3>2. \A y \in S : y[2] <= done[y[1]]
      BY DEF Counted
    <3> QED BY <1>2, <2>5, <3>1, <3>2
  <2>10. ASSUME NEW w \in Tasks \ {romfs}, Owed(w)' PROVE <<w, done'[w]>> \notin T
    <3>1. w # u /\ <<w, done[w]>> \notin S
      BY <1>4, <2>2, <2>10 DEF Counted
    <3>2. <<w, done[w]>> # x
      BY <2>3, <3>1
    <3> QED BY <1>2, <2>5, <3>1, <3>2
  <2>11. Counted(T)'
    <3> HIDE DEF Owed
    <3>1. T \in SUBSET Naming /\ Len(paths') = Cardinality(T) + 1
      BY <2>4, <2>5, <2>6, <2>7, <2>8
    <3> QED BY <2>9, <2>10, <3>1 DEF Counted
  <2> QED BY <2>11
<1> QED
  BY <1>5, <1>6


LEMMA ReadersCounted ==
  ASSUME BootPrograms, Shape, NEW place, Placed(place), NEW S, Counted(S),
         (\E t \in Tasks : Return(t)) \/ RomdevMakes
  PROVE  Counted(S)'
<1>1. phase \in [Tasks -> {"idle", "wait", "mknod"}] /\ fifo = [t \in Tasks |-> fifo[t]]
  BY DEF Shape
<1>2. ASSUME NEW t \in Tasks, Return(t) PROVE Counted(S)'
  <2>1. /\ fifo' = [fifo EXCEPT ![t] = Tail(@)] /\ UNCHANGED <<paths, requests, done, out, opening>>
        /\ phase' = [phase EXCEPT ![t] = "mknod"] \/ phase' = [phase EXCEPT ![t] = "idle"]
    BY <1>2 DEF Return, ReadAnswer, tables, server
  <2>2. ASSUME NEW u \in Tasks \ {romfs} PROVE Owed(u)' => Owed(u)
    <3>1. CASE u = t
      <4>1. phase'[u] # "wait"
        BY <1>1, <2>1, <3>1
      <4> QED BY <4>1 DEF Owed
    <3>2. CASE u # t
      <4>1. phase'[u] = phase[u] /\ fifo'[u] = fifo[u]
        BY <1>1, <2>1, <3>2
      <4> QED BY <2>1, <4>1 DEF Owed, Decided, Pending
    <3> QED BY <3>1, <3>2
  <2> QED BY <2>1, <2>2, CountedStays
<1>3. CASE RomdevMakes
  <2>1. /\ phase' = [phase EXCEPT ![romdev] = "idle"]
        /\ UNCHANGED <<paths, requests, fifo, done, out, opening>>
    BY <1>3 DEF RomdevMakes, tables, server
  <2>2. ASSUME NEW u \in Tasks \ {romfs} PROVE Owed(u)' => Owed(u)
    <3>1. phase'[u] = "wait" => phase[u] = "wait"
      BY <1>1, <2>1
    <3> QED BY <2>1, <3>1 DEF Owed, Decided, Pending
  <2> QED BY <2>1, <2>2, CountedStays
<1> QED
  BY <1>2, <1>3

LEMMA DeliverCounted ==
  ASSUME BootPrograms, Shape, NEW place, Placed(place), NEW S, Counted(S), Deliver, OneAtATime
  PROVE  Counted(S)'
<1>1. /\ fifo' = [fifo EXCEPT ![out.to] = @ \o out.words]
      /\ UNCHANGED <<paths, requests, phase, done, opening>>
  BY DEF Deliver, tables, client, server
<1>2. ASSUME NEW u \in Tasks \ {romfs}, Decided(u) PROVE Decided(u)'
  <2>1. ASSUME NEW v, out = Answering(u, v) PROVE fifo'[u] # <<>>
    <3>1. place[u] = "answering"
      BY <2>1, OneWrite
    <3>2. fifo[u] = <<>>
      BY <3>1 DEF Placed, InOwn, HasAnswer
    <3>3. out.to = u /\ out.words = <<Word(v)>>
      BY <2>1 DEF Answering
    <3>4. fifo'[u] = <<>> \o <<Word(v)>>
      BY <1>1, <3>2, <3>3 DEF Shape
    <3>5. <<>> \o <<Word(v)>> # <<>>
      BY Pieces
    <3> QED BY <3>4, <3>5
  <2>2. fifo[u] # <<>> => fifo'[u] # <<>>
    <3>1. \A w : <<Word(w)>> # <<>>
      OBVIOUS
    <3>2. fifo'[u] = fifo[u] \/ \E w : fifo'[u] = <<Word(w)>>
      BY DeliverStep
    <3> QED BY <3>1, <3>2
  <2> QED BY <1>1, <1>2, <2>1, <2>2 DEF Decided, Pending
<1>3. \A u \in Tasks \ {romfs} : Owed(u)' => Owed(u)
  BY <1>1, <1>2, OwedStays
<1> QED
  BY <1>1, <1>3, CountedStays

LEMMA RomfsCounted ==
  ASSUME BootPrograms, Shape, NEW place, Placed(place), NEW S, Counted(S),
         RomfsReceive \/ RomfsFound \/ RomfsMissed \/ RomfsRegistered \/ RomfsReply
  PROVE  Counted(S)'
<1>1. phase \in [Tasks -> {"idle", "wait", "mknod"}] /\ fifo = [t \in Tasks |-> fifo[t]]
      /\ romfs \in Tasks
  BY Servers DEF Shape
<1>2. paths' = paths /\ done' = done /\ out' = out
  BY DEF RomfsReceive, RomfsFound, Send, RomfsMissed, RomfsRegistered, ReadAnswer, RomfsReply,
         tables, client
<1>3. \A u \in Tasks \ {romfs} : phase'[u] = phase[u]
  BY <1>1 DEF RomfsReceive, RomfsFound, Send, RomfsMissed, RomfsRegistered, RomfsReply, client
<1>4. ASSUME NEW u \in Tasks \ {romfs}, Decided(u) PROVE Decided(u)'
  <2>1. CASE RomfsReceive
    <3>1. opening.cmd = "none" /\ fifo'[u] = fifo[u]
      BY <1>1, <2>1, RequestKinds DEF RomfsReceive
    <3> QED BY <1>2, <1>4, <3>1 DEF Decided
  <2>2. CASE RomfsFound \/ RomfsMissed
    <3>1. opening.cmd = "open" /\ fifo' = fifo
      BY <2>2 DEF RomfsFound, Send, RomfsMissed
    <3> QED BY <1>2, <1>4, <3>1 DEF Decided
  <2>3. CASE RomfsRegistered
    <3>1. /\ opening.cmd = "register" /\ opening' = [opening EXCEPT !.cmd = "reply"]
          /\ fifo' = [fifo EXCEPT ![romfs] = Tail(@)]
      BY <2>3 DEF RomfsRegistered, ReadAnswer
    <3>2. opening' = [cmd |-> "reply", from |-> opening.from, path |-> opening.path,
                      device |-> opening.device]
      BY <3>1, Opened
    <3>3. opening'.cmd = "reply" /\ opening'.from = opening.from
      BY <3>2
    <3>4. fifo'[u] = fifo[u]
      BY <1>1, <3>1
    <3> QED BY <1>2, <1>4, <3>3, <3>4 DEF Decided
  <2>4. CASE RomfsReply
    <3>1. /\ opening.cmd = "reply"
          /\ fifo' = [fifo EXCEPT ![opening.from] = Append(@, Word(status))]
      BY <2>4 DEF RomfsReply
    <3>2. CASE opening.from = u
      <4>1. place[u] = "opened"
        BY <3>1, <3>2, Opened
      <4>2. fifo[u] = <<>>
        BY <4>1 DEF Placed, InOwn, HasAnswer
      <4>3. fifo'[u] = Append(<<>>, Word(status))
        BY <1>1, <3>1, <3>2, <4>2
      <4>4. Append(<<>>, Word(status)) # <<>>
        BY Pieces
      <4> QED BY <4>3, <4>4 DEF Decided
    <3>3. CASE opening.from # u
      <4>1. fifo'[u] = fifo[u]
        BY <1>1, <3>1, <3>3
      <4> QED BY <1>2, <1>4, <3>1, <3>3, <4>1 DEF Decided
    <3> QED BY <3>2, <3>3
  <2> QED BY <2>1, <2>2, <2>3, <2>4
<1>5. \A u \in Tasks \ {romfs} : Owed(u)' => Owed(u)
  BY <1>3, <1>4, OwedStays
<1> QED
  BY <1>2, <1>5, CountedStays

LEMMA CountedStep ==
  ASSUME BootPrograms, RoomForPaths, IInv, Turn, OneAtATime, [Next]_vars, NEW S, Counted(S)
  PROVE  \E T : Counted(T)'
<1>1. PICK place : Placed(place)
  BY DEF IInv
<1>2. Shape
  BY DEF IInv
<1>3. ASSUME NEW t \in Tasks, Ask(t) PROVE Counted(S)'
  BY <1>1, <1>2, <1>3, AskCounted
<1>4. CASE (\E t \in Tasks : Return(t)) \/ RomdevMakes
  <2>1. Counted(S)'
    BY <1>1, <1>2, <1>4, ReadersCounted
  <2> QED BY <2>1
<1>5. CASE Serve
  BY <1>1, <1>2, <1>5, ServeCounted
<1>6. CASE Deliver
  <2>1. Counted(S)'
    BY <1>1, <1>2, <1>6, DeliverCounted
  <2> QED BY <2>1
<1>7. CASE RomfsReceive \/ RomfsFound \/ RomfsMissed \/ RomfsRegistered \/ RomfsReply
  <2>1. Counted(S)'
    BY <1>1, <1>2, <1>7, RomfsCounted
  <2> QED BY <2>1
<1>8. CASE UNCHANGED vars
  <2>1. \A u \in Tasks \ {romfs} : Owed(u)' => Owed(u)
    BY <1>8 DEF vars, Owed, Decided, Pending
  <2>2. Counted(S)'
    BY <1>8, <2>1, CountedStays DEF vars
  <2> QED BY <2>2
<1> QED
  <2>1. CASE \E t \in Tasks : Ask(t)
    <3>1. Counted(S)'
      BY <1>3, <2>1
    <3> QED BY <3>1
  <2> QED BY <1>4, <1>5, <1>6, <1>7, <1>8, <2>1 DEF Next


\* Mount points, romfs_server's answers and its files have descriptors that were given out.
Given(ps) == {PathFd(i) : i \in DOMAIN ps}
Known ==
  /\ mounts \in Seq([fs : {romfs}, dev : Given(paths)])
  /\ status \in Given(paths) \union {-1}
  /\ nodes \in Seq([fd : Given(paths), path : Paths])

LEMMA FilesFit ==
  ASSUME RoomForPaths, Shape, NEW S, Counted(S)
  PROVE  Given(paths) \subseteq Fds
<1>1. S \in SUBSET Naming /\ Len(paths) = Cardinality(S) + 1
  BY DEF Counted
<1>2. IsFiniteSet(S) /\ Cardinality(S) <= Cardinality(Naming)
  BY <1>1, FS_Subset DEF RoomForPaths
<1>3. Cardinality(S) \in Nat /\ Cardinality(Naming) \in Nat
  BY <1>2, FS_CardinalityType DEF RoomForPaths
<1>4. DOMAIN paths = 1 .. Cardinality(S) + 1
  BY <1>1, LenProperties DEF Shape
<1>5. ASSUME NEW i \in 1 .. Cardinality(S) + 1 PROVE PathFd(i) \in 0 .. FILE_LIMIT
  BY <1>2, <1>3, <1>5, PathsAssumption DEF RoomForPaths, PathFd
<1> QED
  BY <1>4, <1>5 DEF Fds, Given

LEMMA GivenFile ==
  ASSUME NEW ps, NEW p
  PROVE  FilesOf(ps, p) \subseteq Given(ps)
BY DEF FilesOf, Given

LEMMA KnownGrows ==
  ASSUME Known, NEW G, Given(paths) \subseteq G
  PROVE  /\ mounts \in Seq([fs : {romfs}, dev : G])
         /\ status \in G \union {-1}
         /\ nodes \in Seq([fd : G, path : Paths])
<1>1. [fs : {romfs}, dev : Given(paths)] \subseteq [fs : {romfs}, dev : G]
  OBVIOUS
<1>2. [fd : Given(paths), path : Paths] \subseteq [fd : G, path : Paths]
  OBVIOUS
<1>3. /\ mounts \in Seq([fs : {romfs}, dev : Given(paths)])
      /\ nodes \in Seq([fd : Given(paths), path : Paths])
      /\ status \in Given(paths) \union {-1}
  BY DEF Known
<1>4. mounts \in Seq([fs : {romfs}, dev : G])
  <2>1. PICK A, B : A = [fs : {romfs}, dev : Given(paths)] /\ B = [fs : {romfs}, dev : G]
    OBVIOUS
  <2>2. A \subseteq B
    BY <1>1, <2>1
  <2>3. Seq(A) \subseteq Seq(B)
    BY <2>2, SeqMonotonic
  <2> QED BY <1>3, <2>1, <2>3
<1>5. nodes \in Seq([fd : G, path : Paths])
  <2>1. PICK A, B : A = [fd : Given(paths), path : Paths] /\ B = [fd : G, path : Paths]
    OBVIOUS
  <2>2. A \subseteq B
    BY <1>2, <2>1
  <2>3. Seq(A) \subseteq Seq(B)
    BY <2>2, SeqMonotonic
  <2> QED BY <1>3, <2>1, <2>3
<1> QED
  BY <1>3, <1>4, <1>5

LEMMA ServeKnown ==
  ASSUME BootPrograms, Shape, NEW place, Placed(place), Known, Serve
  PROVE  Known'
<1>1. PICK t, r : t = Head(requests).replyfd /\ r = Head(requests).ask
  OBVIOUS
<1>2. /\ status' = status /\ nodes' = nodes
      /\ \/ PathMkfile(t, r) \/ PathOpen(t, r) \/ PathRegister(t, r) \/ PathRegisterFs(t, r)
         \/ PathMount(t, r)
  BY <1>1 DEF Serve, server
<1>3. r \in Asks
  BY <1>1, HeadFacts
<1>4. CASE PathMount(t, r)
  <2>1. paths' = paths /\ (mounts' = mounts
          \/ /\ fs # <<>> /\ Registered(r.path)
             /\ mounts' = Append(mounts, [fs |-> fs[1], dev |-> FdOf(r.path)]))
    BY <1>4 DEF PathMount
  <2>2. CASE mounts' = mounts
    BY <1>2, <2>1, <2>2 DEF Known
  <2>3. CASE mounts' # mounts
    <3>1. FdOf(r.path) \in Given(paths)
      BY <2>1, <2>3, FoundFile, GivenFile DEF Shape
    <3>2. fs[1] = romfs
      <4>1. PICK s \in Seq({romfs}) : s = fs
        BY DEF Shape
      <4>2. Len(s) \in Nat /\ Len(s) # 0
        BY <2>1, <2>3, <4>1, EmptySeq, LenProperties
      <4>3. 1 \in 1 .. Len(s)
        BY <4>2
      <4>4. s[1] \in {romfs}
        BY <4>3, ElementOfSeq
      <4> QED BY <4>1, <4>4
    <3>3. PICK x \in [fs : {romfs}, dev : Given(paths)] : x = [fs |-> fs[1], dev |-> FdOf(r.path)]
      BY <3>1, <3>2
    <3>4. mounts' \in Seq([fs : {romfs}, dev : Given(paths)])
      <4>1. PICK Z : Z = [fs : {romfs}, dev : Given(paths)]
        OBVIOUS
      <4>2. mounts \in Seq(Z) /\ x \in Z
        BY <4>1 DEF Known
      <4>3. Append(mounts, x) \in Seq(Z)
        BY <4>2, AppendProperties
      <4> QED BY <2>1, <2>3, <3>3, <4>1, <4>3
    <3> QED BY <1>2, <2>1, <3>4 DEF Known
  <2> QED BY <2>2, <2>3
<1>5. CASE ~ PathMount(t, r)
  <2>1. mounts' = mounts
    BY <1>2, <1>5 DEF PathMkfile, PathOpen, PathRegister, PathRegisterFs, tables
  <2>2. paths' = paths \/ (paths' = Append(paths, r.path) /\ r.cmd \in {"mkfile", "register"})
    <3>1. PathMkfile(t, r) => paths' = paths \/ (paths' = Append(paths, r.path) /\ r.cmd = "mkfile")
      BY DEF PathMkfile
    <3>2. PathRegister(t, r) => paths' = Append(paths, r.path) /\ r.cmd = "register"
      BY DEF PathRegister
    <3>3. PathOpen(t, r) \/ PathRegisterFs(t, r) => paths' = paths
      BY DEF PathOpen, PathRegisterFs, tables
    <3> QED BY <1>2, <1>5, <3>1, <3>2, <3>3
  <2>3. Given(paths) \subseteq Given(paths')
    <3>1. CASE paths' = paths
      BY <3>1
    <3>2. CASE paths' # paths
      <4>1. PICK p \in Paths : p = r.path
        BY <1>3, <2>2, <3>2, RequestKinds DEF Asks
      <4>2. Append(paths, p) \in Seq(Paths) /\ Len(Append(paths, p)) = Len(paths) + 1
            /\ paths \in Seq(Paths)
        BY AppendProperties DEF Shape
      <4>3. DOMAIN paths = 1 .. Len(paths) /\ DOMAIN paths' = 1 .. Len(paths) + 1
            /\ Len(paths) \in Nat
        BY <2>2, <3>2, <4>1, <4>2, LenProperties
      <4>4. \A i \in 1 .. Len(paths) : i \in 1 .. Len(paths) + 1
        BY <4>3
      <4> QED BY <4>3, <4>4 DEF Given
    <3> QED BY <3>1, <3>2
  <2>4. PICK G : G = Given(paths')
    OBVIOUS
  <2>5. /\ mounts \in Seq([fs : {romfs}, dev : G])
        /\ status \in G \union {-1}
        /\ nodes \in Seq([fd : G, path : Paths])
    BY <2>3, <2>4, KnownGrows
  <2> QED BY <1>2, <2>1, <2>4, <2>5 DEF Known
<1> QED
  BY <1>4, <1>5

LEMMA RegisteredKnown ==
  ASSUME BootPrograms, Shape, NEW place, Placed(place), Known, RomfsRegistered
  PROVE  Known'
<1>1. /\ opening.cmd = "register" /\ fifo[romfs] # <<>>
      /\ status' = Answer(romfs)
      /\ nodes' = Append(nodes, [fd |-> Answer(romfs), path |-> opening.path])
      /\ mounts' = mounts /\ paths' = paths
  BY DEF RomfsRegistered, ReadAnswer, tables
<1>2. phase[romfs] = "wait" /\ asked[romfs] = Register(opening.path) /\ opening.path \in Paths
  BY <1>1, Opened
<1>3. PICK v : RightIn(paths, asked[romfs], v) /\ Head(fifo[romfs]) = Word(v)
  BY <1>1, <1>2, Servers, OwnAnswer
<1>4. Answer(romfs) = v
  BY <1>3, WordFacts DEF Answer
<1>5. v \in FilesOf(paths, opening.path)
  BY <1>2, <1>3, RequestKinds DEF RightIn
<1>6. v \in Given(paths)
  BY <1>5, GivenFile
<1>7. PICK x \in [fd : Given(paths), path : Paths] : x = [fd |-> v, path |-> opening.path]
  BY <1>2, <1>6
<1>8. nodes' \in Seq([fd : Given(paths), path : Paths])
  BY <1>1, <1>4, <1>7, AppendProperties DEF Known
<1> QED
  BY <1>1, <1>4, <1>6, <1>8 DEF Known

LEMMA KnownStep == ASSUME BootPrograms, IInv, Known, [Next]_vars PROVE Known'
<1>1. PICK place : Placed(place)
  BY DEF IInv
<1>2. Shape
  BY DEF IInv
<1>3. CASE UNCHANGED <<paths, mounts, status, nodes>>
  BY <1>3 DEF Known
<1>4. CASE Serve
  BY <1>1, <1>2, <1>4, ServeKnown
<1>5. CASE RomfsMissed
  BY <1>5 DEF RomfsMissed, Known, tables
<1>6. CASE RomfsRegistered
  BY <1>1, <1>2, <1>6, RegisteredKnown
<1>7. ASSUME NEW t \in Tasks, Ask(t) \/ Return(t) PROVE UNCHANGED <<paths, mounts, status, nodes>>
  BY <1>7 DEF Ask, Send, Return, ReadAnswer, tables, server
<1>8. CASE RomdevMakes \/ Deliver \/ RomfsReceive \/ RomfsFound \/ RomfsReply \/ UNCHANGED vars
  <2>1. UNCHANGED <<paths, mounts, status, nodes>>
    BY <1>8 DEF RomdevMakes, Deliver, RomfsReceive, RomfsFound, Send, RomfsReply, tables, server, vars
  <2> QED BY <1>3, <2>1
<1> QED
  BY <1>3, <1>4, <1>5, <1>6, <1>7, <1>8 DEF Next


\* No FIFO is filled beyond its room: a word and an open are in romfs_server's own only
\* if there is room for both.
RoomLeft ==
  /\ Held(requests) <= Capacity
  /\ Len(fifo[romfs]) = 3 => 4 + FS_REQUEST <= Capacity
  /\ pool <= Pool

LEMMA SentRoom ==
  ASSUME Shape, NEW t, NEW r, Held(requests) + Bytes(r) <= Capacity,
         requests' = Append(requests, Sent(r, t))
  PROVE  Held(requests') <= Capacity
<1>1. Bytes(r) \in Nat
  BY DEF Bytes
<1>2. PICK x : x = Sent(r, t)
  OBVIOUS
<1>3. x.bytes = Bytes(r)
  BY <1>2 DEF Sent
<1>4. Sized(Posted)
  <2>1. ASSUME NEW q \in Posted PROVE q.bytes \in Nat
    BY DEF Posted, Sent, Bytes
  <2> QED BY <2>1 DEF Sized
<1>5. PICK Z : Z = Posted \union {x}
  OBVIOUS
<1>6. Sized(Z) /\ x \in Z
  BY <1>1, <1>3, <1>4, <1>5 DEF Sized
<1>7. requests \in Seq(Z)
  <2>1. Posted \subseteq Z
    BY <1>5
  <2>2. Seq(Posted) \subseteq Seq(Z)
    BY <2>1, SeqMonotonic
  <2> QED BY <2>2 DEF Shape
<1>8. Held(Append(requests, x)) = Held(requests) + x.bytes
  BY <1>6, <1>7, HeldAppend
<1> QED
  BY <1>2, <1>3, <1>8

LEMMA ServedRoom ==
  ASSUME Shape, Held(requests) <= Capacity, Serve
  PROVE  Held(requests') <= Capacity
<1>1. Sized(Posted)
  <2>1. ASSUME NEW q \in Posted PROVE q.bytes \in Nat
    BY DEF Posted, Sent, Bytes
  <2> QED BY <2>1 DEF Sized
<1>2. requests # <<>> /\ requests' = Tail(requests) /\ requests \in Seq(Posted)
  BY DEF Serve, Shape
<1>3. Tail(requests) \in Seq(Posted)
  BY <1>2, HeadTailProperties
<1>4. Held(Tail(requests)) <= Held(requests)
  BY <1>1, <1>2, HeldTail
<1>5. Held(Tail(requests)) \in Nat /\ Held(requests) \in Nat
  BY <1>1, <1>2, <1>3, HeldNat
<1> QED
  BY <1>2, <1>4, <1>5, PathsAssumption

\* The forms that what is in romfs_server's own FIFO may have
Piecewise(s) ==
  \/ s = <<>> /\ Len(s) = 0 /\ Held(s) = 0
  \/ (\E v : s = <<Word(v)>>) /\ Len(s) = 1 /\ Held(s) = 4
  \/ (\E u, p, dev : s = Forwarded(u, p, dev)) /\ Len(s) = 2 /\ Held(s) = FS_REQUEST
  \/ Len(s) = 3 /\ Held(s) = 4 + FS_REQUEST

LEMMA RomfsForm ==
  ASSUME BootPrograms, NEW place, Placed(place)
  PROVE  Piecewise(fifo[romfs])
<1>1. PICK answer, message :
        /\ fifo[romfs] = answer \o message
        /\ AnswerPart(place, answer) /\ MessagePart(place, message)
  BY DEF Placed, InRomfs
<1>2. CASE message = <<>>
  <2>1. fifo[romfs] = <<>> \/ \E v : fifo[romfs] = <<Word(v)>>
    BY <1>1, <1>2, Pieces, ConcatEmptySeq DEF AnswerPart
  <2>2. CASE fifo[romfs] = <<>>
    BY <2>2, HeldNone DEF Piecewise
  <2>3. ASSUME NEW v, fifo[romfs] = <<Word(v)>> PROVE Piecewise(fifo[romfs])
    <3>1. PICK s : s = <<Word(v)>>
      OBVIOUS
    <3>2. Len(s) = 1
      BY <3>1
    <3>3. Held(s) = 4
      BY <3>1, HeldPieces
    <3> QED BY <2>3, <3>1, <3>2, <3>3 DEF Piecewise
  <2> QED BY <2>1, <2>2, <2>3
<1>3. CASE message # <<>>
  <2>1. PICK u, p, dev : message = Forwarded(u, p, dev)
    BY <1>1, <1>3 DEF MessagePart
  <2>2. CASE answer = <<>>
    <3>1. PICK e, h : e = message /\ h = <<Word(0)>> \o e
      OBVIOUS
    <3>2. Len(e) = 2 /\ <<>> \o e = e
      BY <2>1, <3>1, ForwardFacts
    <3>3. fifo[romfs] = e
      BY <1>1, <2>2, <3>1, <3>2
    <3>4. Held(e) = FS_REQUEST
      BY <2>1, <3>1, HeldPieces
    <3> QED BY <2>1, <3>1, <3>2, <3>3, <3>4 DEF Piecewise
  <2>3. CASE answer # <<>>
    <3>1. PICK x : answer = <<Word(x)>>
      BY <1>1, <2>3 DEF AnswerPart
    <3>2. PICK e, h : e = message /\ h = <<Word(x)>> \o e
      OBVIOUS
    <3>3. Len(h) = 3
      BY <2>1, <3>2, ForwardFacts
    <3>4. fifo[romfs] = h
      BY <1>1, <3>1, <3>2
    <3>5. Held(h) = 4 + FS_REQUEST
      BY <2>1, <3>2, HeldBoth
    <3> QED BY <3>3, <3>4, <3>5 DEF Piecewise
  <2> QED BY <2>2, <2>3
<1> QED
  BY <1>2, <1>3

LEMMA DeliverRoom ==
  ASSUME BootPrograms, Shape, NEW place, Placed(place), Deliver, Len(fifo'[romfs]) = 3,
         fifo'[romfs] # fifo[romfs]
  PROVE  4 + FS_REQUEST <= Capacity
<1>1. /\ fifo' = [fifo EXCEPT ![out.to] = @ \o out.words]
      /\ Held(fifo[out.to]) + Held(out.words) <= Capacity /\ out # NoWrite
  BY DEF Deliver, Fits
<1>2. out.to = romfs
  BY <1>1, Servers DEF Shape
<1>3. PICK s, w : s = fifo[romfs] /\ w = out.words
  OBVIOUS
<1>4. fifo'[romfs] = s \o w /\ Held(s) + Held(w) <= Capacity
  BY <1>1, <1>2, <1>3, Servers DEF Shape
<1>5. (Len(w) = 1 /\ Held(w) = 4) \/ (Len(w) = 2 /\ Held(w) = FS_REQUEST)
  <2>1. PICK t \in Tasks : place[t] \in {"answering", "sent"}
    BY <1>1 DEF Placed, InWrite
  <2>2. (\E v : w = <<Word(v)>>) \/ \E u, p, dev : w = Forwarded(u, p, dev)
    BY <1>3, <2>1 DEF Placed, InWrite, Answering
  <2>3. ASSUME NEW v, w = <<Word(v)>> PROVE Len(w) = 1 /\ Held(w) = 4
    <3>1. Len(w) = 1
      BY <2>3
    <3> QED BY <2>3, <3>1, HeldPieces
  <2>4. ASSUME NEW u, NEW p, NEW dev, w = Forwarded(u, p, dev) PROVE Len(w) = 2 /\ Held(w) = FS_REQUEST
    <3>1. Len(w) = 2
      BY <2>4 DEF Forwarded
    <3> QED BY <2>4, <3>1, HeldPieces
  <2> QED BY <2>2, <2>3, <2>4
<1>6. Len(s \o w) = Len(s) + Len(w)
  <2>1. PICK t \in Tasks : place[t] \in {"answering", "sent"}
    BY <1>1 DEF Placed, InWrite
  <2>2. \E X : w \in Seq(X)
    <3>1. (\E a : w = <<a>>) \/ \E a, b : w = <<a, b>>
      BY <1>3, <2>1 DEF Placed, InWrite, Answering, Forwarded
    <3>2. ASSUME NEW a, w = <<a>> PROVE w \in Seq({a})
      BY <3>2
    <3>3. ASSUME NEW a, NEW b, w = <<a, b>> PROVE w \in Seq({a, b})
      BY <3>3
    <3> QED BY <3>1, <3>2, <3>3
  <2>3. \E Y : s \in Seq(Y)
    <3>1. PICK answer, message :
            /\ s = answer \o message
            /\ AnswerPart(place, answer) /\ MessagePart(place, message)
      BY <1>3 DEF Placed, InRomfs
    <3>2. \E A : answer \in Seq(A)
      <4>1. answer = <<>> \/ \E a : answer = <<a>>
        BY <3>1 DEF AnswerPart
      <4>2. ASSUME NEW a, answer = <<a>> PROVE answer \in Seq({a})
        BY <4>2
      <4>3. CASE answer = <<>>
        <5>1. answer \in Seq({})
          BY <4>3
        <5> QED BY <5>1
      <4> QED BY <4>1, <4>2, <4>3
    <3>3. \E B : message \in Seq(B)
      <4>1. message = <<>> \/ \E a, b : message = <<a, b>>
        BY <3>1 DEF MessagePart, Forwarded
      <4>2. ASSUME NEW a, NEW b, message = <<a, b>> PROVE message \in Seq({a, b})
        BY <4>2
      <4>3. CASE message = <<>>
        <5>1. message \in Seq({})
          BY <4>3
        <5> QED BY <5>1
      <4> QED BY <4>1, <4>2, <4>3
    <3>4. PICK A, B : answer \in Seq(A) /\ message \in Seq(B)
      BY <3>2, <3>3
    <3>5. PICK Y : Y = A \union B
      OBVIOUS
    <3>6. answer \in Seq(Y) /\ message \in Seq(Y)
      <4>1. A \subseteq Y /\ B \subseteq Y
        BY <3>5
      <4>2. Seq(A) \subseteq Seq(Y) /\ Seq(B) \subseteq Seq(Y)
        BY <4>1, SeqMonotonic
      <4> QED BY <3>4, <4>2
    <3>7. answer \o message \in Seq(Y)
      BY <3>6, ConcatProperties
    <3> QED BY <3>1, <3>7
  <2>4. PICK X, Y : w \in Seq(X) /\ s \in Seq(Y)
    BY <2>2, <2>3
  <2>5. PICK Z : Z = X \union Y
    OBVIOUS
  <2>6. w \in Seq(Z) /\ s \in Seq(Z)
    <3>1. X \subseteq Z /\ Y \subseteq Z
      BY <2>5
    <3>2. Seq(X) \subseteq Seq(Z) /\ Seq(Y) \subseteq Seq(Z)
      BY <3>1, SeqMonotonic
    <3> QED BY <2>4, <3>2
  <2> QED BY <2>6, ConcatProperties
<1>7. Piecewise(s)
  BY <1>3, RomfsForm
<1>8. Len(s) + Len(w) = 3
  BY <1>4, <1>6
<1>9. \/ Len(s) = 0 \/ Len(s) = 3
      \/ Len(s) = 1 /\ Held(s) = 4
      \/ Len(s) = 2 /\ Held(s) = FS_REQUEST
  BY <1>7 DEF Piecewise
<1>10. PICK i, j, h, k : i = Len(s) /\ j = Len(w) /\ h = Held(s) /\ k = Held(w)
  OBVIOUS
<1>11. /\ i + j = 3 /\ h + k <= Capacity
       /\ (j = 1 /\ k = 4) \/ (j = 2 /\ k = 56)
       /\ i = 0 \/ i = 3 \/ (i = 1 /\ h = 4) \/ (i = 2 /\ h = 56)
  BY <1>4, <1>5, <1>8, <1>9, <1>10 DEF FS_REQUEST
<1>12. (i = 2 /\ h = 56 /\ j = 1 /\ k = 4) \/ (i = 1 /\ h = 4 /\ j = 2 /\ k = 56)
  BY <1>11
<1> QED
  BY <1>11, <1>12 DEF FS_REQUEST


LEMMA RoomStep ==
  ASSUME BootPrograms, IInv, RoomLeft, [Next]_vars
  PROVE  RoomLeft'
<1>1. PICK place : Placed(place)
  BY DEF IInv
<1>2. Shape
  BY DEF IInv
<1>3. Held(requests') <= Capacity
  <2>1. CASE requests' = requests
    BY <2>1 DEF RoomLeft
  <2>2. ASSUME NEW t, NEW r, Send(t, r) PROVE Held(requests') <= Capacity
    <3>1. Held(requests) + Bytes(r) <= Capacity /\ requests' = Append(requests, Sent(r, t))
      BY <2>2 DEF Send
    <3> QED BY <1>2, <3>1, SentRoom
  <2>3. CASE Serve
    BY <1>2, <2>3, ServedRoom DEF RoomLeft
  <2>4. ASSUME NEW t \in Tasks, Ask(t) PROVE \E r : Send(t, r)
    BY <2>4 DEF Ask
  <2>5. RomfsFound => \E r : Send(romfs, r)
    BY DEF RomfsFound
  <2>6. ASSUME NEW t \in Tasks, Return(t) PROVE requests' = requests
    BY <2>6 DEF Return, ReadAnswer
  <2>7. CASE \/ RomdevMakes \/ Deliver \/ RomfsReceive \/ RomfsMissed \/ RomfsRegistered
             \/ RomfsReply \/ UNCHANGED vars
    <3>1. requests' = requests
      BY <2>7 DEF RomdevMakes, Deliver, RomfsReceive, RomfsMissed, RomfsRegistered, ReadAnswer,
                  RomfsReply, vars
    <3> QED BY <2>1, <3>1
  <2> QED BY <2>1, <2>2, <2>3, <2>4, <2>5, <2>6, <2>7 DEF Next
<1>4. ASSUME fifo'[romfs] # fifo[romfs], Len(fifo'[romfs]) = 3
      PROVE  4 + FS_REQUEST <= Capacity
  <2>1. fifo = [t \in Tasks |-> fifo[t]] /\ romfs \in Tasks
    BY <1>2, Servers DEF Shape
  <2>2. CASE Deliver
    BY <1>1, <1>2, <1>4, <2>2, DeliverRoom
  <2>3. ASSUME NEW t \in Tasks, ReadAnswer(t) PROVE FALSE
    <3>1. /\ phase[t] = "wait" /\ fifo[t] # <<>>
          /\ fifo' = [fifo EXCEPT ![t] = Tail(@)]
      BY <2>3 DEF ReadAnswer
    <3>2. t = romfs /\ fifo'[romfs] = Tail(fifo[romfs])
      BY <1>4, <2>1, <3>1
    <3>3. PICK m : m = Tail(fifo[romfs]) /\ MessagePart(place, m)
      BY <1>1, <3>1, <3>2, OwnAnswer
    <3>4. m = <<>> \/ \E u, p, dev : m = Forwarded(u, p, dev)
      BY <3>3 DEF MessagePart
    <3>5. Len(m) # 3
      <4>1. CASE m = <<>>
        BY <4>1
      <4>2. ASSUME NEW u, NEW p, NEW dev, m = Forwarded(u, p, dev) PROVE Len(m) = 2
        BY <4>2 DEF Forwarded
      <4> QED BY <3>4, <4>1, <4>2
    <3> QED BY <1>4, <3>2, <3>3, <3>5
  <2>4. CASE RomfsReceive
    <3>1. /\ phase[romfs] = "idle"
          /\ fifo'[romfs] = SubSeq(fifo[romfs], 3, Len(fifo[romfs]))
      BY <2>1, <2>4 DEF RomfsReceive, Serving
    <3>2. PICK answer, m :
            /\ fifo[romfs] = answer \o m
            /\ AnswerPart(place, answer) /\ MessagePart(place, m)
      BY <1>1 DEF Placed, InRomfs
    <3>3. answer = <<>>
      BY <1>1, <2>1, <3>1, <3>2 DEF Placed, AnswerPart, HasAnswer
    <3>4. m = <<>> \/ \E u, p, dev : m = Forwarded(u, p, dev)
      BY <3>2 DEF MessagePart
    <3>5. fifo[romfs] = m
      BY <3>2, <3>3, <3>4, ForwardFacts, ConcatEmptySeq
    <3>6. SubSeq(m, 3, Len(m)) = <<>>
      <4>1. CASE m = <<>>
        BY <4>1
      <4>2. ASSUME NEW u, NEW p, NEW dev, m = Forwarded(u, p, dev) PROVE SubSeq(m, 3, Len(m)) = <<>>
        BY <4>2, Pieces DEF Forwarded
      <4> QED BY <3>4, <4>1, <4>2
    <3>7. fifo'[romfs] = <<>>
      BY <3>1, <3>5, <3>6, Zenon
    <3>8. Len(fifo'[romfs]) = 0
      BY <3>7
    <3> QED BY <1>4, <3>8
  <2>5. CASE RomfsReply
    <3>1. opening.from \in Tasks /\ opening.from # romfs
      BY <1>1, <2>5, Opened DEF RomfsReply
    <3>2. fifo'[romfs] = fifo[romfs]
      BY <2>1, <2>5, <3>1 DEF RomfsReply
    <3> QED BY <1>4, <3>2
  <2>6. ASSUME NEW t \in Tasks, Ask(t) PROVE fifo' = fifo
    BY <2>6 DEF Ask, Send
  <2>7. ASSUME NEW t \in Tasks, Return(t) PROVE ReadAnswer(t)
    BY <2>7 DEF Return
  <2>8. RomfsRegistered => ReadAnswer(romfs)
    BY DEF RomfsRegistered
  <2>9. RomdevMakes \/ Serve \/ RomfsFound \/ RomfsMissed \/ UNCHANGED vars => fifo' = fifo
    BY DEF RomdevMakes, Serve, RomfsFound, Send, RomfsMissed, vars
  <2> QED BY <1>4, <2>1, <2>2, <2>3, <2>4, <2>5, <2>6, <2>7, <2>8, <2>9 DEF Next
<1>5. pool' <= Pool
  <2>1. pool \in Nat /\ pool <= Pool /\ Pool \in Nat
    BY <1>2, PathsAssumption DEF Shape, RoomLeft
  <2>2. pool' = pool \/ pool' = pool - 1
    <3>1. \A fd : mknod(fd) => pool' = pool \/ pool' = pool - 1
      BY DEF mknod
    <3>2. Serve => pool' = pool \/ pool' = pool - 1
      BY <3>1 DEF Serve, PathMkfile, PathOpen, PathRegister, PathRegisterFs, PathMount
    <3>3. RomdevMakes \/ RomfsRegistered => pool' = pool \/ pool' = pool - 1
      BY <3>1 DEF RomdevMakes, RomfsRegistered
    <3>4. ASSUME NEW t \in Tasks, Ask(t) \/ Return(t) PROVE pool' = pool
      BY <3>4 DEF Ask, Send, Return
    <3>5. Deliver \/ RomfsReceive \/ RomfsFound \/ RomfsMissed \/ RomfsReply \/ UNCHANGED vars => pool' = pool
      BY DEF Deliver, RomfsReceive, RomfsFound, Send, RomfsMissed, RomfsReply, vars
    <3> QED BY <3>2, <3>3, <3>4, <3>5 DEF Next
  <2> QED BY <2>1, <2>2
<1>6. Len(fifo'[romfs]) = 3 => 4 + FS_REQUEST <= Capacity
  <2>1. CASE fifo'[romfs] = fifo[romfs]
    BY <2>1 DEF RoomLeft
  <2> QED BY <1>4, <2>1
<1> QED
  BY <1>3, <1>5, <1>6 DEF RoomLeft

\* The strengthening of TypeOK
Tables == RoomLeft /\ Known /\ Turn /\ \E S : Counted(S)

LEMMA InitTables == ASSUME BootPrograms, RoomForPaths, Init PROVE Tables
<1>1. requests = <<>> /\ fifo[romfs] = <<>> /\ pool = Pool
  BY Servers DEF Init
<1>2. RoomLeft
  <2>1. Held(requests) = 0
    BY <1>1, HeldNone
  <2>2. Len(fifo[romfs]) = 0
    BY <1>1
  <2>3. 0 <= Capacity /\ Pool <= Pool
    BY PathsAssumption
  <2> QED BY <1>1, <2>1, <2>2, <2>3 DEF RoomLeft
<1>3. mounts = <<>> /\ nodes = <<>> /\ status = -1 /\ paths = <<server_path>>
  BY DEF Init
<1>4. Known
  BY <1>3 DEF Known
<1>5. \A t \in Tasks : phase[t] = "idle" /\ done[t] = 0
  BY DEF Init
<1>6. Turn
  BY <1>5 DEF Turn
<1>7. Counted({})
  <2>1. Cardinality({}) = 0
    BY FS_EmptySet
  <2>2. Len(paths) = 1
    BY <1>3
  <2>3. \A t \in Tasks : ~ Owed(t)
    BY <1>5 DEF Owed
  <2>4. Len(paths) = Cardinality({}) + 1
    BY <2>1, <2>2
  <2> QED BY <2>3, <2>4 DEF Counted
<1> QED
  BY <1>2, <1>4, <1>6, <1>7 DEF Tables

LEMMA TablesStep ==
  ASSUME BootPrograms, RoomForPaths, IInv, Tables, OneAtATime, [Next]_vars
  PROVE  Tables'
<1>1. PICK S : Counted(S)
  BY DEF Tables
<1>2. \E T : Counted(T)'
  BY <1>1, CountedStep DEF Tables
<1>3. RoomLeft'
  BY RoomStep DEF Tables
<1>4. Known'
  BY KnownStep DEF Tables
<1>5. Turn'
  BY TurnStep DEF Tables
<1> QED
  BY <1>2, <1>3, <1>4, <1>5 DEF Tables

LEMMA TablesTypes ==
  ASSUME BootPrograms, RoomForPaths, IInv, Tables
  PROVE  TypeOK
<1>1. PICK place : Placed(place)
  BY DEF IInv
<1>2. Shape /\ RoomLeft /\ Known
  BY DEF IInv, Tables
<1>3. Given(paths) \subseteq Fds
  BY <1>2, FilesFit DEF Tables
<1>4. fs \in Seq(Tasks)
  <2>1. {romfs} \subseteq Tasks
    BY Servers
  <2>2. Seq({romfs}) \subseteq Seq(Tasks)
    BY <2>1, SeqMonotonic
  <2> QED BY <1>2, <2>2 DEF Shape
<1>5. /\ mounts \in Seq([fs : {romfs}, dev : Fds])
      /\ status \in Fds \union {-1}
      /\ nodes \in Seq([fd : Fds, path : Paths])
  BY <1>2, <1>3, KnownGrows
<1>6. mounts \in Seq([fs : Tasks, dev : Fds])
  <2>1. PICK A, B : A = [fs : {romfs}, dev : Fds] /\ B = [fs : Tasks, dev : Fds]
    OBVIOUS
  <2>2. A \subseteq B
    BY <2>1, Servers
  <2>3. Seq(A) \subseteq Seq(B)
    BY <2>2, SeqMonotonic
  <2> QED BY <1>5, <2>1, <2>3
<1>7. ASSUME NEW t \in Tasks PROVE Held(fifo[t]) <= Capacity
  <2>1. FS_REQUEST <= Capacity /\ Capacity \in Nat
    BY PathsAssumption
  <2>2. CASE t = romfs
    <3>1. Piecewise(fifo[romfs])
      BY <1>1, RomfsForm
    <3>2. Len(fifo[romfs]) = 3 => 4 + FS_REQUEST <= Capacity
      BY <1>2 DEF RoomLeft
    <3> QED BY <2>1, <2>2, <3>1, <3>2 DEF Piecewise, FS_REQUEST
  <2>3. CASE t # romfs
    <3>1. fifo[t] = <<>> \/ \E v : fifo[t] = <<Word(v)>>
      BY <1>1, <2>3 DEF Placed, InOwn
    <3>2. Held(fifo[t]) = 0 \/ Held(fifo[t]) = 4
      BY <3>1, HeldNone, HeldPieces
    <3> QED BY <2>1, <3>2 DEF FS_REQUEST
  <2> QED BY <2>2, <2>3
<1>8. opening.cmd \in {"none", "open", "register", "reply"}
  BY <1>1, RequestKinds DEF Placed, InOpen
<1>9. pool \in 0 .. Pool
  BY <1>2, PathsAssumption DEF Shape, RoomLeft
<1> QED
  BY <1>2, <1>4, <1>5, <1>6, <1>7, <1>8, <1>9 DEF TypeOK, Shape, RoomLeft

\* Every FIFO holds what fits it, and every descriptor that the path server and
\* romfs_server keep is one of the table of files (path.c, romfs.c), if there is room in the
\* table for the paths that the programs name and romfs_server is sent one open at a time.
\* This is TypeOK.
THEOREM TablesHold ==
  ASSUME BootPrograms, RoomForPaths
  PROVE  Spec /\ []OneAtATime => []TypeOK
<1>1. Init => IInv /\ Tables
  BY InitIInv, InitTables
<1>2. IInv /\ Tables => TypeOK
  BY TablesTypes
<1>3. IInv /\ Tables /\ OneAtATime /\ [Next]_vars /\ OneAtATime' => IInv' /\ Tables'
  BY StepIInv, TablesStep
<1> QED
  BY <1>1, <1>2, <1>3, PTL DEF Spec

\* The same with nothing assumed of the run: one task at most opens paths under the mount
\* point (path.c, romfs.c).
THEOREM TablesHoldOneOpener ==
  ASSUME BootPrograms, RoomForPaths, OneOpener
  PROVE  Spec => []TypeOK
<1>1. Spec => [](OneAtATime /\ RightAnswers /\ MadeOnce)
  BY OneOpenerIsRight
<1>2. Spec /\ []OneAtATime => []TypeOK
  BY TablesHold
<1> QED
  BY <1>1, <1>2, PTL
=============================================================================
