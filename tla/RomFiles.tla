------------------------------- MODULE RomFiles -------------------------------
(***************************************************************************)
(* Files behind drivers: regular files (src/regfile.c), whose driver is    *)
(* the rom file system (romfs_server), which itself reads the block device *)
(* /dev/rom0 (src/block.c), whose driver is romdev_driver.                 *)
(*                                                                         *)
(* A call on such a file sends a request through the driver's FIFO and     *)
(* blocks on the file's event.  The driver's answer is a write or lseek of *)
(* its own on the same file: it fills the file's buffer, clears buzy and   *)
(* releases the event, and the kernel then retries the call of every task  *)
(* on the event's list.  block.c and regfile.c are one protocol: the       *)
(* operators below stand for both.                                         *)
(*                                                                         *)
(* A system call is one step; the retries that follow an answer are steps  *)
(* of their own, with no thread in between (serving).  How the event       *)
(* monitor and the drivers' FIFOs work is in Kernel: here a driver can     *)
(* receive when its FIFO is not empty.                                     *)
(***************************************************************************)
EXTENDS Integers, Sequences, FiniteSets, SequencesExt

CONSTANTS
  Users,           \* the tasks of programs
  romfs, romdev,   \* the two drivers
  rom0,            \* the block device
  Reg,             \* the regular files, opened before
  Start, Length,   \* files[].start and .len of romfs; the device's 0 and size
  Room,            \* how many requests fit in the FIFO of each driver
  BUF,             \* BLOCK_BUF, REGFILE_BUF
  Programs,        \* the calls each user makes
  Urgent,          \* the users with the drivers' priority; the others run when
                   \* both drivers wait
  Nobody, NoFile

Files == Reg \union {rom0}
Drivers == {romfs, romdev}
Clients == Users \union {romfs}

\* driver_pid
driver(f) == IF f = rom0 THEN romdev ELSE romfs

SEEK_SET == 1
SEEK_CUR == 2
SEEK_END == 3

Call(op, fd, size, whence) == [op |-> op, fd |-> fd, size |-> size, whence |-> whence]
NoCall == [op |-> "none"]
NoRequest == [cmd |-> "none"]
NoBytes == -1
Result(value, from) == [value |-> value, from |-> from]

ASSUME FilesAssumption ==
  /\ rom0 \notin Reg /\ romfs # romdev /\ Users \intersect Drivers = {}
  /\ Nobody \notin Clients /\ NoFile \notin Files
  /\ Start \in [Files -> Nat] /\ Length \in [Files -> Nat] /\ Start[rom0] = 0
  /\ \A f \in Reg : Start[f] + Length[f] <= Length[rom0]
  /\ Room \in [Drivers -> Nat \ {0}] /\ BUF \in Nat
  /\ Urgent \subseteq Users
  /\ Programs \in [Users -> SUBSET [op : {"read", "write", "seek"}, fd : Files,
                                    size : Int, whence : Nat]]
  /\ \A t \in Users : \A c \in Programs[t] : c.op # "seek" => c.size >= 0

VARIABLES
  file,      \* request_pid, buzy, pos, buf (the device address of its first
             \* byte) and transfer_len of each file
  waiting,   \* the tasks on each file's event, in the list's order
  fifo,      \* the requests in each driver's FIFO
  call,      \* the call each client is blocked in
  ret,       \* what its last call returned
  hand,      \* the request each driver is serving
  step,      \* where romfs_server is in serving it
  target,    \* romfs_server's variable of that name
  serving,   \* the file whose event is being served, or NoFile
  at         \* position of the next task to look at on its list

vars == <<file, waiting, fifo, call, ret, hand, step, target, serving, at>>
driverVars == <<hand, step, target>>

Init ==
  /\ file = [f \in Files |-> [request_pid |-> Nobody, buzy |-> FALSE, pos |-> 0,
                              buf |-> NoBytes, transfer_len |-> 0]]
  /\ waiting = [f \in Files |-> <<>>]
  /\ fifo = [d \in Drivers |-> <<>>]
  /\ call = [t \in Clients |-> NoCall]
  /\ ret = [t \in Clients |-> Result(-1, NoBytes)]
  /\ hand = [d \in Drivers |-> NoRequest]
  /\ step = "recv"
  /\ target \in Reg \union {NoFile}   \* it has no initial value
  /\ serving = NoFile /\ at = 1
-----------------------------------------------------------------------------
(* The client's side: *_readable, *_writable, *_lseekable and the calls that *)
(* follow them when they accept                                              *)

Free(f) == file[f].request_pid = Nobody
Answered(t, f) == file[f].request_pid = t /\ ~file[f].buzy
BadWhence(c) == c.op = "seek" /\ c.whence \notin {SEEK_SET, SEEK_CUR, SEEK_END}
HasRoom(f) == Len(fifo[driver(f)]) < Room[driver(f)]

Clipped(size) == IF size > BUF THEN BUF ELSE size

Request(t, c) ==
  [cmd |-> c.op, from |-> t, target |-> c.fd,
   size |-> IF c.op = "seek" THEN c.size ELSE Clipped(c.size),
   pos |-> CASE c.op = "seek" /\ c.whence = SEEK_SET -> 0
             [] c.op = "seek" /\ c.whence = SEEK_END -> -1
             [] OTHER -> file[c.fd].pos]

\* mutant: a request in progress does not hold the next one back
Submit_again(t, c) ==
  /\ ~Answered(t, c.fd) /\ ~BadWhence(c) /\ HasRoom(c.fd)
  /\ fifo' = [fifo EXCEPT ![driver(c.fd)] = Append(@, Request(t, c))]
  /\ file' = [file EXCEPT ![c.fd] = [@ EXCEPT !.request_pid = t, !.buzy = TRUE]]

\* No request is in progress: the task's request is sent to the driver.
Submit(t, c) ==
  /\ Free(c.fd) /\ ~BadWhence(c) /\ HasRoom(c.fd)
  /\ fifo' = [fifo EXCEPT ![driver(c.fd)] = Append(@, Request(t, c))]
  /\ file' = [file EXCEPT ![c.fd] =
       [@ EXCEPT !.request_pid = t, !.buzy = TRUE,
                 !.buf = IF c.op = "write" THEN NoBytes ELSE file[c.fd].buf]]

\* Another request is in progress, or the driver's FIFO has no room: the call
\* has to wait.
Held(t, c) ==
  /\ \/ Free(c.fd) /\ ~BadWhence(c) /\ ~HasRoom(c.fd)
     \/ ~Free(c.fd) /\ ~Answered(t, c.fd)
  /\ UNCHANGED <<file, fifo>>

\* mutant: a failed seek moves the position too
NewPos_failed(c) ==
  file[c.fd].transfer_len + (IF c.op = "seek" THEN 0 ELSE file[c.fd].pos)

\* The position after a call whose answer has transfer_len
NewPos(c) ==
  LET F == file[c.fd]
  IN IF c.op = "seek" THEN (IF F.transfer_len >= 0 THEN F.transfer_len ELSE F.pos)
     ELSE IF F.transfer_len > 0 THEN F.pos + F.transfer_len ELSE F.pos

\* The task's request has been answered: the call ends.
Complete(t, c) ==
  LET F == file[c.fd]
  IN /\ Answered(t, c.fd)
     /\ file' = [file EXCEPT ![c.fd] = [@ EXCEPT !.request_pid = Nobody, !.pos = NewPos(c)]]
     /\ ret' = [ret EXCEPT ![t] =
          Result(F.transfer_len,
                 IF c.op = "read" /\ F.transfer_len > 0 THEN F.buf ELSE NoBytes)]
     /\ UNCHANGED fifo

\* FILE_ACCESS_ERROR of lseek
Refuse(t, c) ==
  /\ Free(c.fd) /\ BadWhence(c)
  /\ ret' = [ret EXCEPT ![t] = Result(-1, NoBytes)]
  /\ UNCHANGED <<file, fifo>>

\* The system call of client t
Syscall(t, c) ==
  /\ serving = NoFile /\ call[t] = NoCall
  /\ \/ /\ Submit(t, c) \/ Held(t, c)
        /\ call' = [call EXCEPT ![t] = c]
        /\ waiting' = [waiting EXCEPT ![c.fd] = Append(@, t)]
        /\ UNCHANGED ret
     \/ /\ Complete(t, c) \/ Refuse(t, c)
        /\ UNCHANGED <<call, waiting>>
  /\ UNCHANGED <<serving, at>>

DriverRuns(d) ==
  /\ d = romfs => call[romfs] = NoCall
  /\ hand[d] # NoRequest \/ fifo[d] # <<>>

UserCall(t, c) ==
  /\ t \in Urgent \/ \A d \in Drivers : ~DriverRuns(d)
  /\ Syscall(t, c)
  /\ UNCHANGED driverVars
-----------------------------------------------------------------------------
(* The event's handler retries the call of each task on the list.            *)

Waiter == waiting[serving][at]
Visit == serving # NoFile /\ at <= Len(waiting[serving])

\* mutant: the loop does not go past a task that has to wait on
RetryBlocks_stays ==
  /\ Visit
  /\ Submit(Waiter, call[Waiter]) \/ Held(Waiter, call[Waiter])
  /\ UNCHANGED <<waiting, call, ret, serving, at, driverVars>>

RetryBlocks ==
  /\ Visit
  /\ Submit(Waiter, call[Waiter]) \/ Held(Waiter, call[Waiter])
  /\ at' = at + 1
  /\ UNCHANGED <<waiting, call, ret, serving, driverVars>>

RetryEnds ==
  /\ Visit
  /\ Complete(Waiter, call[Waiter]) \/ Refuse(Waiter, call[Waiter])
  /\ call' = [call EXCEPT ![Waiter] = NoCall]
  /\ waiting' = [waiting EXCEPT ![serving] = RemoveAt(@, at)]
  /\ UNCHANGED <<serving, at, driverVars>>

\* mutant: the tasks behind the one served are not retried
EndServe_first ==
  /\ serving # NoFile
  /\ serving' = NoFile /\ at' = 1
  /\ UNCHANGED <<file, waiting, fifo, call, ret, driverVars>>

EndServe ==
  /\ serving # NoFile /\ at > Len(waiting[serving])
  /\ serving' = NoFile /\ at' = 1
  /\ UNCHANGED <<file, waiting, fifo, call, ret, driverVars>>
-----------------------------------------------------------------------------
(* The driver's side *)

\* The driver's read of its FIFO
Receive(d) ==
  /\ serving = NoFile
  /\ hand[d] = NoRequest /\ fifo[d] # <<>>
  /\ hand' = [hand EXCEPT ![d] = Head(fifo[d])]
  /\ fifo' = [fifo EXCEPT ![d] = Tail(@)]
  /\ UNCHANGED <<file, waiting, call, ret, serving, at>>

\* The driver's write or lseek of the file: len, and len bytes from `from` on.
\* If the file is not buzy, the call fails and changes nothing.
Respond(f, len, from) ==
  /\ serving = NoFile
  /\ IF f \in {g \in Files : file[g].buzy}
     THEN /\ file' = [file EXCEPT ![f] =
               [@ EXCEPT !.transfer_len = len, !.buzy = FALSE,
                         !.buf = IF len > 0 THEN from ELSE file[f].buf]]
          /\ serving' = f /\ at' = 1
     ELSE UNCHANGED <<file, serving, at>>
  /\ UNCHANGED <<waiting, fifo, call, ret>>

SeekTo(r, len) == IF r.pos < 0 THEN len + r.size ELSE r.pos + r.size

\* mutant: the end of the file is not looked at
ReadEnd_beyond(f, r) == r.pos + r.size

\* Where the bytes asked for begin and end in file f, neither beyond its end
ReadStart(f, r) == IF r.pos > Length[f] THEN Length[f] ELSE r.pos
ReadEnd(f, r) ==
  IF ReadStart(f, r) + r.size > Length[f] THEN Length[f] ELSE ReadStart(f, r) + r.size

RomdevReceive == Receive(romdev) /\ UNCHANGED <<step, target>>

RomdevAnswer ==
  LET r == hand[romdev]
  IN /\ r # NoRequest
     /\ \/ /\ r.cmd = "read"
           /\ Respond(rom0, ReadEnd(rom0, r) - ReadStart(rom0, r), ReadStart(rom0, r))
        \/ r.cmd = "seek" /\ Respond(rom0, SeekTo(r, Length[rom0]), NoBytes)
        \/ r.cmd = "write" /\ Respond(rom0, -1, NoBytes)
     /\ hand' = [hand EXCEPT ![romdev] = NoRequest]
     /\ UNCHANGED <<step, target>>

\* romfs_server: FS_CMD_WRITE does not set target.
RomfsReceive ==
  /\ Receive(romfs)
  /\ step = "recv"
  /\ LET r == Head(fifo[romfs])
     IN /\ step' = IF r.cmd = "read" THEN "seek" ELSE "answer"
        /\ target' = IF r.cmd = "write" THEN target ELSE r.target

RomfsSeek ==
  /\ step = "seek"
  /\ LET r == hand[romfs]
     IN Syscall(romfs, Call("seek", rom0, Start[r.target] + ReadStart(r.target, r), SEEK_SET))
  /\ step' = "read"
  /\ UNCHANGED <<hand, target>>

RomfsRead ==
  /\ step = "read"
  /\ LET r == hand[romfs]
     IN Syscall(romfs, Call("read", rom0, ReadEnd(r.target, r) - ReadStart(r.target, r), 0))
  /\ step' = "answer"
  /\ UNCHANGED <<hand, target>>

RomfsAnswer ==
  LET r == hand[romfs]
  IN /\ step = "answer" /\ call[romfs] = NoCall
     /\ \/ r.cmd = "read" /\ Respond(target, ret[romfs].value, ret[romfs].from)
        \/ r.cmd = "seek" /\ Respond(target, SeekTo(r, Length[target]), NoBytes)
        \/ r.cmd = "write" /\ Respond(target, -1, NoBytes)
     /\ step' = "recv"
     /\ hand' = [hand EXCEPT ![romfs] = NoRequest]
     /\ UNCHANGED target
-----------------------------------------------------------------------------
UserStep == \E t \in Users : \E c \in Programs[t] : UserCall(t, c)
Retry == RetryBlocks \/ RetryEnds \/ EndServe
Romdev == RomdevReceive \/ RomdevAnswer
Romfs == RomfsReceive \/ RomfsSeek \/ RomfsRead \/ RomfsAnswer

Next == UserStep \/ Retry \/ Romdev \/ Romfs

Spec == Init /\ [][Next]_vars

\* The kernel's retries run to their end.  The drivers loop for ever and, being of
\* the most urgent priority, get their slices: strong fairness, because a
\* driver is not running while the kernel serves another event.  Nothing
\* is assumed of users.
Fairness == WF_vars(Retry) /\ SF_vars(Romdev) /\ SF_vars(Romfs)

FairSpec == Spec /\ Fairness
-----------------------------------------------------------------------------
(* Properties *)

Requests == [cmd : {"read", "write", "seek"}, from : Clients, target : Files,
             size : Int, pos : Int]

FileState == [request_pid : Clients \union {Nobody}, buzy : BOOLEAN,
              pos : Nat, buf : Int, transfer_len : Int]

Calls == [op : {"read", "write", "seek"}, fd : Files, size : Int, whence : Nat]

\* Types of the state
TypeOK ==
  /\ file \in [Files -> FileState]
  /\ waiting \in [Files -> Seq(Clients)]
  /\ fifo \in [Drivers -> Seq(Requests)]
  /\ call \in [Clients -> Calls \union {NoCall}]
  /\ ret \in [Clients -> [value : Int, from : Int]]
  /\ hand \in [Drivers -> Requests \union {NoRequest}]
  /\ step \in {"recv", "seek", "read", "answer"}
  /\ target \in Reg \union {NoFile}
  /\ serving \in Files \union {NoFile}
  /\ at \in Nat \ {0}

\* What a driver has still to answer: place 0 is the request in its hands
RequestAt(d, i) == IF i = 0 THEN hand[d] ELSE fifo[d][i]
Places(d) == {i \in 0 .. Len(fifo[d]) : RequestAt(d, i) # NoRequest}
Unanswered(f) == {i \in Places(driver(f)) : RequestAt(driver(f), i).target = f}

\* A file is buzy while exactly one request for it, that of request_pid, is in
\* the driver's FIFO or hands, and idle while there is none: a request is
\* neither lost, sent twice, nor answered twice, and the driver's answer is
\* never refused.
OneRequest ==
  \A f \in Files :
    IF file[f].buzy
    THEN \E i \in Places(driver(f)) :
           Unanswered(f) = {i} /\ RequestAt(driver(f), i).from = file[f].request_pid
    ELSE Unanswered(f) = {}

\* Between two events, the first task on a file's list is the one whose request
\* is in progress: the answer's retries find it, and no task is left waiting
\* behind a file that nobody has asked for anything.
HeadIsServed ==
  serving = NoFile =>
    \A f \in Files :
      file[f].request_pid = IF waiting[f] = <<>> THEN Nobody ELSE Head(waiting[f])

\* Reads, writes and seeks of both layers are atomic: a read of a regular file
\* returns that file's bytes from its position on, though it is a request to
\* romfs, a seek and a read of the device, and two answers.
Shared == INSTANCE SharedFiles WITH
  Buf <- BUF, pos <- [f \in Files |-> file[f].pos]

ImplementsSharedFiles == Shared!Spec

\* Each call of both layers returns, romfs_server's on the device too, whatever
\* others ask for in the meantime.
CallsReturn == Shared!Served

\* Every call is answered.
CallsAnswered == \A t \in Users : (call[t] # NoCall) ~> (call[t] = NoCall)
-----------------------------------------------------------------------------
(* The invariant behind OneRequest and HeadIsServed, and what they need of the *)
(* instance                                                                    *)

\* No program writes a regular file: romfs_server would answer another file.
ReadOnlyFiles == \A t \in Users : \A c \in Programs[t] : c.op = "write" => c.fd = rom0

\* The FIFO of each driver has room for a request about each of its files that
\* an urgent program uses, and for one about another.  A less urgent user
\* makes its call when no request is in progress, so that one is enough.
UrgentFiles == UNION {{c.fd : c \in Programs[t]} : t \in Urgent}
Together(f) == {g \in UrgentFiles \union {f} : driver(g) = driver(f)}
RoomForRequests ==
  \A f \in Files :
    IsFiniteSet(Together(f)) /\ Cardinality(Together(f)) <= Room[driver(f)]

\* Each task on a file's list is there once, in a call on that file.
Listed ==
  \A f \in Files : \A i \in DOMAIN waiting[f] :
    /\ call[waiting[f][i]] \in Calls /\ call[waiting[f][i]].fd = f
    /\ \A j \in DOMAIN waiting[f] : waiting[f][j] = waiting[f][i] => j = i

\* No call, and so no request, writes a regular file; a driver's requests are
\* about its own files.
MayWrite(op, f) == op = "write" => f = rom0
Permitted == \A t \in Clients : call[t] \in Calls => MayWrite(call[t].op, call[t].fd)
Addressed ==
  \A d \in Drivers : \A i \in Places(d) :
    /\ driver(RequestAt(d, i).target) = d
    /\ MayWrite(RequestAt(d, i).cmd, RequestAt(d, i).target)

\* While romfs_server serves a request, target is the file it is about.
AtRequest ==
  /\ step = "recv" <=> hand[romfs] = NoRequest
  /\ step # "recv" => target = hand[romfs].target

\* The head of each list is the task of request_pid; on the list being served,
\* the answered one until it is retried, and then the one that asked next.
HeadAsked(f) == file[f].request_pid = IF waiting[f] = <<>> THEN Nobody ELSE Head(waiting[f])
Retried ==
  \A f \in Files :
    IF serving # f THEN HeadAsked(f)
    ELSE IF at = 1 THEN ~file[f].buzy /\ (Free(f) \/ HeadAsked(f))
    ELSE file[f].buzy /\ HeadAsked(f)

IInv == TypeOK /\ Listed /\ Permitted /\ Addressed /\ AtRequest /\ OneRequest
HeadIInv == IInv /\ Retried

\* An answer waits for its task only while the kernel serves the file's event and
\* has retried no task.
Collected == \A f \in Files : serving # f => file[f].buzy \/ Free(f)

\* A call of romfs_server is on the device, and keeps it on the device's list; a
\* user's call is one of its program.
Asked ==
  /\ call[romfs] # NoCall => /\ call[romfs].fd = rom0
                             /\ \E i \in DOMAIN waiting[rom0] : waiting[rom0][i] = romfs
  /\ \A t \in Users : call[t] # NoCall => call[t] \in Programs[t]

\* At most one of the less urgent users is in a call, and the request in progress
\* on that file is its own: it never waits behind another.
InCall(t) == t \in Users \ Urgent /\ call[t] # NoCall
OneLessUrgent ==
  /\ \A t \in Users : InCall(t) => file[call[t].fd].request_pid = t
  /\ \A t, u \in Users : InCall(t) /\ InCall(u) => t = u

TurnIInv == HeadIInv /\ Collected /\ Asked /\ OneLessUrgent
-----------------------------------------------------------------------------
(* The invariant behind ImplementsSharedFiles                                *)

\* No user with the drivers' priority uses the device: it could move its position
\* between romfs_server's seek and read.
DeviceLeftAlone == \A t \in Urgent : \A c \in Programs[t] : c.fd # rom0

\* No read or write of a negative length is made.
Sized == \A t \in Clients : call[t] \in Calls /\ call[t].op # "seek" => call[t].size >= 0

\* A request says what its task's call asks for, of the file as it is now.
UpToDate(r) ==
  LET c == call[r.from]
  IN c \in Calls /\ ~BadWhence(c) /\ r = Request(r.from, c)
Current == \A d \in Drivers : \A i \in Places(d) : UpToDate(RequestAt(d, i))

\* How many bytes a read returns, and the device address of the first
Extent(r) == ReadEnd(r.target, r) - ReadStart(r.target, r)
Address(r) == Start[r.target] + ReadStart(r.target, r)

\* The answer to r that the file holds
Answers(f, r) ==
  LET F == file[f]
  IN CASE r.cmd = "read" -> F.transfer_len = Extent(r) /\ (F.transfer_len > 0 => F.buf = Address(r))
       [] r.cmd = "seek" -> F.transfer_len = SeekTo(r, Length[f])
       [] r.cmd = "write" -> F.transfer_len = -1

\* The answer that waits is the one to its task's call.
RightAnswer ==
  serving # NoFile /\ at = 1 /\ ~Free(serving) =>
    LET t == file[serving].request_pid
    IN /\ call[t] \in Calls /\ call[t].fd = serving /\ ~BadWhence(call[t])
       /\ Answers(serving, Request(t, call[t]))

\* Where romfs_server is between a request to read and its answer: its seek has put
\* the device at the bytes to read, nobody moves it before its read is
\* over, and what it then returned are those bytes.
RomfsIdle == call[romfs] = NoCall
RomfsCall(c) ==
  /\ call[romfs] = c
  /\ waiting[rom0] # <<>> /\ Last(waiting[rom0]) = romfs
DeviceAt(r) == file[rom0].pos = Address(r)
InService(r) ==
  IF r.cmd # "read" THEN RomfsIdle
  ELSE CASE step = "seek" -> RomfsIdle
         [] step = "read" ->
              \/ RomfsCall(Call("seek", rom0, Address(r), SEEK_SET))
              \/ RomfsIdle /\ DeviceAt(r) /\ waiting[rom0] = <<>>
         [] step = "answer" ->
              \/ /\ RomfsCall(Call("read", rom0, Extent(r), 0))
                 /\ DeviceAt(r) /\ waiting[rom0] = <<romfs>>
              \/ /\ RomfsIdle /\ ret[romfs].value = Extent(r)
                 /\ Extent(r) > 0 => ret[romfs].from = Address(r)
Stage ==
  /\ hand[romfs] = NoRequest => RomfsIdle
  /\ step \in {"seek", "read"} => hand[romfs].cmd = "read"
  /\ hand[romfs] # NoRequest => InService(hand[romfs])

SharedIInv ==
  TurnIInv /\ Sized /\ Current /\ RightAnswer /\ Stage
=============================================================================
