------------------------------ MODULE PathServer ------------------------------
(***************************************************************************)
(* The path server (src/path.c), the calls that talk to it (mkfile and     *)
(* open of src/file.c, path_register, path_register_fs and mount), and the *)
(* tasks that registration makes depend on each other: romdev_driver,      *)
(* romfs_server and mount_task.                                            *)
(*                                                                         *)
(* Every request goes into the path server's FIFO as one write; every      *)
(* answer comes through the asker's own FIFO.  The own FIFO of             *)
(* romfs_server is also where the path server sends it opens of mounted    *)
(* paths, and in serving one it registers the path with the path server.   *)
(* A FIFO takes a whole message or makes its writer wait (Kernel).  The    *)
(* reads of one request are one step: it is all there once its first word  *)
(* is.  Paths are values; what the rom holds under each is RomPaths.       *)
(* Reading the device is RomFiles.                                         *)
(***************************************************************************)
EXTENDS Integers, Sequences, FiniteSets, SequencesExt, FiniteSetsExt

CONSTANTS
  romdev, romfs, mount_task,   \* tasks of the system
  Users,                       \* other tasks
  Paths, server_path, rom0,    \* paths; PATH_SERVER_NAME, ROMDEV_PATH
  RomPaths,                    \* those that romfs finds on the device
  Covered,                     \* those the mount point is a prefix of
  Programs,                    \* the requests a task makes, one after the other
  PATHSERVER_FD, FILE_LIMIT,
  Capacity,                    \* bytes a FIFO holds, PIPE_BUF - 1
  Pool,                        \* nodes the memory pool still has room for
  Nobody

Tasks == Users \union {romdev, romfs, mount_task}
Fds == 0..FILE_LIMIT
FS_CMD_OPEN == 1

Mkfile(p) == [cmd |-> "mkfile", path |-> p]
Open(p) == [cmd |-> "open", path |-> p]
Register(p) == [cmd |-> "register", path |-> p]
RegisterFs == [cmd |-> "register_fs"]
Mount(p) == [cmd |-> "mount", path |-> p]
NoRequest == [cmd |-> "none"]
NoWrite == [to |-> Nobody]

\* Bytes of each request: words of four bytes, and names as long as those of the
\* boot tasks
Bytes(r) == CASE r.cmd = "mkfile" -> 30 [] r.cmd = "mount" -> 38
              [] r.cmd = "register_fs" -> 18 [] OTHER -> 22
FS_REQUEST == 56

\* A piece of a message in a task's FIFO: an answer, or the first word and
\* the rest of a request for romfs_server
Word(v) == [bytes |-> 4, value |-> v]
Rest(from, p, dev) == [bytes |-> FS_REQUEST - 4, from |-> from, path |-> p, device |-> dev]

\* A request in the path server's FIFO, by the task that makes it
Sent(r, t) == [ask |-> r, replyfd |-> t, bytes |-> Bytes(r)]

ASSUME PathsAssumption ==
  /\ {server_path, rom0} \union RomPaths \union Covered \subseteq Paths
  /\ PATHSERVER_FD \in Nat /\ FS_CMD_OPEN < PATHSERVER_FD
  /\ FILE_LIMIT \in Nat /\ FILE_LIMIT > PATHSERVER_FD
  /\ Capacity \in Nat /\ Capacity >= FS_REQUEST /\ Pool \in Nat
  /\ Nobody \notin Tasks
  /\ DOMAIN Programs = Tasks

VARIABLES
  paths,     \* the registered paths
  fs,        \* the tasks that registered the file system's type
  mounts,    \* mount points: fs, dev
  requests,  \* the path server's FIFO: requests and who made them
  fifo,      \* the own FIFO of every task
  made,      \* how often mknod made each file after boot
  pool,      \* room left in the memory pool
  asked,     \* the request each task is making
  phase,     \* where the task is in it
  done,      \* how many requests of its program it has made
  out,       \* the write the path server is in
  opening,   \* the fs_request romfs_server serves
  status,    \* its answer
  nodes      \* romfs_server's files: fd and path

vars == <<paths, fs, mounts, requests, fifo, made, pool, asked, phase, done, out,
          opening, status, nodes>>
tables == <<paths, fs, mounts>>
client == <<asked, phase, done>>
server == <<opening, status, nodes>>

Init ==
  /\ paths = <<server_path>> /\ fs = <<>> /\ mounts = <<>>
  /\ requests = <<>> /\ fifo = [t \in Tasks |-> <<>>]
  /\ made = [fd \in Fds |-> 0] /\ pool = Pool
  /\ asked = [t \in Tasks |-> NoRequest] /\ phase = [t \in Tasks |-> "idle"]
  /\ done = [t \in Tasks |-> 0]
  /\ out = NoWrite
  /\ opening = NoRequest /\ status = -1 /\ nodes = <<>>

\* The bytes in a FIFO
Held(s) ==
  LET sum[n \in 0 .. Len(s)] == IF n = 0 THEN 0 ELSE sum[n - 1] + s[n].bytes
  IN  sum[Len(s)]
Fits(t, n) == Held(fifo[t]) + n <= Capacity
-----------------------------------------------------------------------------
(* The side of the caller *)

\* mutant: the request is written whether or not there is room
Send_unheld(t, r) ==
  /\ phase[t] = "idle"
  /\ requests' = Append(requests, Sent(r, t))
  /\ asked' = [asked EXCEPT ![t] = r] /\ phase' = [phase EXCEPT ![t] = "wait"]
  /\ UNCHANGED <<tables, fifo, made, pool, out>>

\* write(PATHSERVER_FD, buf, pos): the request is sent when there is room for it.
Send(t, r) ==
  /\ phase[t] = "idle"
  /\ Held(requests) + Bytes(r) <= Capacity
  /\ requests' = Append(requests, Sent(r, t))
  /\ asked' = [asked EXCEPT ![t] = r] /\ phase' = [phase EXCEPT ![t] = "wait"]
  /\ UNCHANGED <<tables, fifo, made, pool, out>>

\* The task's next request
Ask(t) ==
  /\ done[t] < Len(Programs[t])
  /\ Send(t, Programs[t][done[t] + 1])
  /\ done' = [done EXCEPT ![t] = @ + 1]
  /\ UNCHANGED server

\* read(replyfd, &fd, 4): what the call returns
Answer(t) == Head(fifo[t]).value

\* mknod, which nobody checks
mknod(fd) ==
  /\ made' = IF pool > 0 THEN [made EXCEPT ![fd] = @ + 1] ELSE made
  /\ pool' = IF pool > 0 THEN pool - 1 ELSE pool

ReadAnswer(t) ==
  /\ phase[t] = "wait" /\ fifo[t] # <<>>
  /\ fifo' = [fifo EXCEPT ![t] = Tail(@)]
  /\ UNCHANGED <<tables, requests, done, out>>

\* The call returns.  romdev_driver has a node to make next.
Return(t) ==
  /\ t = romfs => opening = NoRequest
  /\ ReadAnswer(t)
  /\ IF t = romdev
     THEN /\ asked' = [asked EXCEPT ![t] = Word(Answer(t))]
          /\ phase' = [phase EXCEPT ![t] = "mknod"]
     ELSE /\ asked' = [asked EXCEPT ![t] = NoRequest]
          /\ phase' = [phase EXCEPT ![t] = "idle"]
  /\ UNCHANGED <<made, pool, server>>

RomdevMakes ==
  /\ phase[romdev] = "mknod"
  /\ mknod(asked[romdev].value)
  /\ asked' = [asked EXCEPT ![romdev] = NoRequest]
  /\ phase' = [phase EXCEPT ![romdev] = "idle"]
  /\ UNCHANGED <<tables, requests, fifo, done, out, server>>
-----------------------------------------------------------------------------
(* The path server *)

PathFd(i) == PATHSERVER_FD + i - 1
NewFd == PathFd(Len(paths) + 1)
Registered(p) == p \in Range(paths)
\* The first entry of that path
FdOf(p) == PathFd(Min({i \in DOMAIN paths : paths[i] = p}))

Reply(t, v) == out' = [to |-> t, words |-> <<Word(v)>>]

PathMkfile(t, r) ==
  /\ r.cmd = "mkfile"
  /\ mknod(NewFd)
  /\ paths' = IF pool > 0 THEN Append(paths, r.path) ELSE paths
  /\ Reply(t, IF pool > 0 THEN NewFd ELSE -1)
  /\ UNCHANGED <<fs, mounts>>

\* mutant: an open that matches nothing is not answered
PathOpen_silent(t, r) ==
  /\ r.cmd = "open"
  /\ IF Registered(r.path) THEN Reply(t, FdOf(r.path)) ELSE out' = NoWrite
  /\ UNCHANGED <<tables, made, pool>>

\* mutant: the registered paths are not looked through
PathOpen_unsearched(t, r) ==
  /\ r.cmd = "open"
  /\ \/ /\ r.path \in Covered /\ mounts # <<>>
        /\ out' = [to |-> mounts[1].fs,
                   words |-> <<Word(FS_CMD_OPEN), Rest(t, r.path, mounts[1].dev)>>]
     \/ ~(r.path \in Covered /\ mounts # <<>>) /\ Reply(t, -1)
  /\ UNCHANGED <<tables, made, pool>>

PathOpen(t, r) ==
  /\ r.cmd = "open"
  /\ \/ Registered(r.path) /\ Reply(t, FdOf(r.path))
     \/ /\ ~Registered(r.path) /\ r.path \in Covered /\ mounts # <<>>
        /\ out' = [to |-> mounts[1].fs,
                   words |-> <<Word(FS_CMD_OPEN), Rest(t, r.path, mounts[1].dev)>>]
     \/ /\ ~Registered(r.path) /\ ~(r.path \in Covered /\ mounts # <<>>)
        /\ Reply(t, -1)
  /\ UNCHANGED <<tables, made, pool>>

\* mutant: npaths is not advanced
PathRegister_uncounted(t, r) ==
  /\ r.cmd = "register"
  /\ Reply(t, NewFd)
  /\ UNCHANGED <<tables, made, pool>>

PathRegister(t, r) ==
  /\ r.cmd = "register"
  /\ paths' = Append(paths, r.path)
  /\ Reply(t, NewFd)
  /\ UNCHANGED <<fs, mounts, made, pool>>

PathRegisterFs(t, r) ==
  /\ r.cmd = "register_fs"
  /\ fs' = Append(fs, t)
  /\ Reply(t, 0)
  /\ UNCHANGED <<paths, mounts, made, pool>>

PathMount(t, r) ==
  /\ r.cmd = "mount"
  /\ IF fs # <<>> /\ Registered(r.path)
     THEN /\ mounts' = Append(mounts, [fs |-> fs[1], dev |-> FdOf(r.path)])
          /\ Reply(t, 0)
     ELSE /\ Reply(t, -1)
          /\ UNCHANGED mounts
  /\ UNCHANGED <<paths, fs, made, pool>>

Serve ==
  /\ out = NoWrite /\ requests # <<>>
  /\ LET t == Head(requests).replyfd
         r == Head(requests).ask
     IN PathMkfile(t, r) \/ PathOpen(t, r) \/ PathRegister(t, r) \/ PathRegisterFs(t, r) \/ PathMount(t, r)
  /\ requests' = Tail(requests)
  /\ UNCHANGED <<fifo, client, server>>

\* The path server's write
Deliver ==
  /\ out # NoWrite
  /\ Fits(out.to, Held(out.words))
  /\ fifo' = [fifo EXCEPT ![out.to] = @ \o out.words]
  /\ out' = NoWrite
  /\ UNCHANGED <<tables, requests, made, pool, client, server>>
-----------------------------------------------------------------------------
(* romfs_server *)

Serving == fs # <<>> /\ phase[romfs] = "idle" /\ done[romfs] = Len(Programs[romfs])

\* read(self, &request, sizeof(request)): what was read as the command decides.
RomfsReceive ==
  /\ Serving /\ opening = NoRequest /\ Held(fifo[romfs]) >= FS_REQUEST
  /\ IF fifo[romfs][1] = Word(FS_CMD_OPEN)
     THEN LET request == fifo[romfs][2]
          IN opening' = [cmd |-> "open", from |-> request.from, path |-> request.path,
                         device |-> request.device]
     ELSE UNCHANGED opening   \* default: a write to no file
  /\ fifo' = [fifo EXCEPT ![romfs] = SubSeq(@, 3, Len(@))]
  /\ UNCHANGED <<tables, requests, made, pool, client, out, status, nodes>>

\* romfs_open found the path: register it.  A device with no node cannot be read:
\* the entry searched is whatever the stack holds.
RomfsFound ==
  /\ opening.cmd = "open"
  /\ opening.path \in RomPaths \/ made[opening.device] = 0
  /\ Send(romfs, Register(opening.path))
  /\ opening' = [opening EXCEPT !.cmd = "register"]
  /\ UNCHANGED <<done, status, nodes>>

\* mutant: the status of the last open is left
RomfsMissed_stale ==
  /\ opening.cmd = "open"
  /\ opening.path \notin RomPaths \/ made[opening.device] = 0
  /\ opening' = [opening EXCEPT !.cmd = "reply"]
  /\ UNCHANGED <<tables, requests, fifo, made, pool, client, out, status, nodes>>

RomfsMissed ==
  /\ opening.cmd = "open"
  /\ opening.path \notin RomPaths \/ made[opening.device] = 0
  /\ opening' = [opening EXCEPT !.cmd = "reply"] /\ status' = -1
  /\ UNCHANGED <<tables, requests, fifo, made, pool, client, out, nodes>>

RomfsRegistered ==
  /\ opening.cmd = "register"
  /\ ReadAnswer(romfs)
  /\ mknod(Answer(romfs))
  /\ status' = Answer(romfs)
  /\ nodes' = Append(nodes, [fd |-> Answer(romfs), path |-> opening.path])
  /\ opening' = [opening EXCEPT !.cmd = "reply"]
  /\ asked' = [asked EXCEPT ![romfs] = NoRequest]
  /\ phase' = [phase EXCEPT ![romfs] = "idle"]

\* write(from, &status, sizeof(status))
RomfsReply ==
  /\ opening.cmd = "reply" /\ Fits(opening.from, 4)
  /\ fifo' = [fifo EXCEPT ![opening.from] = Append(@, Word(status))]
  /\ opening' = NoRequest
  /\ UNCHANGED <<tables, requests, made, pool, client, out, status, nodes>>
-----------------------------------------------------------------------------
Next ==
  \/ \E t \in Tasks : Ask(t) \/ Return(t)
  \/ RomdevMakes \/ Serve \/ Deliver
  \/ RomfsReceive \/ RomfsFound \/ RomfsMissed \/ RomfsRegistered \/ RomfsReply

Spec == Init /\ [][Next]_vars

\* Every task here has the kernel's highest priority or waits for one that has:
\* each of their steps is taken once it stays possible.
Fairness ==
  /\ \A t \in Tasks : WF_vars(Ask(t) \/ Return(t))
  /\ WF_vars(RomdevMakes) /\ WF_vars(Serve) /\ WF_vars(Deliver)
  /\ WF_vars(RomfsReceive \/ RomfsFound \/ RomfsMissed \/ RomfsRegistered \/ RomfsReply)

FairSpec == Spec /\ Fairness
-----------------------------------------------------------------------------
(* Properties *)

\* Types of the state; no FIFO holds more than it can.
TypeOK ==
  /\ paths \in Seq(Paths) /\ fs \in Seq(Tasks)
  /\ mounts \in Seq([fs : Tasks, dev : Fds])
  /\ Held(requests) <= Capacity /\ \A t \in Tasks : Held(fifo[t]) <= Capacity
  /\ made \in [Fds -> Nat] /\ pool \in 0..Pool
  /\ phase \in [Tasks -> {"idle", "wait", "mknod"}]
  /\ opening.cmd \in {"none", "open", "register", "reply"}
  /\ status \in Fds \union {-1}
  /\ nodes \in Seq([fd : Fds, path : Paths])

\* What a request may be answered
Right(r, v) ==
  CASE r.cmd \in {"mkfile", "open"} -> v = -1 \/ v \in {PathFd(i) : i \in {j \in DOMAIN paths : paths[j] = r.path}}
    [] r.cmd = "register" -> v \in {PathFd(i) : i \in {j \in DOMAIN paths : paths[j] = r.path}}
    [] OTHER -> v \in {0, -1}

\* What a task reads as the answer of its request is an answer to that request:
\* the descriptor of the very path it named.
RightAnswers ==
  \A t \in Tasks :
    phase[t] = "wait" /\ fifo[t] # <<>> =>
      "value" \in DOMAIN Head(fifo[t]) /\ Right(asked[t], Answer(t))

\* romfs_server is sent no open while it has another to take up or to register.  This
\* depends on the programs: nothing in path.c makes it so.
OneAtATime ==
  out # NoWrite /\ Len(out.words) = 2 =>
    opening.cmd \in {"none", "reply"} /\ Len(fifo[romfs]) < 2

\* No file is made twice: the descriptors that the path server hands out are new.
MadeOnce == \A fd \in Fds : made[fd] <= 1

\* Every request is sent and answered, so every program comes to its end.
RequestsAnswered ==
  \A t \in Tasks : <>(done[t] = Len(Programs[t]) /\ phase[t] = "idle")
=============================================================================
