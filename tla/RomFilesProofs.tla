--------------------------- MODULE RomFilesProofs ---------------------------
(***************************************************************************)
(* RomFiles for any number of tasks and regular files, and any programs    *)
(* that do not write regular files: each request is answered once and to   *)
(* its task; and, if the drivers' FIFOs have room for the requests that    *)
(* can be in progress at once (RoomForRequests), the tasks that wait for a *)
(* file are served in turn and the calls are those of files with atomic    *)
(* calls.                                                                  *)
(***************************************************************************)
EXTENDS RomFiles, FiniteSetTheorems, SequenceTheorems, TLAPS

-----------------------------------------------------------------------------
(* Requests, calls and the places they are in *)

LEMMA Kinds ==
  /\ \A r \in Requests : r # NoRequest
  /\ \A c \in Calls : c # NoCall
<1>1. \A r \in Requests : r.cmd # NoRequest.cmd
  BY DEF Requests, NoRequest
<1>2. \A c \in Calls : c.op # NoCall.op
  BY DEF Calls, NoCall
<1> QED
  BY <1>1, <1>2

LEMMA FilesOf ==
  /\ \A f \in Files : driver(f) \in Drivers
  /\ rom0 \in Files /\ driver(rom0) = romdev
  /\ \A f \in Reg : f \in Files /\ driver(f) = romfs /\ f # rom0
  /\ \A f \in Files : driver(f) = romdev => f = rom0
  /\ romdev \in Drivers /\ romfs \in Drivers /\ romfs \in Clients /\ romfs # romdev
  /\ Nobody \notin Clients /\ NoFile \notin Files
BY FilesAssumption DEF driver, Drivers, Files, Clients

LEMMA ProgramCalls ==
  ASSUME NEW t \in Users, NEW c \in Programs[t]
  PROVE  c \in Calls /\ t \in Clients
BY FilesAssumption DEF Calls, Clients

\* A call and a request of the right types
LEMMA RequestType ==
  ASSUME TypeOK, NEW t \in Clients, NEW c \in Calls
  PROVE  /\ Request(t, c) \in Requests
         /\ Request(t, c).target = c.fd /\ Request(t, c).cmd = c.op /\ Request(t, c).from = t
<1>1. c.op \in {"read", "write", "seek"} /\ c.fd \in Files /\ c.size \in Int
  BY DEF Calls
<1>2. Clipped(c.size) \in Int
  BY <1>1, FilesAssumption DEF Clipped
<1>3. file[c.fd].pos \in Int
  BY <1>1 DEF TypeOK, FileState
<1>4. (CASE c.op = "seek" /\ c.whence = SEEK_SET -> 0
         [] c.op = "seek" /\ c.whence = SEEK_END -> -1
         [] OTHER -> file[c.fd].pos) \in Int
  BY <1>3 DEF SEEK_SET, SEEK_END
<1>5. (IF c.op = "seek" THEN c.size ELSE Clipped(c.size)) \in Int
  BY <1>1, <1>2
<1> QED
  BY <1>1, <1>4, <1>5 DEF Request, Requests

-----------------------------------------------------------------------------
(* Types *)

Asks(t, c) == t \in Clients /\ c \in Calls

FileTypes ==
  /\ file \in [Files -> FileState]
  /\ fifo \in [Drivers -> Seq(Requests)]
  /\ ret \in [Clients -> [value : Int, from : Int]]

LEMMA SubmitTypes ==
  ASSUME TypeOK, NEW t \in Clients, NEW c \in Calls,
         Submit(t, c) \/ Held(t, c), UNCHANGED ret
  PROVE  FileTypes'
<1>0. c.fd \in Files
  BY DEF Calls
<1>1. CASE Submit(t, c)
  <2>1. fifo' \in [Drivers -> Seq(Requests)]
    <3>1. Append(fifo[driver(c.fd)], Request(t, c)) \in Seq(Requests)
      <4>1. fifo[driver(c.fd)] \in Seq(Requests)
        BY <1>0, FilesOf DEF TypeOK
      <4> QED
        BY <4>1, RequestType
    <3> QED
      BY <1>1, <3>1 DEF Submit, TypeOK
  <2>2. file' \in [Files -> FileState]
    <3> DEFINE F == [file[c.fd] EXCEPT !.request_pid = t, !.buzy = TRUE,
                       !.buf = IF c.op = "write" THEN NoBytes ELSE file[c.fd].buf]
    <3>1. file[c.fd] \in FileState
      BY <1>0 DEF TypeOK
    <3>2. (IF c.op = "write" THEN NoBytes ELSE file[c.fd].buf) \in Int
      BY <3>1 DEF FileState, NoBytes
    <3>3. \A b \in Int : [file[c.fd] EXCEPT !.request_pid = t, !.buzy = TRUE, !.buf = b] \in FileState
      BY <3>1 DEF FileState
    <3>4. F \in FileState
      BY <3>2, <3>3
    <3> QED
      BY <1>0, <1>1, <3>4 DEF Submit, TypeOK
  <2> QED
    BY <2>1, <2>2 DEF TypeOK, FileTypes
<1>2. CASE Held(t, c)
  BY <1>2 DEF Held, TypeOK, FileTypes
<1> QED
  BY <1>1, <1>2

LEMMA CompleteTypes ==
  ASSUME TypeOK, NEW t \in Clients, NEW c \in Calls, Complete(t, c) \/ Refuse(t, c)
  PROVE  FileTypes'
<1>0. c.fd \in Files
  BY DEF Calls
<1>1. CASE Complete(t, c)
  <2> DEFINE F == file[c.fd]
  <2>0. F.pos \in Nat /\ F.transfer_len \in Int /\ F.buf \in Int
    BY <1>0 DEF TypeOK, FileState
  <2>1. NewPos(c) \in Nat
    BY <2>0 DEF NewPos
  <2>2. file' \in [Files -> FileState]
    <3>1. file[c.fd] \in FileState
      BY <1>0 DEF TypeOK
    <3>2. [file[c.fd] EXCEPT !.request_pid = Nobody, !.pos = NewPos(c)] \in FileState
      BY <2>1, <3>1 DEF FileState
    <3> QED
      BY <1>0, <1>1, <3>2 DEF Complete, TypeOK
  <2>3. ret' \in [Clients -> [value : Int, from : Int]]
    BY <1>1, <2>0 DEF Complete, TypeOK, Result, NoBytes
  <2> QED
    BY <1>1, <2>2, <2>3 DEF TypeOK, FileTypes, Complete
<1>2. CASE Refuse(t, c)
  BY <1>2 DEF Refuse, TypeOK, FileTypes, Result, NoBytes
<1> QED
  BY <1>1, <1>2

LEMMA RespondTypes ==
  ASSUME TypeOK, NEW f, NEW len \in Int, NEW from \in Int, Respond(f, len, from)
  PROVE  /\ FileTypes' /\ UNCHANGED <<waiting, call>>
         /\ serving' \in Files \union {NoFile} /\ at' \in Nat \ {0}
<1>1. CASE f \in {g \in Files : file[g].buzy}
  <2> DEFINE F == [file[f] EXCEPT !.transfer_len = len, !.buzy = FALSE,
                     !.buf = IF len > 0 THEN from ELSE file[f].buf]
  <2>1. file[f] \in FileState
    BY <1>1 DEF TypeOK
  <2>2. F \in FileState
    BY <2>1 DEF FileState
  <2>3. file' = [file EXCEPT ![f] = F] /\ serving' = f /\ at' = 1
        /\ UNCHANGED <<waiting, fifo, call, ret>>
    BY <1>1 DEF Respond
  <2>4. file' \in [Files -> FileState]
    BY <2>2, <2>3 DEF TypeOK
  <2> QED
    BY <1>1, <2>3, <2>4 DEF TypeOK, FileTypes
<1>2. CASE f \notin {g \in Files : file[g].buzy}
  BY <1>2 DEF Respond, TypeOK, FileTypes
<1> QED
  BY <1>1, <1>2

LEMMA SyscallTypes ==
  ASSUME TypeOK, NEW t \in Clients, NEW c \in Calls, Syscall(t, c)
  PROVE  /\ FileTypes' /\ UNCHANGED <<serving, at>>
         /\ waiting' \in [Files -> Seq(Clients)]
         /\ call' \in [Clients -> Calls \union {NoCall}]
<1>0. c.fd \in Files
  BY DEF Calls
<1>1. FileTypes'
  BY SubmitTypes, CompleteTypes DEF Syscall
<1>2. waiting' \in [Files -> Seq(Clients)]
  <2>1. Append(waiting[c.fd], t) \in Seq(Clients)
    <3>1. waiting[c.fd] \in Seq(Clients)
      BY <1>0 DEF TypeOK
    <3> QED
      BY <3>1
  <2> QED
    BY <1>0, <2>1 DEF Syscall, TypeOK
<1>3. call' \in [Clients -> Calls \union {NoCall}]
  BY DEF Syscall, TypeOK
<1> QED
  BY <1>1, <1>2, <1>3 DEF Syscall
-----------------------------------------------------------------------------
(* Where requests are: sent, received, answered *)

LEMMA PlaceTypes ==
  ASSUME TypeOK, NEW d \in Drivers
  PROVE  /\ Places(d) \subseteq 0 .. Len(fifo[d])
         /\ \A i \in Places(d) : RequestAt(d, i) \in Requests
         /\ 0 \in Places(d) <=> hand[d] # NoRequest
         /\ \A i \in 1 .. Len(fifo[d]) : i \in Places(d) /\ RequestAt(d, i) = fifo[d][i]
         /\ RequestAt(d, 0) = hand[d] /\ Len(fifo[d]) \in Nat
<1>1. fifo[d] \in Seq(Requests) /\ hand[d] \in Requests \union {NoRequest}
  BY DEF TypeOK
<1>2. Len(fifo[d]) \in Nat /\ \A i \in 1 .. Len(fifo[d]) : fifo[d][i] \in Requests
  BY <1>1
<1>3. \A i \in 1 .. Len(fifo[d]) : RequestAt(d, i) = fifo[d][i] /\ i \in 0 .. Len(fifo[d])
  BY <1>2 DEF RequestAt
<1>4. RequestAt(d, 0) = hand[d] /\ 0 \in 0 .. Len(fifo[d])
  BY <1>2 DEF RequestAt
<1>5. \A i \in 0 .. Len(fifo[d]) : i = 0 \/ i \in 1 .. Len(fifo[d])
  BY <1>2
<1>6. \A i \in Places(d) : RequestAt(d, i) \in Requests
  BY <1>1, <1>2, <1>3, <1>4, <1>5 DEF Places
<1> QED
  BY <1>2, <1>3, <1>4, <1>6, Kinds DEF Places

\* A driver whose requests are untouched
LEMMA SamePlaces ==
  ASSUME NEW d, fifo'[d] = fifo[d], hand'[d] = hand[d]
  PROVE  Places(d)' = Places(d) /\ \A i : RequestAt(d, i)' = RequestAt(d, i)
BY DEF Places, RequestAt

LEMMA SentPlaces ==
  ASSUME TypeOK, NEW d \in Drivers, NEW r \in Requests,
         fifo'[d] = Append(fifo[d], r), hand'[d] = hand[d],
         NEW n, n = Len(fifo[d])
  PROVE  /\ Places(d)' = Places(d) \union {n + 1}
         /\ n + 1 \notin Places(d)
         /\ \A i \in Places(d) : RequestAt(d, i)' = RequestAt(d, i)
         /\ RequestAt(d, n + 1)' = r
<1>1. fifo[d] \in Seq(Requests) /\ n \in Nat
  BY DEF TypeOK
<1>2. /\ Len(fifo'[d]) = n + 1 /\ fifo'[d][n + 1] = r
      /\ \A i \in 1 .. n : fifo'[d][i] = fifo[d][i]
  BY <1>1
<1>3. \A i \in 0 .. n : RequestAt(d, i)' = RequestAt(d, i)
  BY <1>1, <1>2 DEF RequestAt
<1>4. RequestAt(d, n + 1)' = r
  <2>1. \A i \in Nat \ {0} : RequestAt(d, i)' = fifo'[d][i]
    BY DEF RequestAt
  <2>2. n + 1 \in Nat \ {0}
    BY <1>1
  <2> QED
    BY <1>2, <2>1, <2>2
<1>5. 0 .. n + 1 = (0 .. n) \union {n + 1} /\ n + 1 \notin 0 .. n
  BY <1>1
<1>6. Places(d)' = {i \in 0 .. n + 1 : RequestAt(d, i)' # NoRequest}
  BY <1>2 DEF Places, NoRequest
<1>7. Places(d) = {i \in 0 .. n : RequestAt(d, i) # NoRequest}
  BY DEF Places
<1>8. Places(d)' = Places(d) \union {n + 1}
  <2>1. n + 1 \in Places(d)'
    BY <1>4, <1>5, <1>6, Kinds
  <2>2. \A i \in 0 .. n : i \in Places(d)' <=> i \in Places(d)
    BY <1>3, <1>5, <1>6, <1>7
  <2>3. Places(d)' \subseteq (0 .. n) \union {n + 1} /\ Places(d) \subseteq 0 .. n
    BY <1>5, <1>6, <1>7
  <2> QED
    BY <2>1, <2>2, <2>3
<1> QED
  BY <1>3, <1>4, <1>5, <1>7, <1>8

LEMMA ReceivedPlaces ==
  ASSUME TypeOK, NEW d \in Drivers, hand[d] = NoRequest, fifo[d] # <<>>,
         hand'[d] = Head(fifo[d]), fifo'[d] = Tail(fifo[d])
  PROVE  /\ 0 \notin Places(d)
         /\ \A i \in Int : i \in Places(d)' <=> i + 1 \in Places(d)
         /\ \A i \in Places(d)' : i \in Int /\ RequestAt(d, i)' = RequestAt(d, i + 1)
<1> DEFINE n == Len(fifo[d])
<1>1. fifo[d] \in Seq(Requests) /\ n \in Nat \ {0}
  BY DEF TypeOK
<1>2. /\ hand'[d] = fifo[d][1] /\ Len(fifo'[d]) = n - 1
      /\ \A i \in 1 .. n - 1 : fifo'[d][i] = fifo[d][i + 1]
  BY <1>1
<1>3. \A i \in 0 .. n - 1 : RequestAt(d, i)' = RequestAt(d, i + 1) /\ i + 1 \in 1 .. n
  BY <1>1, <1>2 DEF RequestAt
<1>4. Places(d) = 1 .. n
  BY <1>1, PlaceTypes DEF Places
<1>5. \A i \in 1 .. n : RequestAt(d, i) # NoRequest
  BY <1>4 DEF Places
<1>6. Places(d)' = 0 .. n - 1
  <2>1. Places(d)' = {i \in 0 .. n - 1 : RequestAt(d, i)' # NoRequest}
    BY <1>2 DEF Places, NoRequest
  <2> QED
    BY <2>1, <1>3, <1>5
<1> QED
  BY <1>1, <1>3, <1>4, <1>6

LEMMA AnsweredPlaces ==
  ASSUME TypeOK, NEW d \in Drivers, fifo'[d] = fifo[d], hand'[d] = NoRequest
  PROVE  /\ Places(d)' = Places(d) \ {0}
         /\ \A i \in Places(d)' : RequestAt(d, i)' = RequestAt(d, i)
<1> DEFINE n == Len(fifo[d])
<1>1. n \in Nat
  BY DEF TypeOK
<1>2. \A i \in 1 .. n : RequestAt(d, i)' = RequestAt(d, i)
  BY <1>1 DEF RequestAt
<1>3. RequestAt(d, 0)' = NoRequest
  BY DEF RequestAt, NoRequest
<1>4. Places(d)' = {i \in 0 .. n : RequestAt(d, i)' # NoRequest}
  BY DEF Places, NoRequest
<1>5. \A i \in 0 .. n : i = 0 \/ i \in 1 .. n
  BY <1>1
<1>6. Places(d)' = Places(d) \ {0}
  BY <1>2, <1>3, <1>4, <1>5 DEF Places
<1> QED
  BY <1>2, <1>4, <1>5, <1>6
-----------------------------------------------------------------------------
(* One request in progress for each buzy file *)

Requested == TypeOK /\ Addressed /\ OneRequest

LEMMA BuzyAsked ==
  ASSUME TypeOK, OneRequest, NEW f \in Files
  PROVE  /\ file[f].buzy \in BOOLEAN
         /\ file[f].buzy => file[f].request_pid \in Clients
         /\ Free(f) => ~file[f].buzy
<1>1. file[f].buzy \in BOOLEAN
  BY DEF TypeOK, FileState
<1>2. ASSUME file[f].buzy PROVE file[f].request_pid \in Clients
  <2>1. PICK i \in Places(driver(f)) : RequestAt(driver(f), i).from = file[f].request_pid
    BY <1>2 DEF OneRequest
  <2>2. RequestAt(driver(f), i) \in Requests
    BY PlaceTypes, FilesOf
  <2> QED
    BY <2>1, <2>2 DEF Requests
<1> QED
  BY <1>1, <1>2, FilesOf DEF Free

\* A file whose requests and flags are untouched stays as it is.
LEMMA OthersKeep ==
  ASSUME TypeOK, OneRequest, NEW f \in Files,
         Unanswered(f)' = Unanswered(f),
         \A i \in Unanswered(f) : i \in Places(driver(f))' /\ RequestAt(driver(f), i)' = RequestAt(driver(f), i),
         file'[f].buzy = file[f].buzy,
         file[f].buzy => file'[f].request_pid = file[f].request_pid
  PROVE  IF file'[f].buzy
         THEN \E i \in Places(driver(f))' :
                Unanswered(f)' = {i} /\ RequestAt(driver(f), i)'.from = file'[f].request_pid
         ELSE Unanswered(f)' = {}
<1>1. CASE file[f].buzy
  <2>1. PICK i \in Places(driver(f)) :
          Unanswered(f) = {i} /\ RequestAt(driver(f), i).from = file[f].request_pid
    BY <1>1 DEF OneRequest
  <2>2. i \in Places(driver(f))' /\ RequestAt(driver(f), i)' = RequestAt(driver(f), i)
    BY <2>1
  <2>3. RequestAt(driver(f), i)'.from = file'[f].request_pid
    BY <1>1, <2>1, <2>2
  <2> QED
    BY <1>1, <2>1, <2>2, <2>3
<1>2. CASE ~file[f].buzy
  BY <1>2 DEF OneRequest
<1> QED
  BY <1>1, <1>2

LEMMA SubmitKeeps ==
  ASSUME Requested, NEW t \in Clients, NEW c \in Calls, MayWrite(c.op, c.fd),
         Submit(t, c), UNCHANGED hand
  PROVE  OneRequest' /\ Addressed'
<1> USE DEF Requested
<1> DEFINE r == Request(t, c)
<1>1. PICK d \in Drivers : d = driver(c.fd)
  BY FilesOf DEF Calls
<1>2. PICK n : n = Len(fifo[d])
  OBVIOUS
<1>3. c.fd \in Files /\ r \in Requests /\ r.target = c.fd /\ r.cmd = c.op /\ r.from = t
  BY RequestType DEF Calls
<1>4. fifo'[d] = Append(fifo[d], r) /\ \A e \in Drivers \ {d} : fifo'[e] = fifo[e]
  BY <1>1 DEF Submit, TypeOK
<1>5. /\ Places(d)' = Places(d) \union {n + 1} /\ n + 1 \notin Places(d)
      /\ \A i \in Places(d) : RequestAt(d, i)' = RequestAt(d, i)
      /\ RequestAt(d, n + 1)' = r
  BY <1>2, <1>3, <1>4, SentPlaces
<1>6. \A e \in Drivers \ {d} : Places(e)' = Places(e) /\ \A i : RequestAt(e, i)' = RequestAt(e, i)
  BY <1>4, SamePlaces
<1>7. Addressed'
  <2>1. ASSUME NEW e \in Drivers, NEW i \in Places(e)'
        PROVE  driver(RequestAt(e, i)'.target) = e
               /\ MayWrite(RequestAt(e, i)'.cmd, RequestAt(e, i)'.target)
    <3>1. CASE e = d /\ i = n + 1
      BY <1>1, <1>3, <1>5, <3>1
    <3>2. CASE ~(e = d /\ i = n + 1)
      <4>1. i \in Places(e) /\ RequestAt(e, i)' = RequestAt(e, i)
        BY <1>5, <1>6, <2>1, <3>2
      <4> QED
        BY <4>1 DEF Addressed
    <3> QED
      BY <3>1, <3>2
  <2> QED
    BY <2>1 DEF Addressed, driver, MayWrite
<1>8. ASSUME NEW f \in Files
      PROVE  IF file'[f].buzy
             THEN \E i \in Places(driver(f))' :
                    Unanswered(f)' = {i} /\ RequestAt(driver(f), i)'.from = file'[f].request_pid
             ELSE Unanswered(f)' = {}
  <2>1. CASE f = c.fd
    <3>1. file'[f].buzy /\ file'[f].request_pid = t
      BY <1>3, <2>1 DEF Submit, TypeOK, FileState
    <3>2. Unanswered(f) = {}
      BY <1>3, <2>1, BuzyAsked DEF Submit, OneRequest
    <3>3. Unanswered(f)' = {n + 1}
      BY <1>1, <1>3, <1>5, <2>1, <3>2 DEF Unanswered, driver
    <3> QED
      BY <1>1, <1>3, <1>5, <2>1, <3>1, <3>3
  <2>2. CASE f # c.fd
    <3>1. file'[f] = file[f]
      BY <1>3, <2>2 DEF Submit, TypeOK
    <3>2. Unanswered(f)' = Unanswered(f)
      BY <1>3, <1>5, <1>6, <2>2, FilesOf DEF Unanswered, driver
    <3>3. \A i \in Unanswered(f) : /\ i \in Places(driver(f))'
                                   /\ RequestAt(driver(f), i)' = RequestAt(driver(f), i)
      BY <1>5, <1>6, FilesOf DEF Unanswered
    <3> QED
      BY <3>1, <3>2, <3>3, OthersKeep
  <2> QED
    BY <2>1, <2>2
<1> QED
  BY <1>7, <1>8 DEF OneRequest, driver

LEMMA SettleKeeps ==
  ASSUME Requested, NEW t \in Clients, NEW c \in Calls,
         Held(t, c) \/ Complete(t, c) \/ Refuse(t, c), UNCHANGED hand
  PROVE  OneRequest' /\ Addressed'
<1> USE DEF Requested
<1>1. UNCHANGED fifo
  BY DEF Held, Complete, Refuse
<1>2. ASSUME NEW d PROVE Places(d)' = Places(d) /\ \A i : RequestAt(d, i)' = RequestAt(d, i)
  BY <1>1, SamePlaces
<1>3. Addressed'
  BY <1>2 DEF Addressed, driver, MayWrite
<1>4. ASSUME NEW f \in Files
      PROVE  /\ file'[f].buzy = file[f].buzy
             /\ file[f].buzy => file'[f].request_pid = file[f].request_pid
  <2>1. CASE UNCHANGED file
    BY <2>1
  <2>2. CASE Complete(t, c)
    <3>0. c.fd \in Files
      BY DEF Calls
    <3>1. CASE f = c.fd
      BY <2>2, <3>0, <3>1 DEF Complete, Answered, TypeOK, FileState
    <3>2. CASE f # c.fd
      BY <2>2, <3>0, <3>2 DEF Complete, TypeOK
    <3> QED
      BY <3>1, <3>2
  <2> QED
    BY <2>1, <2>2 DEF Held, Refuse
<1>5. ASSUME NEW f \in Files PROVE Unanswered(f)' = Unanswered(f)
  BY <1>2 DEF Unanswered, driver
<1>6. ASSUME NEW f \in Files
      PROVE  IF file'[f].buzy
             THEN \E i \in Places(driver(f))' :
                    Unanswered(f)' = {i} /\ RequestAt(driver(f), i)'.from = file'[f].request_pid
             ELSE Unanswered(f)' = {}
  <2>1. \A i \in Unanswered(f) : /\ i \in Places(driver(f))'
                                 /\ RequestAt(driver(f), i)' = RequestAt(driver(f), i)
    BY <1>2 DEF Unanswered
  <2> QED
    BY <1>4, <1>5, <2>1, OthersKeep
<1> QED
  BY <1>3, <1>6 DEF OneRequest, driver

LEMMA ReceiveKeeps ==
  ASSUME Requested, NEW d \in Drivers, Receive(d)
  PROVE  OneRequest' /\ Addressed' /\ hand'[d] = fifo[d][1] /\ 1 \in Places(d)
<1> USE DEF Requested
<1>1. /\ hand'[d] = Head(fifo[d]) /\ fifo'[d] = Tail(fifo[d])
      /\ \A e \in Drivers \ {d} : hand'[e] = hand[e] /\ fifo'[e] = fifo[e]
      /\ UNCHANGED file
  BY DEF Receive, TypeOK
<1>2. /\ 0 \notin Places(d)
      /\ \A i \in Int : i \in Places(d)' <=> i + 1 \in Places(d)
      /\ \A i \in Places(d)' : i \in Int /\ RequestAt(d, i)' = RequestAt(d, i + 1)
  BY <1>1, ReceivedPlaces DEF Receive
<1>3. \A e \in Drivers \ {d} : Places(e)' = Places(e) /\ \A i : RequestAt(e, i)' = RequestAt(e, i)
  BY <1>1, SamePlaces
<1>4. Addressed'
  <2>1. ASSUME NEW e \in Drivers, NEW i \in Places(e)'
        PROVE  \E j \in Places(e) : RequestAt(e, i)' = RequestAt(e, j)
    BY <1>2, <1>3
  <2> QED
    BY <2>1 DEF Addressed, driver, MayWrite
<1>5. ASSUME NEW f \in Files
      PROVE  IF file'[f].buzy
             THEN \E i \in Places(driver(f))' :
                    Unanswered(f)' = {i} /\ RequestAt(driver(f), i)'.from = file'[f].request_pid
             ELSE Unanswered(f)' = {}
  <2>1. CASE driver(f) = d
    <3>1. \A i \in Int : i \in Unanswered(f)' <=> i + 1 \in Unanswered(f)
      BY <1>2, <2>1 DEF Unanswered, driver
    <3>2. Unanswered(f)' \subseteq Int /\ Unanswered(f) \subseteq Int /\ 0 \notin Unanswered(f)
      BY <1>2, <2>1, PlaceTypes DEF Unanswered, driver
    <3>3. CASE file[f].buzy
      <4>1. PICK j \in Places(d) :
              Unanswered(f) = {j} /\ RequestAt(d, j).from = file[f].request_pid
        BY <2>1, <3>3 DEF OneRequest
      <4>2. PICK i \in Int : j = i + 1
        <5>1. j \in Int
          BY <3>2, <4>1
        <5> QED
          BY <5>1
      <4>3. Unanswered(f)' = {i}
        BY <3>1, <3>2, <4>1, <4>2
      <4>4. i \in Places(d)' /\ RequestAt(d, i)' = RequestAt(d, j)
        BY <1>2, <4>2
      <4> QED
        BY <1>1, <2>1, <3>3, <4>1, <4>3, <4>4
    <3>4. CASE ~file[f].buzy
      BY <1>1, <3>1, <3>2, <3>4 DEF OneRequest
    <3> QED
      BY <3>3, <3>4
  <2>2. CASE driver(f) # d
    <3>1. driver(f) \in Drivers \ {d}
      BY <2>2, FilesOf
    <3>2. Unanswered(f)' = Unanswered(f)
      BY <1>3, <3>1 DEF Unanswered, driver
    <3>3. \A i \in Unanswered(f) : /\ i \in Places(driver(f))'
                                   /\ RequestAt(driver(f), i)' = RequestAt(driver(f), i)
      BY <1>3, <3>1 DEF Unanswered
    <3> QED
      BY <1>1, <3>2, <3>3, OthersKeep
  <2> QED
    BY <2>1, <2>2
<1>6. fifo[d] \in Seq(Requests) /\ fifo[d] # <<>>
  BY DEF Receive, TypeOK
<1>7. hand'[d] = fifo[d][1] /\ 1 \in 1 .. Len(fifo[d])
  BY <1>1, <1>6
<1> QED
  BY <1>4, <1>5, <1>7, PlaceTypes DEF OneRequest, driver

\* The driver answers for the file of the request in its hands.
LEMMA AnswerKeeps ==
  ASSUME Requested, NEW d \in Drivers, NEW len \in Int, NEW from \in Int,
         hand[d] # NoRequest, Respond(hand[d].target, len, from),
         hand' = [hand EXCEPT ![d] = NoRequest]
  PROVE  /\ OneRequest' /\ Addressed'
         /\ \E f \in Files : /\ f = hand[d].target /\ file[f].buzy /\ serving' = f
                             /\ file'[f].request_pid = file[f].request_pid
                             /\ ~file'[f].buzy /\ \A g \in Files \ {f} : file'[g] = file[g]
<1> USE DEF Requested
<1>1. 0 \in Places(d) /\ RequestAt(d, 0) = hand[d] /\ hand[d] \in Requests
  BY PlaceTypes
<1>2. PICK f \in Files : f = hand[d].target /\ driver(f) = d
  BY <1>1 DEF Addressed, Requests
<1>3. 0 \in Unanswered(f)
  BY <1>1, <1>2 DEF Unanswered
<1>4. file[f].buzy /\ Unanswered(f) = {0}
  BY <1>3 DEF OneRequest
<1>5. /\ serving' = f /\ UNCHANGED fifo
      /\ ~file'[f].buzy /\ file'[f].request_pid = file[f].request_pid
      /\ \A g \in Files \ {f} : file'[g] = file[g]
  <2> DEFINE buf == IF len > 0 THEN from ELSE file[f].buf
  <2>1. /\ file' = [file EXCEPT ![f] = [file[f] EXCEPT !.transfer_len = len, !.buzy = FALSE,
                                                     !.buf = buf]]
        /\ serving' = f /\ UNCHANGED fifo
    BY <1>2, <1>4 DEF Respond
  <2>2. file[f] \in FileState /\ DOMAIN file = Files
    BY DEF TypeOK
  <2>3. \A b : LET F == [file[f] EXCEPT !.transfer_len = len, !.buzy = FALSE, !.buf = b]
               IN ~F.buzy /\ F.request_pid = file[f].request_pid
    BY <2>2 DEF FileState
  <2> QED
    BY <2>1, <2>2, <2>3
<1>6. Places(d)' = Places(d) \ {0} /\ \A i \in Places(d)' : RequestAt(d, i)' = RequestAt(d, i)
  BY <1>5, AnsweredPlaces DEF TypeOK
<1>7. \A e \in Drivers \ {d} : Places(e)' = Places(e) /\ \A i : RequestAt(e, i)' = RequestAt(e, i)
  BY <1>5, SamePlaces DEF TypeOK
<1>8. Addressed'
  <2>1. ASSUME NEW e \in Drivers, NEW i \in Places(e)'
        PROVE  i \in Places(e) /\ RequestAt(e, i)' = RequestAt(e, i)
    BY <1>6, <1>7
  <2> QED
    BY <2>1 DEF Addressed, driver, MayWrite
<1>9. ASSUME NEW g \in Files
      PROVE  IF file'[g].buzy
             THEN \E i \in Places(driver(g))' :
                    Unanswered(g)' = {i} /\ RequestAt(driver(g), i)'.from = file'[g].request_pid
             ELSE Unanswered(g)' = {}
  <2>1. CASE g = f
    BY <1>2, <1>4, <1>5, <1>6, <2>1 DEF Unanswered, driver
  <2>2. CASE g # f
    <3>1. 0 \in Places(driver(g)) /\ driver(g) = d => RequestAt(d, 0).target # g
      BY <1>1, <1>2, <2>2
    <3>2. Unanswered(g)' = Unanswered(g)
      BY <1>6, <1>7, <3>1, FilesOf DEF Unanswered, driver
    <3>3. \A i \in Unanswered(g) : /\ i \in Places(driver(g))'
                                   /\ RequestAt(driver(g), i)' = RequestAt(driver(g), i)
      BY <1>6, <1>7, <3>1, FilesOf DEF Unanswered
    <3> QED
      BY <1>5, <2>2, <3>2, <3>3, OthersKeep
  <2> QED
    BY <2>1, <2>2
<1> QED
  BY <1>2, <1>4, <1>5, <1>8, <1>9 DEF OneRequest, driver
-----------------------------------------------------------------------------
(* The lists of waiting tasks *)

LEMMA RemovedAt ==
  ASSUME NEW S, NEW s \in Seq(S), NEW k \in 1 .. Len(s)
  PROVE  /\ RemoveAt(s, k) \in Seq(S) /\ Len(RemoveAt(s, k)) = Len(s) - 1
         /\ \A i \in 1 .. Len(s) - 1 :
              RemoveAt(s, k)[i] = IF i < k THEN s[i] ELSE s[i + 1]
<1> DEFINE a == SubSeq(s, 1, k - 1)
           b == SubSeq(s, k + 1, Len(s))
<1>1. /\ a \in Seq(S) /\ Len(a) = k - 1 /\ \A i \in 1 .. k - 1 : a[i] = s[i]
      /\ b \in Seq(S) /\ Len(b) = Len(s) - k /\ \A i \in 1 .. Len(s) - k : b[i] = s[k + i]
  OBVIOUS
<1>2. RemoveAt(s, k) = a \o b
  BY DEF RemoveAt
<1> HIDE DEF a, b
<1>3. /\ a \o b \in Seq(S) /\ Len(a \o b) = Len(s) - 1
      /\ \A i \in 1 .. Len(s) - 1 : (a \o b)[i] = IF i <= k - 1 THEN a[i] ELSE b[i - (k - 1)]
  <2>1. /\ a \o b \in Seq(S) /\ Len(a \o b) = Len(a) + Len(b)
        /\ \A i \in 1 .. Len(a) + Len(b) :
             (a \o b)[i] = IF i <= Len(a) THEN a[i] ELSE b[i - Len(a)]
    BY <1>1, ConcatProperties
  <2>2. Len(a) + Len(b) = Len(s) - 1 /\ Len(a) = k - 1
    BY <1>1
  <2> QED
    BY <2>1, <2>2
<1>4. ASSUME NEW i \in 1 .. Len(s) - 1
      PROVE  (a \o b)[i] = IF i < k THEN s[i] ELSE s[i + 1]
  <2>1. CASE i < k
    BY <1>1, <1>3, <2>1
  <2>2. CASE ~(i < k)
    <3>1. i - (k - 1) \in 1 .. Len(s) - k /\ k + (i - (k - 1)) = i + 1
      BY <2>2
    <3> QED
      BY <1>1, <1>3, <2>2, <3>1
  <2> QED
    BY <2>1, <2>2
<1> QED
  BY <1>2, <1>3, <1>4

\* The task a retry is about
LEMMA Visited ==
  ASSUME TypeOK, Listed, Visit
  PROVE  /\ serving \in Files /\ Waiter \in Clients
         /\ at \in 1 .. Len(waiting[serving]) /\ waiting[serving] \in Seq(Clients)
         /\ call[Waiter] \in Calls /\ call[Waiter].fd = serving
<1>1. serving \in Files /\ at \in Nat \ {0} /\ at <= Len(waiting[serving])
  BY FilesOf DEF Visit, TypeOK
<1>2. waiting[serving] \in Seq(Clients)
  BY <1>1 DEF TypeOK
<1>3. at \in DOMAIN waiting[serving] /\ at \in 1 .. Len(waiting[serving])
  BY <1>1, <1>2
<1> QED
  BY <1>1, <1>2, <1>3 DEF Listed, Waiter

LEMMA SyscallListed ==
  ASSUME TypeOK, Listed, NEW t \in Clients, NEW c \in Calls, Syscall(t, c)
  PROVE  Listed'
<1>1. CASE UNCHANGED <<call, waiting>>
  BY <1>1 DEF Listed
<1>2. CASE call' = [call EXCEPT ![t] = c] /\ waiting' = [waiting EXCEPT ![c.fd] = Append(@, t)]
  <2>1. ASSUME NEW f \in Files, NEW i \in DOMAIN waiting[f]
        PROVE  waiting[f][i] # t /\ call'[waiting[f][i]] = call[waiting[f][i]]
    <3>1. waiting[f] \in Seq(Clients)
      BY DEF TypeOK
    <3>2. waiting[f][i] \in Clients /\ call[waiting[f][i]] \in Calls
      BY <3>1 DEF Listed
    <3>3. call[t] = NoCall
      BY DEF Syscall
    <3> QED
      BY <1>2, <3>2, <3>3, Kinds DEF TypeOK
  <2>2. ASSUME NEW f \in Files, NEW i \in DOMAIN waiting'[f]
        PROVE  /\ call'[waiting'[f][i]] \in Calls /\ call'[waiting'[f][i]].fd = f
               /\ \A j \in DOMAIN waiting'[f] : waiting'[f][j] = waiting'[f][i] => j = i
    <3>1. CASE f # c.fd
      <4>1. waiting'[f] = waiting[f]
        BY <1>2, <3>1 DEF TypeOK
      <4> QED
        BY <2>1, <2>2, <4>1 DEF Listed
    <3>2. CASE f = c.fd
      <4>1. PICK s \in Seq(Clients) : s = waiting[f]
        BY DEF TypeOK
      <4>2. waiting'[f] = Append(s, t)
        BY <1>2, <3>2, <4>1 DEF TypeOK
      <4>3. /\ DOMAIN waiting'[f] = 1 .. Len(s) + 1 /\ DOMAIN s = 1 .. Len(s) /\ Len(s) \in Nat
            /\ waiting'[f][Len(s) + 1] = t /\ \A k \in 1 .. Len(s) : waiting'[f][k] = s[k]
        BY <4>1, <4>2
      <4>4. call'[t] = c
        BY <1>2 DEF TypeOK
      <4>5. \A k \in 1 .. Len(s) : s[k] # t /\ call'[s[k]] = call[s[k]]
        BY <2>1, <4>1, <4>3
      <4>6. \A k \in 1 .. Len(s) + 1 : k = Len(s) + 1 \/ k \in 1 .. Len(s)
        BY <4>3
      <4>7. CASE i = Len(s) + 1
        BY <3>2, <4>3, <4>4, <4>5, <4>6, <4>7
      <4>8. CASE i \in 1 .. Len(s)
        <5>1. call[s[i]] \in Calls /\ call[s[i]].fd = f
              /\ \A j \in 1 .. Len(s) : s[j] = s[i] => j = i
          BY <4>1, <4>3, <4>8 DEF Listed
        <5> QED
          BY <4>3, <4>5, <4>6, <4>8, <5>1
      <4> QED
        BY <2>2, <4>3, <4>6, <4>7, <4>8
    <3> QED
      BY <3>1, <3>2
  <2> QED
    BY <2>2 DEF Listed, Calls
<1> QED
  BY <1>1, <1>2 DEF Syscall

LEMMA RetryEndsListed ==
  ASSUME TypeOK, Listed, RetryEnds
  PROVE  Listed' /\ waiting' \in [Files -> Seq(Clients)] /\ call' \in [Clients -> Calls \union {NoCall}]
<1>1. PICK w \in Clients, h \in Files, k \in Nat :
        w = Waiter /\ h = serving /\ k = at /\ k \in 1 .. Len(waiting[h])
  BY Visited DEF RetryEnds
<1>2. call' = [call EXCEPT ![w] = NoCall] /\ waiting' = [waiting EXCEPT ![h] = RemoveAt(@, k)]
  BY <1>1 DEF RetryEnds
<1>3. waiting[h] \in Seq(Clients) /\ waiting[h][k] = w /\ call[w] \in Calls /\ call[w].fd = h
  BY <1>1, Visited DEF RetryEnds, Waiter
<1>4. PICK s \in Seq(Clients) : s = waiting'[h] /\ Len(s) = Len(waiting[h]) - 1
        /\ \A i \in 1 .. Len(waiting[h]) - 1 :
             s[i] = IF i < k THEN waiting[h][i] ELSE waiting[h][i + 1]
  <2>1. waiting'[h] = RemoveAt(waiting[h], k)
    BY <1>2 DEF TypeOK
  <2> QED
    BY <1>1, <1>3, <2>1, RemovedAt
<1>5. waiting' \in [Files -> Seq(Clients)]
  BY <1>2, <1>4 DEF TypeOK
<1>6. call' \in [Clients -> Calls \union {NoCall}]
  BY <1>2 DEF TypeOK
<1>7. \A x \in Clients \ {w} : call'[x] = call[x]
  BY <1>2 DEF TypeOK
<1>8. ASSUME NEW f \in Files, NEW i \in DOMAIN waiting'[f]
      PROVE  /\ call'[waiting'[f][i]] \in Calls /\ call'[waiting'[f][i]].fd = f
             /\ \A j \in DOMAIN waiting'[f] : waiting'[f][j] = waiting'[f][i] => j = i
  <2>1. CASE f # h
    <3>1. waiting'[f] = waiting[f] /\ waiting[f] \in Seq(Clients)
      BY <1>2, <2>1 DEF TypeOK
    <3>2. /\ waiting[f][i] \in Clients /\ call[waiting[f][i]] \in Calls
          /\ call[waiting[f][i]].fd = f
          /\ \A j \in DOMAIN waiting[f] : waiting[f][j] = waiting[f][i] => j = i
      BY <1>8, <3>1 DEF Listed
    <3>3. waiting[f][i] # w
      BY <1>3, <2>1, <3>2
    <3> QED
      BY <1>7, <3>1, <3>2, <3>3
  <2>2. CASE f = h
    <3> DEFINE q == waiting[h]
               old(m) == IF m < k THEN m ELSE m + 1
    <3>1. DOMAIN q = 1 .. Len(q) /\ Len(q) \in Nat /\ DOMAIN waiting'[f] = 1 .. Len(q) - 1
      BY <1>3, <1>4, <2>2
    <3>2. \A m \in 1 .. Len(q) - 1 : /\ old(m) \in 1 .. Len(q) /\ old(m) # k
                                     /\ waiting'[f][m] = q[old(m)]
      <4>1. k \in 1 .. Len(q) /\ Len(q) \in Nat
        BY <1>1, <3>1
      <4>2. \A m \in 1 .. Len(q) - 1 : waiting'[f][m] = IF m < k THEN q[m] ELSE q[m + 1]
        BY <1>4, <2>2
      <4> HIDE DEF q
      <4>3. \A m \in 1 .. Len(q) - 1 : old(m) \in 1 .. Len(q) /\ old(m) # k
        BY <4>1
      <4>4. \A m \in 1 .. Len(q) - 1 : waiting'[f][m] = q[old(m)]
        BY <4>1, <4>2
      <4> QED
        BY <4>3, <4>4
    <3>3. \A m, n \in 1 .. Len(q) - 1 : old(m) = old(n) => m = n
      <4>1. k \in Nat
        BY <1>1
      <4> QED
        BY <3>1, <4>1
    <3> HIDE DEF old, q
    <3>4. \A m \in 1 .. Len(q) :
            /\ q[m] \in Clients /\ call[q[m]] \in Calls /\ call[q[m]].fd = f
            /\ \A j \in 1 .. Len(q) : q[j] = q[m] => j = m
      BY <1>3, <2>2, <3>1 DEF Listed, q
    <3>5. k \in 1 .. Len(q) /\ q[k] = w
      BY <1>1, <1>3 DEF q
    <3>6. q[old(i)] # w
      BY <1>8, <3>1, <3>2, <3>4, <3>5
    <3> QED
      BY <1>7, <1>8, <3>1, <3>2, <3>3, <3>4, <3>6
  <2> QED
    BY <2>1, <2>2
<1> QED
  BY <1>5, <1>6, <1>8 DEF Listed, Calls
-----------------------------------------------------------------------------
(* The invariant is kept by each action *)

ClientTypes ==
  /\ FileTypes
  /\ waiting \in [Files -> Seq(Clients)]
  /\ call \in [Clients -> Calls \union {NoCall}]

LEMMA InitIInv == Init => IInv
<1> SUFFICES ASSUME Init PROVE IInv
  OBVIOUS
<1>1. TypeOK
  <2>1. [request_pid |-> Nobody, buzy |-> FALSE, pos |-> 0, buf |-> NoBytes,
         transfer_len |-> 0] \in FileState
    BY DEF FileState, NoBytes
  <2>2. file \in [Files -> FileState]
    BY <2>1 DEF Init
  <2>3. waiting \in [Files -> Seq(Clients)] /\ fifo \in [Drivers -> Seq(Requests)]
    BY DEF Init
  <2>4. Result(-1, NoBytes) \in [value : Int, from : Int]
    BY DEF Result, NoBytes
  <2>5. ret \in [Clients -> [value : Int, from : Int]]
    BY <2>4 DEF Init
  <2>6. /\ call \in [Clients -> Calls \union {NoCall}]
        /\ hand \in [Drivers -> Requests \union {NoRequest}]
    BY DEF Init
  <2> QED
    <3>1. /\ step \in {"recv", "seek", "read", "answer"} /\ target \in Reg \union {NoFile}
          /\ serving \in Files \union {NoFile} /\ at \in Nat \ {0}
      BY DEF Init
    <3> QED
      BY <2>2, <2>3, <2>5, <2>6, <3>1 DEF TypeOK
<1>2. Listed
  <2>1. \A f \in Files : DOMAIN waiting[f] = {}
    BY DEF Init
  <2> QED
    BY <2>1 DEF Listed
<1>3. Permitted
  BY Kinds DEF Init, Permitted
<1>4. \A d \in Drivers : Places(d) = {}
  BY PlaceTypes, <1>1 DEF Init, Places, RequestAt
<1>5. Addressed
  BY <1>4 DEF Addressed
<1>6. AtRequest
  BY FilesOf DEF Init, AtRequest
<1>7. OneRequest
  <2>1. \A f \in Files : Unanswered(f) = {} /\ file[f].buzy = FALSE
    BY <1>4, FilesOf DEF Init, Unanswered
  <2> QED
    BY <2>1 DEF OneRequest
<1> QED
  BY <1>1, <1>2, <1>3, <1>5, <1>6, <1>7 DEF IInv

LEMMA SyscallKeeps ==
  ASSUME IInv, NEW t \in Clients, NEW c \in Calls, MayWrite(c.op, c.fd),
         Syscall(t, c), UNCHANGED hand
  PROVE  /\ ClientTypes' /\ UNCHANGED <<serving, at>>
         /\ Listed' /\ Permitted' /\ Addressed' /\ OneRequest'
<1> USE DEF IInv
<1>1. ClientTypes' /\ UNCHANGED <<serving, at>>
  BY SyscallTypes DEF ClientTypes
<1>2. Listed'
  BY SyscallListed
<1>3. Permitted'
  <2>1. ASSUME NEW x \in Clients, call'[x] \in Calls
        PROVE  MayWrite(call'[x].op, call'[x].fd)
    <3>1. call'[x] = call[x] \/ call'[x] = c
      BY DEF Syscall, TypeOK
    <3> QED
      BY <2>1, <3>1 DEF Permitted
  <2> QED
    BY <2>1 DEF Permitted, MayWrite, Calls
<1>4. Addressed' /\ OneRequest'
  BY SubmitKeeps, SettleKeeps DEF Syscall, Requested
<1> QED
  BY <1>1, <1>2, <1>3, <1>4

LEMMA UserCallKeeps ==
  ASSUME ReadOnlyFiles, IInv, NEW t \in Users, NEW c \in Programs[t], UserCall(t, c)
  PROVE  IInv'
<1>1. t \in Clients /\ c \in Calls /\ MayWrite(c.op, c.fd)
  BY ProgramCalls DEF ReadOnlyFiles, MayWrite
<1>2. Syscall(t, c) /\ UNCHANGED driverVars
  BY DEF UserCall
<1>3. /\ ClientTypes' /\ UNCHANGED <<serving, at>>
      /\ Listed' /\ Permitted' /\ Addressed' /\ OneRequest'
  BY <1>1, <1>2, SyscallKeeps DEF driverVars
<1>4. TypeOK' /\ AtRequest'
  BY <1>2, <1>3 DEF IInv, TypeOK, AtRequest, driverVars, ClientTypes, FileTypes
<1> QED
  BY <1>3, <1>4 DEF IInv

LEMMA RetryBlocksKeeps ==
  ASSUME IInv, RetryBlocks
  PROVE  IInv'
<1> USE DEF IInv
<1>1. PICK w \in Clients, c \in Calls : w = Waiter /\ c = call[w]
  BY Visited DEF RetryBlocks
<1>2. Submit(w, c) \/ Held(w, c)
  BY <1>1 DEF RetryBlocks
<1>3. MayWrite(c.op, c.fd)
  BY <1>1 DEF Permitted
<1>4. UNCHANGED <<waiting, call, ret, serving, hand, step, target>> /\ at' = at + 1
  BY DEF RetryBlocks, driverVars
<1>5. FileTypes'
  BY <1>2, <1>4, SubmitTypes
<1>6. TypeOK'
  BY <1>4, <1>5 DEF TypeOK, FileTypes
<1>7. OneRequest' /\ Addressed'
  BY <1>2, <1>3, <1>4, SubmitKeeps, SettleKeeps DEF Requested
<1>8. Listed' /\ Permitted' /\ AtRequest'
  BY <1>4 DEF Listed, Permitted, AtRequest, MayWrite, Calls
<1> QED
  BY <1>6, <1>7, <1>8

LEMMA RetryEndsKeeps ==
  ASSUME IInv, RetryEnds
  PROVE  IInv'
<1> USE DEF IInv
<1>1. PICK w \in Clients, c \in Calls : w = Waiter /\ c = call[w]
  BY Visited DEF RetryEnds
<1>2. Complete(w, c) \/ Refuse(w, c)
  BY <1>1 DEF RetryEnds
<1>3. UNCHANGED <<serving, at, hand, step, target>> /\ call' = [call EXCEPT ![w] = NoCall]
  BY <1>1 DEF RetryEnds, driverVars
<1>4. FileTypes'
  BY <1>2, CompleteTypes
<1>5. /\ Listed' /\ waiting' \in [Files -> Seq(Clients)]
      /\ call' \in [Clients -> Calls \union {NoCall}]
  BY RetryEndsListed
<1>6. TypeOK'
  BY <1>3, <1>4, <1>5 DEF TypeOK, FileTypes
<1>7. OneRequest' /\ Addressed'
  BY <1>2, <1>3, SettleKeeps DEF Requested
<1>8. Permitted'
  <2>1. \A x \in Clients : call'[x] = call[x] \/ call'[x] = NoCall
    BY <1>3 DEF TypeOK
  <2> QED
    BY <2>1, Kinds DEF Permitted, MayWrite, Calls
<1>9. AtRequest'
  BY <1>3 DEF AtRequest
<1> QED
  BY <1>5, <1>6, <1>7, <1>8, <1>9

\* Steps that touch neither the files nor the clients nor the requests
LEMMA IdleKeeps ==
  ASSUME IInv, UNCHANGED <<file, waiting, fifo, call, ret, hand, step, target>>,
         serving' \in Files \union {NoFile}, at' \in Nat \ {0}
  PROVE  IInv'
<1> USE DEF IInv
<1>1. TypeOK' /\ Listed' /\ Permitted' /\ AtRequest'
  BY DEF TypeOK, Listed, Permitted, AtRequest, MayWrite, Calls
<1>2. ASSUME NEW d PROVE Places(d)' = Places(d) /\ \A i : RequestAt(d, i)' = RequestAt(d, i)
  BY SamePlaces
<1>3. Addressed' /\ OneRequest'
  BY <1>2 DEF Addressed, OneRequest, Unanswered, driver, MayWrite
<1> QED
  BY <1>1, <1>3

\* The request in a driver's hands
LEMMA InHand ==
  ASSUME TypeOK, Addressed, NEW d \in Drivers, hand[d] # NoRequest
  PROVE  /\ hand[d] \in Requests /\ hand[d].target \in Files
         /\ hand[d].cmd \in {"read", "write", "seek"} /\ hand[d].size \in Int /\ hand[d].pos \in Int
         /\ driver(hand[d].target) = d /\ MayWrite(hand[d].cmd, hand[d].target)
         /\ d = romfs => hand[d].target \in Reg
         /\ d = romdev => hand[d].target = rom0
<1>1. 0 \in Places(d) /\ RequestAt(d, 0) = hand[d] /\ hand[d] \in Requests
  BY PlaceTypes
<1>2. /\ hand[d].target \in Files /\ hand[d].cmd \in {"read", "write", "seek"}
      /\ hand[d].size \in Int /\ hand[d].pos \in Int
  BY <1>1 DEF Requests
<1>3. driver(hand[d].target) = d /\ MayWrite(hand[d].cmd, hand[d].target)
  BY <1>1 DEF Addressed
<1> QED
  BY <1>1, <1>2, <1>3, FilesOf DEF Files, driver

LEMMA ReadBounds ==
  ASSUME NEW f \in Files, NEW r \in Requests
  PROVE  /\ ReadStart(f, r) \in Int /\ ReadEnd(f, r) \in Int
         /\ SeekTo(r, Length[f]) \in Int /\ Start[f] \in Int
<1>1. r.pos \in Int /\ r.size \in Int /\ Length[f] \in Int /\ Start[f] \in Int
  BY FilesAssumption DEF Requests
<1> QED
  BY <1>1 DEF ReadStart, ReadEnd, SeekTo

LEMMA ReceiveTypes ==
  ASSUME TypeOK, NEW d \in Drivers, Receive(d)
  PROVE  /\ UNCHANGED <<file, waiting, call, ret, serving, at>>
         /\ fifo' \in [Drivers -> Seq(Requests)]
         /\ hand' \in [Drivers -> Requests \union {NoRequest}]
         /\ Head(fifo[d]) \in Requests /\ hand'[d] = Head(fifo[d])
<1>1. fifo[d] \in Seq(Requests) /\ fifo[d] # <<>>
  BY DEF TypeOK, Receive
<1>2. Head(fifo[d]) \in Requests /\ Tail(fifo[d]) \in Seq(Requests)
  BY <1>1
<1> QED
  BY <1>2 DEF Receive, TypeOK

LEMMA RomdevReceiveKeeps ==
  ASSUME IInv, RomdevReceive
  PROVE  IInv'
<1> USE DEF IInv
<1>1. Receive(romdev) /\ UNCHANGED <<step, target>>
  BY DEF RomdevReceive
<1>2. OneRequest' /\ Addressed'
  BY <1>1, ReceiveKeeps, FilesOf DEF Requested
<1>3. TypeOK'
  BY <1>1, ReceiveTypes, FilesOf DEF TypeOK
<1>4. UNCHANGED <<waiting, call>> /\ hand'[romfs] = hand[romfs]
  BY <1>1, FilesOf DEF Receive, TypeOK
<1>5. Listed' /\ Permitted' /\ AtRequest'
  BY <1>1, <1>4 DEF Listed, Permitted, AtRequest, MayWrite, Calls, NoRequest
<1> QED
  BY <1>2, <1>3, <1>5

LEMMA RomfsReceiveKeeps ==
  ASSUME IInv, RomfsReceive
  PROVE  IInv'
<1> USE DEF IInv
<1> DEFINE r == Head(fifo[romfs])
<1>1. Receive(romfs) /\ romfs \in Drivers
  BY FilesOf DEF RomfsReceive
<1>2. OneRequest' /\ Addressed' /\ UNCHANGED <<waiting, call>>
  BY <1>1, ReceiveKeeps DEF Requested, Receive
<1>3. r \in Requests /\ hand'[romfs] = r
  BY <1>1, ReceiveTypes
<1>4. r # NoRequest /\ r.target \in Reg /\ r.cmd # "write"
  <2>1. 0 \in Places(romfs)' /\ RequestAt(romfs, 0)' = r
    <3>1. r # NoRequest
      BY <1>3, Kinds
    <3>2. RequestAt(romfs, 0)' = r
      BY <1>3 DEF RequestAt
    <3>3. Len(fifo'[romfs]) \in Nat
      <4>1. fifo' \in [Drivers -> Seq(Requests)]
        BY <1>1, ReceiveTypes
      <4>2. fifo'[romfs] \in Seq(Requests)
        BY <1>1, <4>1
      <4> QED
        BY <4>2
    <3>4. 0 \in 0 .. Len(fifo'[romfs])
      BY <3>3
    <3> QED
      BY <3>1, <3>2, <3>4 DEF Places, NoRequest
  <2>2. driver(r.target) = romfs /\ MayWrite(r.cmd, r.target)
    BY <1>1, <1>2, <2>1 DEF Addressed, driver, MayWrite
  <2> QED
    BY <1>3, <2>2, FilesOf, Kinds DEF Requests, Files, driver, MayWrite
<1>5. step' = (IF r.cmd = "read" THEN "seek" ELSE "answer") /\ target' = r.target
  BY <1>4 DEF RomfsReceive
<1>6. TypeOK'
  BY <1>1, <1>4, <1>5, ReceiveTypes DEF TypeOK
<1>7. AtRequest'
  BY <1>3, <1>4, <1>5 DEF AtRequest, NoRequest
<1>8. Listed' /\ Permitted'
  BY <1>2 DEF Listed, Permitted, MayWrite, Calls
<1> QED
  BY <1>2, <1>6, <1>7, <1>8

\* The system calls of romfs_server
LEMMA RomfsCalls ==
  ASSUME IInv, RomfsSeek \/ RomfsRead
  PROVE  \E c \in Calls : c.fd = rom0 /\ MayWrite(c.op, c.fd) /\ Syscall(romfs, c)
<1> USE DEF IInv
<1> DEFINE r == hand[romfs]
<1>1. hand[romfs] # NoRequest /\ romfs \in Drivers
  BY FilesOf DEF AtRequest, RomfsSeek, RomfsRead
<1>2. r \in Requests /\ r.target \in Files
  BY <1>1, InHand
<1>3. /\ ReadStart(r.target, r) \in Int /\ ReadEnd(r.target, r) \in Int /\ Start[r.target] \in Int
  BY <1>2, ReadBounds
<1>4. CASE RomfsSeek
  <2> DEFINE n == Start[r.target] + ReadStart(r.target, r)
  <2>1. n \in Int
    BY <1>3
  <2>2. Call("seek", rom0, n, SEEK_SET) \in Calls
    BY <2>1, FilesOf DEF Call, Calls, SEEK_SET
  <2>3. Syscall(romfs, Call("seek", rom0, n, SEEK_SET))
    BY <1>4 DEF RomfsSeek
  <2> QED
    BY <2>2, <2>3 DEF MayWrite, Call
<1>5. CASE RomfsRead
  <2> DEFINE n == ReadEnd(r.target, r) - ReadStart(r.target, r)
  <2>1. n \in Int
    BY <1>3
  <2>2. Call("read", rom0, n, 0) \in Calls
    BY <2>1, FilesOf DEF Call, Calls
  <2>3. Syscall(romfs, Call("read", rom0, n, 0))
    BY <1>5 DEF RomfsRead
  <2> QED
    BY <2>2, <2>3 DEF MayWrite, Call
<1> QED
  BY <1>4, <1>5

LEMMA RomfsCallKeeps ==
  ASSUME IInv, RomfsSeek \/ RomfsRead
  PROVE  IInv'
<1>1. PICK c \in Calls : MayWrite(c.op, c.fd) /\ Syscall(romfs, c)
  BY RomfsCalls
<1>2. UNCHANGED <<hand, target>> /\ step' \in {"read", "answer"} /\ step # "recv"
  BY DEF RomfsSeek, RomfsRead
<1>3. /\ ClientTypes' /\ UNCHANGED <<serving, at>>
      /\ Listed' /\ Permitted' /\ Addressed' /\ OneRequest'
  BY <1>1, <1>2, FilesOf, SyscallKeeps
<1>4. TypeOK' /\ AtRequest'
  BY <1>2, <1>3 DEF IInv, TypeOK, AtRequest, ClientTypes, FileTypes
<1> QED
  BY <1>3, <1>4 DEF IInv

\* What an answer of either driver does
LEMMA AnswerTypes ==
  ASSUME IInv, NEW d \in Drivers, NEW len \in Int, NEW from \in Int,
         hand[d] # NoRequest, Respond(hand[d].target, len, from),
         hand' = [hand EXCEPT ![d] = NoRequest],
         d = romdev => UNCHANGED step, d = romfs => step' = "recv", UNCHANGED target
  PROVE  IInv'
<1> USE DEF IInv
<1>1. OneRequest' /\ Addressed'
  BY AnswerKeeps DEF Requested
<1>2. /\ FileTypes' /\ UNCHANGED <<waiting, call>>
      /\ serving' \in Files \union {NoFile} /\ at' \in Nat \ {0}
  BY RespondTypes
<1>3. step' \in {"recv", "seek", "read", "answer"} /\ (d = romdev \/ d = romfs)
  BY DEF TypeOK, Drivers
<1>4. hand' \in [Drivers -> Requests \union {NoRequest}]
  BY DEF TypeOK
<1>5. TypeOK'
  BY <1>2, <1>3, <1>4 DEF TypeOK, ClientTypes, FileTypes
<1>6. Listed' /\ Permitted'
  BY <1>2 DEF Listed, Permitted, MayWrite, Calls
<1>7. AtRequest'
  BY <1>3, FilesOf DEF AtRequest, TypeOK, NoRequest
<1> QED
  BY <1>1, <1>5, <1>6, <1>7

\* Each driver answers for the file of the request in its hands.
LEMMA RomdevResponds ==
  ASSUME IInv, RomdevAnswer
  PROVE  /\ hand[romdev] # NoRequest /\ hand' = [hand EXCEPT ![romdev] = NoRequest]
         /\ \E len, from \in Int : Respond(hand[romdev].target, len, from)
<1> DEFINE r == hand[romdev]
<1>1. r # NoRequest /\ hand' = [hand EXCEPT ![romdev] = NoRequest]
  BY DEF RomdevAnswer
<1>2. r \in Requests /\ r.target = rom0 /\ rom0 \in Files
  BY <1>1, InHand, FilesOf DEF IInv
<1>3. /\ ReadStart(rom0, r) \in Int /\ ReadEnd(rom0, r) \in Int /\ SeekTo(r, Length[rom0]) \in Int
  BY <1>2, ReadBounds
<1>4. \E len, from \in Int : Respond(r.target, len, from)
  <2>1. CASE Respond(rom0, ReadEnd(rom0, r) - ReadStart(rom0, r), ReadStart(rom0, r))
    <3>1. ReadEnd(rom0, r) - ReadStart(rom0, r) \in Int
      BY <1>3
    <3> QED
      BY <1>2, <1>3, <2>1, <3>1
  <2>2. CASE Respond(rom0, SeekTo(r, Length[rom0]), NoBytes) \/ Respond(rom0, -1, NoBytes)
    BY <1>2, <1>3, <2>2 DEF NoBytes
  <2> QED
    BY <2>1, <2>2 DEF RomdevAnswer
<1> QED
  BY <1>1, <1>4

LEMMA RomfsResponds ==
  ASSUME IInv, RomfsAnswer
  PROVE  /\ hand[romfs] # NoRequest /\ hand' = [hand EXCEPT ![romfs] = NoRequest]
         /\ \E len, from \in Int : Respond(hand[romfs].target, len, from)
<1> DEFINE r == hand[romfs]
<1>1. step = "answer" /\ hand' = [hand EXCEPT ![romfs] = NoRequest]
  BY DEF RomfsAnswer
<1>2. r # NoRequest /\ target = r.target
  BY <1>1 DEF IInv, AtRequest
<1>3. r \in Requests /\ r.target \in Files
  BY <1>2, InHand, FilesOf DEF IInv
<1>4. SeekTo(r, Length[target]) \in Int
  BY <1>2, <1>3, ReadBounds
<1>5. ret[romfs].value \in Int /\ ret[romfs].from \in Int
  BY FilesOf DEF IInv, TypeOK
<1>6. \E len, from \in Int : Respond(r.target, len, from)
  <2>1. CASE Respond(target, ret[romfs].value, ret[romfs].from)
    BY <1>2, <1>5, <2>1
  <2>2. CASE Respond(target, SeekTo(r, Length[target]), NoBytes) \/ Respond(target, -1, NoBytes)
    BY <1>2, <1>4, <2>2 DEF NoBytes
  <2> QED
    BY <2>1, <2>2 DEF RomfsAnswer
<1> QED
  BY <1>1, <1>2, <1>6

LEMMA AnswersKeep ==
  ASSUME IInv, RomdevAnswer \/ RomfsAnswer
  PROVE  IInv'
<1>1. CASE RomdevAnswer
  BY <1>1, RomdevResponds, AnswerTypes, FilesOf DEF RomdevAnswer
<1>2. CASE RomfsAnswer
  BY <1>2, RomfsResponds, AnswerTypes, FilesOf DEF RomfsAnswer
<1> QED
  BY <1>1, <1>2

LEMMA StepKeeps ==
  ASSUME ReadOnlyFiles, IInv, [Next]_vars
  PROVE  IInv'
<1>1. CASE UserStep
  BY <1>1, UserCallKeeps DEF UserStep
<1>2. CASE Retry
  <2>1. CASE EndServe
    BY <2>1, IdleKeeps DEF EndServe, driverVars
  <2> QED
    BY <1>2, <2>1, RetryBlocksKeeps, RetryEndsKeeps DEF Retry
<1>3. CASE Romdev
  BY <1>3, RomdevReceiveKeeps, AnswersKeep DEF Romdev
<1>4. CASE Romfs
  BY <1>4, RomfsReceiveKeeps, RomfsCallKeeps, AnswersKeep DEF Romfs
<1>5. CASE UNCHANGED vars
  BY <1>5, IdleKeeps DEF vars, IInv, TypeOK
<1> QED
  BY <1>1, <1>2, <1>3, <1>4, <1>5 DEF Next

LEMMA Inductive ==
  ASSUME ReadOnlyFiles
  PROVE  Spec => []IInv
<1>1. IInv /\ [Next]_vars => IInv'
  BY StepKeeps
<1> QED
  BY <1>1, InitIInv, PTL DEF Spec

\* The state of files, requests and calls keeps its types (block.c, regfile.c,
\* romdev_driver, romfs_server), for any tasks, files and programs that read
\* and seek.
THEOREM FileTypeCorrect ==
  ASSUME ReadOnlyFiles
  PROVE  Spec => []TypeOK
<1>1. IInv => TypeOK
  BY DEF IInv
<1> QED
  BY <1>1, Inductive, PTL

\* A request is neither lost, sent twice nor answered twice, and a driver's
\* answer is never refused (request_pid and buzy of block.c and regfile.c),
\* whatever the number of tasks and files and the room in the FIFOs.
THEOREM RequestsAnsweredOnce ==
  ASSUME ReadOnlyFiles
  PROVE  Spec => []OneRequest
<1>1. IInv => OneRequest
  BY DEF IInv
<1> QED
  BY <1>1, Inductive, PTL
-----------------------------------------------------------------------------
(* The tasks on each list are served in turn *)

\* HeadAsked, as a retry or a system call changes it
LEMMA SubmittedFile ==
  ASSUME TypeOK, NEW t \in Clients, NEW c \in Calls, Submit(t, c)
  PROVE  /\ c.fd \in Files /\ file'[c.fd].request_pid = t /\ file'[c.fd].buzy
         /\ \A g \in Files \ {c.fd} : file'[g] = file[g]
BY DEF Submit, TypeOK, FileState, Calls

LEMMA CompletedFile ==
  ASSUME TypeOK, NEW t \in Clients, NEW c \in Calls, Complete(t, c)
  PROVE  /\ c.fd \in Files /\ file'[c.fd].request_pid = Nobody
         /\ file[c.fd].request_pid = t /\ ~file[c.fd].buzy /\ ~file'[c.fd].buzy
         /\ \A g \in Files \ {c.fd} : file'[g] = file[g]
<1>1. c.fd \in Files /\ file[c.fd] \in FileState
  BY DEF TypeOK, Calls
<1>2. file' = [file EXCEPT ![c.fd] = [file[c.fd] EXCEPT !.request_pid = Nobody, !.pos = NewPos(c)]]
  BY DEF Complete
<1>3. ~file[c.fd].buzy /\ file[c.fd].request_pid = t
  BY DEF Complete, Answered
<1>4. \A b : LET F == [file[c.fd] EXCEPT !.request_pid = Nobody, !.pos = b]
             IN F.request_pid = Nobody /\ F.buzy = file[c.fd].buzy
  BY <1>1 DEF FileState
<1> QED
  BY <1>1, <1>2, <1>3, <1>4 DEF TypeOK

\* A file's list and request_pid decide HeadAsked.
LEMMA SameHead ==
  ASSUME NEW f, file'[f].request_pid = file[f].request_pid, waiting'[f] = waiting[f]
  PROVE  HeadAsked(f)' <=> HeadAsked(f)
BY DEF HeadAsked

LEMMA SyscallRetried ==
  ASSUME HeadIInv, NEW t \in Clients, NEW c \in Calls, Syscall(t, c),
         Free(c.fd) => HasRoom(c.fd)
  PROVE  Retried'
<1> USE DEF HeadIInv, IInv
<1>1. PICK f \in Files : f = c.fd
  BY DEF Calls
<1>2. serving = NoFile /\ serving' = NoFile /\ call[t] = NoCall /\ t # Nobody
  BY FilesOf DEF Syscall
<1>3. \A g \in Files : HeadAsked(g)
  BY <1>2, FilesOf DEF Retried
<1>4. PICK s \in Seq(Clients) : s = waiting[f]
  BY DEF TypeOK
<1>5. ASSUME s # <<>> PROVE Head(s) # t /\ Head(s) \in Clients
  <2>1. 1 \in DOMAIN s /\ Head(s) = s[1] /\ s[1] \in Clients
    BY <1>4, <1>5
  <2>2. call[s[1]] \in Calls
    BY <1>4, <2>1 DEF Listed
  <2> QED
    BY <1>2, <2>1, <2>2, Kinds
<1>6. \A g \in Files \ {f} : HeadAsked(g)'
  <2>1. ASSUME NEW g \in Files \ {f} PROVE file'[g] = file[g] /\ waiting'[g] = waiting[g]
    <3>1. file'[g] = file[g]
      BY <1>1, SubmittedFile, CompletedFile DEF Syscall, Held, Refuse
    <3>2. waiting'[g] = waiting[g]
      BY <1>1 DEF Syscall, TypeOK
    <3> QED
      BY <3>1, <3>2
  <2> QED
    BY <1>3, <2>1, SameHead
<1>7. HeadAsked(f)'
  <2>1. CASE s = <<>>
    <3>1. Free(f)
      BY <1>3, <1>4, <2>1 DEF HeadAsked, Free
    <3>2. ~Held(t, c) /\ ~Complete(t, c)
      BY <1>1, <1>2, <3>1 DEF Held, Complete, Answered, Free
    <3>3. CASE Submit(t, c)
      <4>1. waiting'[f] = Append(s, t) /\ file'[f].request_pid = t
        BY <1>1, <1>4, <3>2, <3>3, SubmittedFile DEF Syscall, TypeOK, Refuse, Submit
      <4>2. Append(s, t) # <<>> /\ Head(Append(s, t)) = t
        BY <2>1
      <4> QED
        BY <4>1, <4>2 DEF HeadAsked
    <3>4. CASE Refuse(t, c)
      BY <1>3, <3>2, <3>4, SameHead DEF Syscall, Refuse, Submit
    <3> QED
      BY <3>2, <3>3, <3>4 DEF Syscall
  <2>2. CASE s # <<>>
    <3>1. file[f].request_pid = Head(s) /\ Head(s) # t /\ Head(s) # Nobody
      BY <1>3, <1>4, <1>5, <2>2, FilesOf DEF HeadAsked
    <3>2. ~Submit(t, c) /\ ~Complete(t, c) /\ ~Refuse(t, c)
      BY <1>1, <3>1 DEF Submit, Complete, Refuse, Answered, Free
    <3>3. waiting'[f] = Append(s, t) /\ UNCHANGED file
      BY <1>1, <1>4, <3>2 DEF Syscall, Held, TypeOK
    <3>4. Append(s, t) # <<>> /\ Head(Append(s, t)) = Head(s)
      BY <2>2
    <3> QED
      BY <3>1, <3>3, <3>4 DEF HeadAsked
  <2> QED
    BY <2>1, <2>2
<1> QED
  BY <1>2, <1>6, <1>7, FilesOf DEF Retried

LEMMA RetryRetried ==
  ASSUME HeadIInv, RetryBlocks \/ RetryEnds, Free(serving) => HasRoom(serving)
  PROVE  Retried'
<1> USE DEF HeadIInv, IInv
<1>0. Visit
  BY DEF RetryBlocks, RetryEnds
<1>1. PICK w \in Clients, c \in Calls, f \in Files, k \in Nat :
        w = Waiter /\ c = call[w] /\ f = serving /\ k = at /\ k \in 1 .. Len(waiting[f])
  BY <1>0, Visited
<1>2. PICK s \in Seq(Clients) : s = waiting[f]
  BY DEF TypeOK
<1>3. /\ f = c.fd /\ s[k] = w /\ k \in DOMAIN s /\ w # Nobody /\ s # <<>> /\ f # NoFile
      /\ Head(s) = s[1] /\ 1 \in DOMAIN s /\ serving' = f
  BY <1>0, <1>1, <1>2, Visited, FilesOf DEF Waiter, RetryBlocks, RetryEnds
<1>4. k # 1 => Head(s) # w
  BY <1>2, <1>3 DEF Listed
<1>5. \A g \in Files \ {f} : HeadAsked(g)'
  <2>1. ASSUME NEW g \in Files \ {f} PROVE file'[g] = file[g] /\ waiting'[g] = waiting[g]
    <3>1. file'[g] = file[g]
      BY <1>1, <1>3, SubmittedFile, CompletedFile DEF RetryBlocks, RetryEnds, Held, Refuse
    <3>2. waiting'[g] = waiting[g]
      BY <1>1 DEF RetryBlocks, RetryEnds, TypeOK
    <3> QED
      BY <3>1, <3>2
  <2> QED
    BY <1>1, <2>1, SameHead DEF Retried
<1>6. IF at' = 1 THEN ~file'[f].buzy /\ (Free(f)' \/ HeadAsked(f)')
      ELSE file'[f].buzy /\ HeadAsked(f)'
  <2>1. CASE k = 1
    <3>1. ~file[f].buzy /\ (Free(f) \/ file[f].request_pid = w)
      BY <1>1, <1>2, <1>3, <2>1 DEF Retried, HeadAsked
    <3>2. ~Held(w, c)
      BY <1>1, <1>3, <3>1 DEF Held, Answered
    <3>3. CASE RetryBlocks
      <4>1. Submit(w, c)
        BY <1>1, <3>2, <3>3 DEF RetryBlocks
      <4>2. at' = k + 1 /\ waiting'[f] = s
        BY <1>1, <1>2, <3>3 DEF RetryBlocks
      <4>3. at' # 1
        BY <2>1, <4>2
      <4> QED
        BY <1>3, <2>1, <4>1, <4>2, <4>3, SubmittedFile DEF HeadAsked
    <3>4. CASE RetryEnds
      <4>1. at' = 1
        BY <1>1, <2>1, <3>4 DEF RetryEnds
      <4>2. CASE Complete(w, c)
        BY <1>3, <4>1, <4>2, CompletedFile DEF Free
      <4>3. CASE Refuse(w, c)
        BY <1>3, <3>1, <4>1, <4>3 DEF Refuse, Free
      <4> QED
        BY <1>1, <3>4, <4>2, <4>3 DEF RetryEnds
    <3> QED
      BY <3>3, <3>4
  <2>2. CASE k # 1
    <3>1. file[f].buzy /\ HeadAsked(f) /\ file[f].request_pid = Head(s)
      BY <1>1, <1>2, <1>3, <2>2 DEF Retried, HeadAsked
    <3>2. ~Free(f)
      BY <3>1, BuzyAsked
    <3>3. ~Submit(w, c) /\ ~Complete(w, c) /\ ~Refuse(w, c)
      BY <1>3, <3>1, <3>2 DEF Submit, Complete, Refuse, Answered
    <3>4. RetryBlocks /\ Held(w, c)
      BY <1>1, <3>3 DEF RetryBlocks, RetryEnds
    <3>5. at' = k + 1 /\ waiting'[f] = waiting[f] /\ file' = file
      BY <1>1, <3>4 DEF RetryBlocks, Held
    <3>6. at' # 1
      BY <1>1, <2>2, <3>5
    <3> QED
      BY <3>1, <3>5, <3>6, SameHead
  <2> QED
    BY <2>1, <2>2
<1> QED
  BY <1>3, <1>5, <1>6 DEF Retried

LEMMA EndServeRetried ==
  ASSUME HeadIInv, EndServe
  PROVE  Retried'
<1> USE DEF HeadIInv, IInv
<1>1. serving \in Files /\ serving' = NoFile /\ UNCHANGED <<file, waiting>>
  BY DEF EndServe, TypeOK
<1>2. ASSUME NEW f \in Files PROVE HeadAsked(f)
  <2>1. CASE f = serving /\ at = 1
    <3>1. waiting[f] \in Seq(Clients) /\ ~(1 <= Len(waiting[f]))
      BY <2>1 DEF EndServe, TypeOK
    <3>2. waiting[f] = <<>>
      BY <3>1
    <3> QED
      BY <2>1, <3>2 DEF Retried, HeadAsked, Free
  <2> QED
    BY <2>1 DEF Retried
<1> QED
  BY <1>1, <1>2, FilesOf DEF Retried, HeadAsked

LEMMA ReceiveRetried ==
  ASSUME HeadIInv, NEW d \in Drivers, Receive(d)
  PROVE  Retried'
BY DEF HeadIInv, Receive, Retried, HeadAsked, Free

LEMMA AnswerRetried ==
  ASSUME HeadIInv, NEW d \in Drivers, NEW len \in Int, NEW from \in Int,
         hand[d] # NoRequest, Respond(hand[d].target, len, from),
         hand' = [hand EXCEPT ![d] = NoRequest]
  PROVE  Retried'
<1>1. PICK f \in Files :
        /\ f = hand[d].target /\ file[f].buzy /\ serving' = f
        /\ file'[f].request_pid = file[f].request_pid
        /\ ~file'[f].buzy /\ \A g \in Files \ {f} : file'[g] = file[g]
  BY AnswerKeeps DEF HeadIInv, IInv, Requested
<1>2. serving = NoFile /\ at' = 1 /\ UNCHANGED waiting
  BY <1>1 DEF Respond
<1>3. \A g \in Files : HeadAsked(g)'
  BY <1>1, <1>2, FilesOf, SameHead DEF HeadIInv, Retried
<1> QED
  BY <1>1, <1>2, <1>3 DEF Retried

-----------------------------------------------------------------------------
(* What a step does to positions, to requests and to calls *)

LEMMA PositionKept ==
  ASSUME TypeOK, NEW t, NEW c \in Calls, Submit(t, c) \/ Held(t, c) \/ Refuse(t, c)
  PROVE  \A f \in Files : file'[f].pos = file[f].pos
<1>1. CASE Submit(t, c)
  <2> DEFINE buf == IF c.op = "write" THEN NoBytes ELSE file[c.fd].buf
  <2>1. file[c.fd] \in FileState /\ DOMAIN file = Files
    BY DEF TypeOK, Calls
  <2>2. \A b : [file[c.fd] EXCEPT !.request_pid = t, !.buzy = TRUE, !.buf = b].pos = file[c.fd].pos
    BY <2>1 DEF FileState
  <2>3. file' = [file EXCEPT ![c.fd] = [file[c.fd] EXCEPT !.request_pid = t, !.buzy = TRUE,
                                                        !.buf = buf]]
    BY <1>1 DEF Submit
  <2> QED
    BY <2>1, <2>2, <2>3
<1>2. CASE Held(t, c) \/ Refuse(t, c)
  BY <1>2 DEF Held, Refuse
<1> QED
  BY <1>1, <1>2

\* A driver's answer, when the file waits for it
LEMMA Responded ==
  ASSUME TypeOK, NEW f \in Files, file[f].buzy, NEW len \in Int, NEW from \in Int,
         Respond(f, len, from)
  PROVE  /\ \A g \in Files : /\ file'[g].pos = file[g].pos
                             /\ file'[g].request_pid = file[g].request_pid
                             /\ g # f => file'[g] = file[g]
         /\ file'[f].transfer_len = len /\ (len > 0 => file'[f].buf = from)
         /\ serving = NoFile /\ serving' = f /\ at' = 1
         /\ UNCHANGED <<waiting, fifo, call, ret>>
<1> DEFINE buf == IF len > 0 THEN from ELSE file[f].buf
<1>1. file[f] \in FileState /\ DOMAIN file = Files
  BY DEF TypeOK
<1>2. /\ file' = [file EXCEPT ![f] = [file[f] EXCEPT !.transfer_len = len, !.buzy = FALSE,
                                                   !.buf = buf]]
      /\ serving = NoFile /\ serving' = f /\ at' = 1 /\ UNCHANGED <<waiting, fifo, call, ret>>
  BY DEF Respond
<1>3. \A b : LET F == [file[f] EXCEPT !.transfer_len = len, !.buzy = FALSE, !.buf = b]
             IN /\ F.pos = file[f].pos /\ F.request_pid = file[f].request_pid
                /\ F.transfer_len = len /\ F.buf = b
  BY <1>1 DEF FileState
<1> QED
  BY <1>1, <1>2, <1>3

\* The call that ends and where it leaves the file
LEMMA Completed ==
  ASSUME TypeOK, NEW t \in Clients, NEW c \in Calls, Complete(t, c)
  PROVE  /\ file'[c.fd].pos = NewPos(c)
         /\ ret' = [ret EXCEPT ![t] =
              Result(file[c.fd].transfer_len,
                     IF c.op = "read" /\ file[c.fd].transfer_len > 0 THEN file[c.fd].buf
                     ELSE NoBytes)]
<1>1. c.fd \in Files /\ file[c.fd] \in FileState /\ DOMAIN file = Files
  BY DEF TypeOK, Calls
<1>2. \A b : [file[c.fd] EXCEPT !.request_pid = Nobody, !.pos = b].pos = b
  BY <1>1 DEF FileState
<1> QED
  BY <1>1, <1>2 DEF Complete

\* A system call is never answered at once.
LEMMA NotAtOnce ==
  ASSUME Collected, NEW t \in Clients, NEW c \in Calls, Syscall(t, c)
  PROVE  ~Complete(t, c)
BY FilesOf DEF Collected, Syscall, Complete, Answered, Free, Calls

\* The requests after a step that sends none
OldRequests ==
  \A d \in Drivers : \A i \in Places(d)' : \E j \in Places(d) : RequestAt(d, i)' = RequestAt(d, j)

LEMMA NoneSent ==
  ASSUME TypeOK, NEW d \in Drivers,
         \/ UNCHANGED <<fifo, hand>>
         \/ Receive(d)
         \/ UNCHANGED fifo /\ hand' = [hand EXCEPT ![d] = NoRequest]
  PROVE  OldRequests
<1>1. CASE UNCHANGED <<fifo, hand>>
  BY <1>1, SamePlaces DEF OldRequests
<1>2. CASE Receive(d)
  <2>1. /\ hand'[d] = Head(fifo[d]) /\ fifo'[d] = Tail(fifo[d])
        /\ \A e \in Drivers \ {d} : hand'[e] = hand[e] /\ fifo'[e] = fifo[e]
    BY <1>2 DEF Receive, TypeOK
  <2>2. /\ \A i \in Int : i \in Places(d)' <=> i + 1 \in Places(d)
        /\ \A i \in Places(d)' : i \in Int /\ RequestAt(d, i)' = RequestAt(d, i + 1)
    BY <1>2, <2>1, ReceivedPlaces DEF Receive
  <2>3. \A e \in Drivers \ {d} : Places(e)' = Places(e) /\ \A i : RequestAt(e, i)' = RequestAt(e, i)
    BY <2>1, SamePlaces
  <2> QED
    BY <2>2, <2>3 DEF OldRequests
<1>3. CASE UNCHANGED fifo /\ hand' = [hand EXCEPT ![d] = NoRequest]
  <2>1. hand'[d] = NoRequest /\ \A e \in Drivers \ {d} : hand'[e] = hand[e]
    BY <1>3 DEF TypeOK
  <2>2. /\ Places(d)' = Places(d) \ {0}
        /\ \A i \in Places(d)' : RequestAt(d, i)' = RequestAt(d, i)
    BY <1>3, <2>1, AnsweredPlaces
  <2>3. \A e \in Drivers \ {d} : Places(e)' = Places(e) /\ \A i : RequestAt(e, i)' = RequestAt(e, i)
    BY <1>3, <2>1, SamePlaces
  <2> QED
    BY <2>2, <2>3 DEF OldRequests
<1> QED
  BY <1>1, <1>2, <1>3

LEMMA OneSent ==
  ASSUME TypeOK, NEW t \in Clients, NEW c \in Calls, Submit(t, c), UNCHANGED hand,
         NEW e \in Drivers, NEW i \in Places(e)'
  PROVE  \/ RequestAt(e, i)' = Request(t, c)
         \/ \E j \in Places(e) : RequestAt(e, i)' = RequestAt(e, j)
<1> DEFINE r == Request(t, c)
<1>1. PICK d \in Drivers : d = driver(c.fd)
  BY FilesOf DEF Calls
<1>2. PICK n : n = Len(fifo[d])
  OBVIOUS
<1>3. r \in Requests
  BY RequestType
<1>4. fifo'[d] = Append(fifo[d], r) /\ \A x \in Drivers \ {d} : fifo'[x] = fifo[x]
  BY <1>1 DEF Submit, TypeOK
<1>5. /\ Places(d)' = Places(d) \union {n + 1}
      /\ \A j \in Places(d) : RequestAt(d, j)' = RequestAt(d, j)
      /\ RequestAt(d, n + 1)' = r
  BY <1>2, <1>3, <1>4, SentPlaces
<1>6. \A x \in Drivers \ {d} : Places(x)' = Places(x) /\ \A j : RequestAt(x, j)' = RequestAt(x, j)
  BY <1>4, SamePlaces
<1> QED
  BY <1>5, <1>6
-----------------------------------------------------------------------------
(* Requests are what their tasks' calls ask for *)

LEMMA RequestSame ==
  ASSUME NEW t, NEW c, file'[c.fd].pos = file[c.fd].pos
  PROVE  Request(t, c)' = Request(t, c)
BY DEF Request, Clipped, SEEK_SET, SEEK_END

LEMMA StillUpToDate ==
  ASSUME TypeOK, NEW r \in Requests, UpToDate(r), call'[r.from] = call[r.from],
         file'[r.target].pos = file[r.target].pos
  PROVE  UpToDate(r)'
<1>1. PICK c \in Calls : c = call[r.from]
  BY DEF UpToDate
<1>2. r = Request(r.from, c) /\ ~BadWhence(c)
  BY <1>1 DEF UpToDate
<1>3. r.target = c.fd
  BY <1>2 DEF Request
<1>4. Request(r.from, c)' = Request(r.from, c)
  BY <1>3, RequestSame
<1>5. BadWhence(c)' <=> BadWhence(c)
  BY DEF BadWhence, SEEK_SET, SEEK_CUR, SEEK_END
<1> QED
  BY <1>1, <1>2, <1>4, <1>5 DEF UpToDate, Calls

LEMMA CurrentKept ==
  ASSUME TypeOK, Current, OldRequests,
         \A r \in Requests : UpToDate(r) /\ (\E d \in Drivers : \E j \in Places(d) : r = RequestAt(d, j))
           => call'[r.from] = call[r.from] /\ file'[r.target].pos = file[r.target].pos
  PROVE  Current'
<1>1. ASSUME NEW d \in Drivers, NEW i \in Places(d)' PROVE UpToDate(RequestAt(d, i))'
  <2>1. PICK j \in Places(d) : RequestAt(d, i)' = RequestAt(d, j)
    BY <1>1 DEF OldRequests
  <2>2. PICK r \in Requests : r = RequestAt(d, j)
    BY PlaceTypes
  <2>3. UpToDate(r)
    BY <2>2 DEF Current
  <2>4. UpToDate(r)'
    BY <2>2, <2>3, StillUpToDate
  <2> QED
    BY <2>1, <2>2, <2>4
<1> QED
  BY <1>1 DEF Current, Drivers

\* The task whose request a call or a retry sends is in that call from then on.
LEMMA SubmitCurrent ==
  ASSUME TypeOK, Current, NEW t \in Clients, NEW c \in Calls,
         Submit(t, c) \/ Held(t, c) \/ Refuse(t, c), UNCHANGED hand,
         \A x \in Clients \ {t} : call'[x] = call[x],
         Submit(t, c) => call'[t] = c,
         call'[t] = call[t] \/ call[t] \notin Calls
  PROVE  Current'
<1>0. \A f \in Files : file'[f].pos = file[f].pos
  BY PositionKept
<1>1. ASSUME NEW r \in Requests, UpToDate(r)
      PROVE  call'[r.from] = call[r.from] /\ file'[r.target].pos = file[r.target].pos
  <2>1. r.from \in Clients /\ r.target \in Files /\ call[r.from] \in Calls
    BY <1>1 DEF UpToDate, Requests
  <2> QED
    BY <1>0, <2>1
<1>2. CASE Held(t, c) \/ Refuse(t, c)
  <2>1. OldRequests
    BY <1>2, NoneSent, FilesOf DEF Held, Refuse
  <2> QED
    BY <1>1, <2>1, CurrentKept
<1>3. CASE Submit(t, c)
  <2>1. UpToDate(Request(t, c))'
    <3>1. Request(t, c)' = Request(t, c)
      BY <1>0, RequestSame DEF Calls
    <3>2. PICK r \in Requests : r = Request(t, c) /\ r.from = t
      BY RequestType
    <3>3. ~BadWhence(c)
      BY <1>3 DEF Submit
    <3>4. call'[t] = c
      BY <1>3
    <3>5. UpToDate(r)'
      BY <3>1, <3>2, <3>3, <3>4 DEF UpToDate, Calls, BadWhence, SEEK_SET, SEEK_CUR, SEEK_END
    <3> QED
      BY <3>1, <3>2, <3>5
  <2>2. ASSUME NEW d \in Drivers, NEW i \in Places(d)' PROVE UpToDate(RequestAt(d, i))'
    <3>1. CASE RequestAt(d, i)' = Request(t, c)
      <4>1. PICK r \in Requests : r = Request(t, c)
        BY RequestType
      <4>2. Request(t, c)' = Request(t, c)
        BY <1>0, RequestSame DEF Calls
      <4> QED
        BY <2>1, <3>1, <4>1, <4>2
    <3>2. CASE \E j \in Places(d) : RequestAt(d, i)' = RequestAt(d, j)
      <4>1. PICK j \in Places(d) : RequestAt(d, i)' = RequestAt(d, j)
        BY <3>2
      <4>2. PICK r \in Requests : r = RequestAt(d, j)
        BY PlaceTypes
      <4>3. UpToDate(r)
        BY <4>2 DEF Current
      <4>4. UpToDate(r)'
        BY <1>1, <4>3, StillUpToDate
      <4> QED
        BY <4>1, <4>2, <4>4
    <3> QED
      BY <1>3, <2>2, <3>1, <3>2, OneSent
  <2> QED
    BY <2>2 DEF Current, Drivers
<1> QED
  BY <1>2, <1>3

LEMMA SyscallCurrent ==
  ASSUME TypeOK, Current, Collected, NEW t \in Clients, NEW c \in Calls, Syscall(t, c),
         UNCHANGED hand
  PROVE  Current'
<1>1. ~Complete(t, c) /\ call[t] \notin Calls
  BY NotAtOnce, Kinds DEF Syscall
<1>2. Submit(t, c) \/ Held(t, c) \/ Refuse(t, c)
  BY <1>1 DEF Syscall
<1>3. \A x \in Clients \ {t} : call'[x] = call[x]
  BY DEF Syscall, TypeOK
<1>4. Submit(t, c) => call'[t] = c
  BY <1>1 DEF Syscall, TypeOK, Submit, Refuse
<1> QED
  BY <1>1, <1>2, <1>3, <1>4, SubmitCurrent

LEMMA RetryBlocksCurrent ==
  ASSUME IInv, Current, RetryBlocks
  PROVE  Current'
<1>1. PICK w \in Clients, c \in Calls : w = Waiter /\ c = call[w]
  BY Visited DEF RetryBlocks, IInv
<1>2. (Submit(w, c) \/ Held(w, c)) /\ UNCHANGED <<call, hand>>
  BY <1>1 DEF RetryBlocks, driverVars
<1> QED
  BY <1>1, <1>2, SubmitCurrent DEF IInv

\* The task that a retry releases has no other request, and no other request is
\* about its file.
LEMMA RetryEndsCurrent ==
  ASSUME IInv, Current, RetryEnds
  PROVE  Current'
<1> USE DEF IInv
<1>1. PICK w \in Clients, c \in Calls, f \in Files :
        w = Waiter /\ c = call[w] /\ f = c.fd
  BY Visited DEF RetryEnds
<1>2. /\ Complete(w, c) \/ Refuse(w, c)
      /\ call' = [call EXCEPT ![w] = NoCall] /\ UNCHANGED <<fifo, hand>>
  BY <1>1 DEF RetryEnds, driverVars, Complete, Refuse
<1>3. ~file[f].buzy /\ \A g \in Files \ {f} : file'[g] = file[g]
  BY <1>1, <1>2, BuzyAsked, CompletedFile DEF Refuse
<1>4. Unanswered(f) = {}
  BY <1>3 DEF OneRequest
<1>5. OldRequests
  BY <1>2, NoneSent, FilesOf
<1>6. ASSUME NEW r \in Requests, UpToDate(r), NEW d \in Drivers, NEW j \in Places(d),
             r = RequestAt(d, j)
      PROVE  call'[r.from] = call[r.from] /\ file'[r.target].pos = file[r.target].pos
  <2>1. r.target \in Files /\ r.from \in Clients /\ driver(r.target) = d
    BY <1>6 DEF Requests, Addressed
  <2>2. r.target # f
    BY <1>4, <1>6, <2>1 DEF Unanswered
  <2>3. r.from # w
    <3>1. r.target = call[r.from].fd
      BY <1>6 DEF UpToDate, Request
    <3> QED
      BY <1>1, <2>2, <3>1
  <2> QED
    BY <1>2, <1>3, <2>1, <2>2, <2>3 DEF TypeOK
<1> QED
  BY <1>5, <1>6, CurrentKept

\* Steps in which no task's call and no file's position changes
LEMMA QuietCurrent ==
  ASSUME TypeOK, Current, OldRequests, UNCHANGED call,
         \A f \in Files : file'[f].pos = file[f].pos
  PROVE  Current'
<1>1. \A r \in Requests : r.target \in Files
  BY DEF Requests
<1> QED
  BY <1>1, CurrentKept
-----------------------------------------------------------------------------
(* An answer is collected before anything else happens *)

LEMMA CollectedKept ==
  ASSUME TypeOK, Collected, UNCHANGED serving, NEW t \in Clients, NEW c \in Calls,
         Submit(t, c) \/ Held(t, c) \/ Complete(t, c) \/ Refuse(t, c)
  PROVE  Collected'
<1>1. CASE Submit(t, c)
  BY <1>1, SubmittedFile DEF Collected, Free
<1>2. CASE Complete(t, c)
  BY <1>2, CompletedFile DEF Collected, Free
<1>3. CASE Held(t, c) \/ Refuse(t, c)
  BY <1>3 DEF Collected, Free, Held, Refuse
<1> QED
  BY <1>1, <1>2, <1>3

LEMMA EndServeCollected ==
  ASSUME HeadIInv, Collected, EndServe
  PROVE  Collected'
<1>1. serving \in Files /\ UNCHANGED file
  BY DEF EndServe, HeadIInv, IInv, TypeOK
<1>2. file[serving].buzy \/ Free(serving)
  <2>1. CASE at = 1
    <3>1. waiting[serving] \in Seq(Clients) /\ ~(1 <= Len(waiting[serving]))
      BY <1>1, <2>1 DEF EndServe, HeadIInv, IInv, TypeOK
    <3>2. waiting[serving] = <<>>
      BY <3>1
    <3> QED
      BY <1>1, <2>1, <3>2 DEF HeadIInv, Retried, HeadAsked, Free
  <2>2. CASE at # 1
    BY <1>1, <2>2 DEF HeadIInv, Retried
  <2> QED
    BY <2>1, <2>2
<1> QED
  BY <1>1, <1>2 DEF Collected, Free

LEMMA RespondCollected ==
  ASSUME TypeOK, Collected, NEW f \in Files, file[f].buzy, NEW len \in Int, NEW from \in Int,
         Respond(f, len, from)
  PROVE  Collected'
<1>1. serving = NoFile /\ serving' = f /\ \A g \in Files \ {f} : file'[g] = file[g]
  BY Responded
<1> QED
  BY <1>1, FilesOf DEF Collected, Free

\* A less urgent user finds the drivers at rest: no request is in progress.
LEMMA DriversRest ==
  ASSUME HeadIInv, Collected, Asked, serving = NoFile, \A d \in Drivers : ~DriverRuns(d)
  PROVE  /\ hand[romfs] = NoRequest /\ RomfsIdle
         /\ \A f \in Files : Free(f) /\ fifo[driver(f)] = <<>>
<1> USE DEF HeadIInv, IInv
<1>1. ASSUME NEW f \in Files, hand[driver(f)] = NoRequest, fifo[driver(f)] = <<>>
      PROVE  Free(f)
  <2>1. Places(driver(f)) = {}
    BY <1>1, PlaceTypes, FilesOf DEF Places, RequestAt
  <2>2. ~file[f].buzy
    BY <2>1 DEF OneRequest
  <2> QED
    BY <2>2, FilesOf DEF Collected
<1>2. hand[romdev] = NoRequest /\ fifo[romdev] = <<>>
  BY FilesOf DEF DriverRuns
<1>3. Free(rom0)
  BY <1>1, <1>2, FilesOf
<1>4. waiting[rom0] = <<>>
  <2> SUFFICES ASSUME waiting[rom0] # <<>> PROVE FALSE
    OBVIOUS
  <2>1. waiting[rom0] \in Seq(Clients)
    BY FilesOf DEF TypeOK
  <2>2. Head(waiting[rom0]) \in Clients
    BY <2>1
  <2>3. HeadAsked(rom0)
    BY FilesOf DEF Retried
  <2> QED
    BY <1>3, <2>2, <2>3, FilesOf DEF HeadAsked, Free
<1>5. RomfsIdle
  <2>1. DOMAIN waiting[rom0] = {}
    BY <1>4
  <2> QED
    BY <2>1 DEF Asked, RomfsIdle
<1>6. hand[romfs] = NoRequest /\ fifo[romfs] = <<>>
  BY <1>5, FilesOf DEF DriverRuns, RomfsIdle
<1>7. ASSUME NEW f \in Files PROVE driver(f) = romfs \/ driver(f) = romdev
  BY DEF driver
<1> QED
  BY <1>1, <1>2, <1>5, <1>6, <1>7

\* The task whose request a file holds is in a call on that file.
LEMMA AskerCalls ==
  ASSUME HeadIInv, NEW f \in Files, file[f].buzy
  PROVE  /\ file[f].request_pid \in Clients
         /\ call[file[f].request_pid] \in Calls /\ call[file[f].request_pid].fd = f
<1> USE DEF HeadIInv, IInv
<1>1. PICK t \in Clients : t = file[f].request_pid
  BY BuzyAsked
<1>2. HeadAsked(f)
  BY DEF Retried
<1>3. PICK s \in Seq(Clients) : s = waiting[f]
  BY DEF TypeOK
<1>4. s # <<>> /\ t = Head(s)
  BY <1>1, <1>2, <1>3, FilesOf DEF HeadAsked
<1>5. 1 \in DOMAIN s /\ s[1] = t
  BY <1>4
<1> QED
  BY <1>1, <1>3, <1>5 DEF Listed

\* While no request is in progress on a file that an urgent program uses, or on
\* the device, the FIFO of its driver is not full.
LEMMA RoomLeft ==
  ASSUME RoomForRequests, TurnIInv, NEW f \in Files, Free(f), f \in UrgentFiles \/ f = rom0
  PROVE  HasRoom(f)
<1> USE DEF TurnIInv, HeadIInv, IInv
<1>1. PICK d \in Drivers : d = driver(f)
  BY FilesOf
<1> DEFINE n == Len(fifo[d])
           about == [i \in 1 .. n |-> RequestAt(d, i).target]
<1>2. n \in Nat
  BY PlaceTypes
<1>3. ASSUME NEW i \in 1 .. n
      PROVE  about[i] \in Files /\ driver(about[i]) = d /\ i \in Unanswered(about[i])
  <2>1. i \in Places(d) /\ RequestAt(d, i).target \in Files
    BY PlaceTypes DEF Requests
  <2>2. driver(RequestAt(d, i).target) = d
    BY <2>1 DEF Addressed
  <2> QED
    BY <2>1, <2>2 DEF Unanswered
<1>4. Unanswered(f) = {}
  BY BuzyAsked DEF OneRequest
<1>5. ASSUME NEW g \in Files, NEW i \in Unanswered(g), NEW j \in Unanswered(g)
      PROVE  i = j
  BY <1>5 DEF OneRequest
<1>6. Room[d] \in Nat \ {0}
  BY FilesAssumption
<1>7. CASE f = rom0
  <2>1. d = romdev
    BY <1>1, <1>7, FilesOf
  <2>2. ASSUME NEW i \in 1 .. n PROVE FALSE
    BY <1>3, <1>4, <1>7, <2>1, FilesOf
  <2>3. n = 0
    BY <1>2, <2>2
  <2> QED
    BY <1>1, <1>6, <2>3 DEF HasRoom
<1>8. CASE f # rom0
  <2>1. d = romfs /\ f \in UrgentFiles
    BY <1>1, <1>8, FilesOf DEF driver
  <2>2. ASSUME NEW i \in 1 .. n, about[i] \notin UrgentFiles
        PROVE  \E t \in Users : InCall(t) /\ call[t].fd = about[i]
    <3>1. PICK g \in Files : g = about[i] /\ driver(g) = romfs /\ g # rom0 /\ g \notin UrgentFiles
      BY <1>3, <2>1, <2>2, FilesOf
    <3>2. file[g].buzy
      BY <1>3, <3>1 DEF OneRequest
    <3>3. PICK t \in Clients : t = file[g].request_pid /\ call[t] \in Calls /\ call[t].fd = g
      BY <3>2, AskerCalls
    <3>4. call[t] # NoCall
      BY <3>3, Kinds
    <3>5. t \in Users
      BY <3>1, <3>3, <3>4 DEF Asked, Clients
    <3>6. t \notin Urgent
      BY <3>1, <3>3, <3>4, <3>5 DEF Asked, UrgentFiles
    <3> QED
      BY <3>1, <3>3, <3>4, <3>5, <3>6 DEF InCall
  <2>3. PICK g0 \in Files : /\ driver(g0) = d
                            /\ \A i \in 1 .. n : about[i] \in UrgentFiles \union {g0}
    <3>1. CASE \A i \in 1 .. n : about[i] \in UrgentFiles
      BY <1>1, <3>1
    <3>2. CASE \E i \in 1 .. n : about[i] \notin UrgentFiles
      <4>1. PICK k \in 1 .. n : about[k] \notin UrgentFiles
        BY <3>2
      <4>2. PICK g \in Files : g = about[k] /\ driver(g) = d
        BY <1>3
      <4>3. ASSUME NEW i \in 1 .. n, about[i] \notin UrgentFiles PROVE about[i] = g
        BY <2>2, <4>1, <4>2, <4>3 DEF OneLessUrgent
      <4> QED
        BY <4>2, <4>3
    <3> QED
      BY <3>1, <3>2
  <2> DEFINE own == Together(g0)
  <2>4. f \in own
    BY <1>1, <2>1, <2>3 DEF Together
  <2>5. about \in Injection(1 .. n, own \ {f})
    <3>1. \A i \in 1 .. n : about[i] \in own \ {f}
      BY <1>3, <1>4, <2>3 DEF Together
    <3>2. about \in [1 .. n -> own \ {f}]
      BY <3>1
    <3>3. \A i, j \in 1 .. n : about[i] = about[j] => i = j
      BY <1>3, <1>5
    <3> QED
      BY <3>2, <3>3 DEF Injection, IsInjective
  <2>6. IsFiniteSet(own) /\ Cardinality(own) <= Room[d]
    BY <2>3 DEF RoomForRequests
  <2> HIDE DEF own, about
  <2>7. Cardinality(own) \in Nat
    BY <2>6, FS_CardinalityType
  <2>8. IsFiniteSet(own \ {f}) /\ Cardinality(own \ {f}) = Cardinality(own) - 1
    BY <2>4, <2>6, FS_RemoveElement
  <2>9. IsFiniteSet(1 .. n) /\ Cardinality(1 .. n) = n
    BY <1>2, FS_Interval
  <2>10. n <= Cardinality(own) - 1
    BY <2>5, <2>8, <2>9, FS_Injection
  <2>11. n < Room[d]
    BY <1>2, <1>6, <2>6, <2>7, <2>10
  <2> QED
    BY <1>1, <2>11 DEF HasRoom
<1> QED
  BY <1>7, <1>8

\* A user's call, or a retry, finds room when the file is free.
LEMMA CallHasRoom ==
  ASSUME RoomForRequests, TurnIInv, NEW t \in Users, NEW c \in Programs[t], UserCall(t, c),
         Free(c.fd)
  PROVE  HasRoom(c.fd)
<1>1. c \in Calls /\ c.fd \in Files
  BY ProgramCalls DEF Calls
<1>2. CASE t \in Urgent
  BY <1>1, <1>2, RoomLeft DEF UrgentFiles
<1>3. CASE t \notin Urgent
  <2>1. fifo[driver(c.fd)] = <<>>
    BY <1>1, <1>3, DriversRest DEF UserCall, Syscall, TurnIInv
  <2>2. driver(c.fd) \in Drivers
    BY <1>1, FilesOf
  <2>3. Room[driver(c.fd)] > 0 /\ Len(fifo[driver(c.fd)]) = 0
    BY <2>1, <2>2, FilesAssumption
  <2> QED
    BY <2>3 DEF HasRoom
<1> QED
  BY <1>2, <1>3

LEMMA RetryHasRoom ==
  ASSUME RoomForRequests, TurnIInv, Visit, Free(serving)
  PROVE  HasRoom(serving)
<1>1. PICK w \in Clients : /\ w = Waiter /\ call[w] \in Calls /\ call[w].fd = serving
                           /\ serving \in Files
  BY Visited DEF TurnIInv, HeadIInv, IInv
<1>2. call[w] # NoCall
  BY <1>1, Kinds
<1>3. CASE w = romfs
  BY <1>1, <1>2, <1>3, RoomLeft DEF TurnIInv, Asked
<1>4. CASE w \in Urgent
  BY <1>1, <1>2, <1>4, RoomLeft, FilesAssumption DEF TurnIInv, Asked, UrgentFiles
<1>5. CASE w \in Users \ Urgent
  BY <1>1, <1>2, <1>5, FilesOf DEF TurnIInv, OneLessUrgent, InCall, Free
<1> QED
  BY <1>1, <1>3, <1>4, <1>5 DEF Clients
-----------------------------------------------------------------------------
(* The tasks on each list are served in turn: the invariant is kept *)

LEMMA StepRetried ==
  ASSUME RoomForRequests, ReadOnlyFiles, TurnIInv, [Next]_vars
  PROVE  HeadIInv'
<1> USE DEF TurnIInv
<1>1. IInv'
  BY StepKeeps DEF HeadIInv
<1> SUFFICES Retried'
  BY <1>1 DEF HeadIInv
<1>2. CASE UserStep
  <2>1. PICK t \in Users : \E c \in Programs[t] : UserCall(t, c)
    BY <1>2 DEF UserStep
  <2>2. PICK c \in Programs[t] : UserCall(t, c)
    BY <2>1
  <2> QED
    BY <2>2, ProgramCalls, CallHasRoom, SyscallRetried DEF UserCall
<1>3. CASE Retry
  <2>1. CASE RetryBlocks \/ RetryEnds
    BY <2>1, RetryHasRoom, RetryRetried DEF RetryBlocks, RetryEnds
  <2> QED
    BY <1>3, <2>1, EndServeRetried DEF Retry
<1>4. CASE RomdevReceive \/ RomfsReceive
  BY <1>4, ReceiveRetried, FilesOf DEF RomdevReceive, RomfsReceive
<1>5. CASE RomdevAnswer \/ RomfsAnswer
  <2>1. CASE RomdevAnswer
    BY <2>1, RomdevResponds, AnswerRetried, FilesOf DEF HeadIInv
  <2>2. CASE RomfsAnswer
    BY <2>2, RomfsResponds, AnswerRetried, FilesOf DEF HeadIInv
  <2> QED
    BY <1>5, <2>1, <2>2
<1>6. CASE RomfsSeek \/ RomfsRead
  <2>1. PICK c \in Calls : c.fd = rom0 /\ Syscall(romfs, c)
    BY <1>6, RomfsCalls DEF HeadIInv
  <2>2. Free(c.fd) => HasRoom(c.fd)
    BY <2>1, FilesOf, RoomLeft
  <2> QED
    BY <2>1, <2>2, FilesOf, SyscallRetried
<1>7. CASE UNCHANGED vars
  BY <1>7 DEF vars, HeadIInv, Retried, HeadAsked, Free
<1> QED
  BY <1>2, <1>3, <1>4, <1>5, <1>6, <1>7 DEF Next, Romdev, Romfs

\* A step of a driver is a system call of romfs_server, or its receiving or answering a
\* request, which changes no call, no list and no request_pid.
LEMMA DriverStep ==
  ASSUME IInv, Collected, Romdev \/ Romfs
  PROVE  \/ \E c \in Calls : c.fd = rom0 /\ Syscall(romfs, c)
         \/ /\ UNCHANGED <<call, waiting>> /\ Collected'
            /\ \A g \in Files : file'[g].request_pid = file[g].request_pid
<1>1. CASE RomfsSeek \/ RomfsRead
  BY <1>1, RomfsCalls
<1>2. CASE RomdevReceive \/ RomfsReceive
  BY <1>2 DEF RomdevReceive, RomfsReceive, Receive, Collected, Free
<1>3. CASE RomdevAnswer \/ RomfsAnswer
  <2>1. PICK d \in Drivers, len \in Int, from \in Int :
          /\ hand[d] # NoRequest /\ Respond(hand[d].target, len, from)
          /\ hand' = [hand EXCEPT ![d] = NoRequest]
    BY <1>3, RomdevResponds, RomfsResponds, FilesOf
  <2>2. PICK f \in Files : f = hand[d].target /\ file[f].buzy
    BY <2>1, AnswerKeeps DEF IInv, Requested
  <2>3. Collected'
    BY <2>1, <2>2, RespondCollected DEF IInv
  <2> QED
    BY <2>1, <2>2, <2>3, Responded DEF IInv
<1> QED
  BY <1>1, <1>2, <1>3 DEF Romdev, Romfs

LEMMA StepCollected ==
  ASSUME TurnIInv, [Next]_vars
  PROVE  Collected'
<1> USE DEF TurnIInv, HeadIInv, IInv
<1>1. ASSUME NEW t \in Clients, NEW c \in Calls, Syscall(t, c)
      PROVE  Collected'
  BY <1>1, CollectedKept DEF Syscall
<1>2. CASE UserStep
  BY <1>1, <1>2, ProgramCalls DEF UserStep, UserCall
<1>3. CASE RetryBlocks \/ RetryEnds
  <2>1. PICK w \in Clients, c \in Calls : w = Waiter /\ c = call[w]
    BY <1>3, Visited DEF RetryBlocks, RetryEnds
  <2>2. UNCHANGED serving /\ (Submit(w, c) \/ Held(w, c) \/ Complete(w, c) \/ Refuse(w, c))
    BY <1>3, <2>1 DEF RetryBlocks, RetryEnds
  <2> QED
    BY <2>2, CollectedKept
<1>4. CASE Romdev \/ Romfs
  BY <1>1, <1>4, DriverStep, FilesOf
<1>5. CASE UNCHANGED vars
  BY <1>5 DEF vars, Collected, Free
<1> QED
  BY <1>2, <1>3, <1>4, <1>5, EndServeCollected DEF Next, Retry

\* A system call of another client leaves romfs_server on the device's list.
LEMMA SyscallAsked ==
  ASSUME TypeOK, Asked, NEW t \in Clients, NEW c \in Calls, Syscall(t, c),
         t = romfs => c.fd = rom0, t \in Users => c \in Programs[t]
  PROVE  Asked'
<1>1. PICK s \in Seq(Clients) : s = waiting[rom0]
  BY FilesOf DEF TypeOK
<1>2. CASE UNCHANGED <<call, waiting>>
  BY <1>2 DEF Asked
<1>3. CASE call' = [call EXCEPT ![t] = c] /\ waiting' = [waiting EXCEPT ![c.fd] = Append(@, t)]
  <2>1. \A x \in Clients : call'[x] = IF x = t THEN c ELSE call[x]
    BY <1>3 DEF TypeOK
  <2>2. waiting'[rom0] = IF c.fd = rom0 THEN Append(s, t) ELSE s
    BY <1>1, <1>3, FilesOf DEF TypeOK
  <2>3. /\ DOMAIN s = 1 .. Len(s) /\ Len(s) \in Nat
        /\ DOMAIN Append(s, t) = 1 .. Len(s) + 1
        /\ Append(s, t)[Len(s) + 1] = t /\ \A k \in 1 .. Len(s) : Append(s, t)[k] = s[k]
    BY <1>1
  <2>4. Len(s) + 1 \in 1 .. Len(s) + 1 /\ \A k \in 1 .. Len(s) : k \in 1 .. Len(s) + 1
    BY <2>3
  <2>5. ASSUME NEW i \in DOMAIN s, s[i] = romfs
        PROVE  \E j \in DOMAIN waiting'[rom0] : waiting'[rom0][j] = romfs
    BY <2>2, <2>3, <2>4, <2>5
  <2>6. CASE t = romfs
    <3>1. \E j \in DOMAIN waiting'[rom0] : waiting'[rom0][j] = romfs
      BY <2>2, <2>3, <2>4, <2>6
    <3>2. call'[romfs].fd = rom0
      BY <2>1, <2>6
    <3>3. \A x \in Users : call'[x] = call[x]
      BY <2>1, <2>6, FilesAssumption DEF Clients, Drivers
    <3> QED
      BY <3>1, <3>2, <3>3 DEF Asked, NoCall
  <2>7. CASE t # romfs
    <3>1. call'[romfs] = call[romfs]
      BY <2>1, <2>7, FilesOf
    <3>2. \A x \in Users : call'[x] = call[x] \/ call'[x] \in Programs[x]
      BY <2>1, <2>7 DEF Clients
    <3> QED
      BY <1>1, <2>5, <3>1, <3>2 DEF Asked, NoCall
  <2> QED
    BY <2>6, <2>7
<1> QED
  BY <1>2, <1>3 DEF Syscall

LEMMA RetryEndsAsked ==
  ASSUME TypeOK, Listed, Asked, RetryEnds
  PROVE  Asked'
<1>1. PICK w \in Clients, h \in Files, k \in Nat :
        /\ w = Waiter /\ h = serving /\ k = at /\ k \in 1 .. Len(waiting[h])
  BY Visited DEF RetryEnds, TypeOK
<1>2. PICK s \in Seq(Clients) : s = waiting[h]
  BY DEF TypeOK
<1>3. /\ s[k] = w /\ k \in 1 .. Len(s)
      /\ waiting' = [waiting EXCEPT ![h] = RemoveAt(s, k)]
      /\ call' = [call EXCEPT ![w] = NoCall]
  BY <1>1, <1>2 DEF RetryEnds, Waiter
<1>4. \A x \in Clients : call'[x] = IF x = w THEN NoCall ELSE call[x]
  BY <1>3 DEF TypeOK
<1>5. ASSUME call'[romfs] # NoCall
      PROVE  \E j \in DOMAIN waiting'[rom0] : waiting'[rom0][j] = romfs
  <2>1. w # romfs /\ call'[romfs] = call[romfs]
    BY <1>4, <1>5, FilesOf
  <2>2. PICK i \in DOMAIN waiting[rom0] : waiting[rom0][i] = romfs
    BY <1>5, <2>1 DEF Asked
  <2>3. CASE h # rom0
    <3>1. waiting'[rom0] = waiting[rom0]
      BY <1>3, <2>3, FilesOf DEF TypeOK
    <3> QED
      BY <2>2, <3>1
  <2>4. CASE h = rom0
    <3>1. waiting'[rom0] = RemoveAt(s, k)
      BY <1>3, <2>4 DEF TypeOK
    <3>2. PICK m \in Nat : m = Len(s)
      BY <1>2
    <3>3. i \in 1 .. m /\ s[i] = romfs /\ i # k /\ k \in 1 .. m
      BY <1>2, <1>3, <2>1, <2>2, <2>4, <3>2
    <3>4. PICK r \in Seq(Clients) : r = RemoveAt(s, k)
      BY <1>3, RemovedAt
    <3>5. Len(r) = m - 1 /\ \A j \in 1 .. m - 1 : r[j] = IF j < k THEN s[j] ELSE s[j + 1]
      BY <1>3, <3>2, <3>4, RemovedAt
    <3>6. DOMAIN r = 1 .. m - 1
      BY <3>4, <3>5
    <3>7. CASE i < k
      <4>1. i \in 1 .. m - 1
        BY <3>3, <3>7
      <4> QED
        BY <3>1, <3>3, <3>4, <3>5, <3>6, <3>7, <4>1
    <3>8. CASE i > k
      <4>1. i - 1 \in 1 .. m - 1 /\ ~(i - 1 < k) /\ (i - 1) + 1 = i
        BY <3>3, <3>8
      <4> QED
        BY <3>1, <3>3, <3>4, <3>5, <3>6, <4>1
    <3> QED
      BY <3>3, <3>7, <3>8
  <2> QED
    BY <2>3, <2>4
<1>6. \A x \in Clients : call'[x] = NoCall \/ call'[x] = call[x]
  BY <1>4
<1> QED
  BY <1>5, <1>6, FilesOf DEF Asked, Clients, NoCall

LEMMA StepAsked ==
  ASSUME TurnIInv, [Next]_vars
  PROVE  Asked'
<1> USE DEF TurnIInv, HeadIInv, IInv
<1>1. CASE UserStep
  <2>1. PICK t \in Users : \E c \in Programs[t] : UserCall(t, c)
    BY <1>1 DEF UserStep
  <2>2. PICK c \in Programs[t] : UserCall(t, c)
    BY <2>1
  <2>3. t # romfs /\ t \in Clients /\ c \in Calls /\ Syscall(t, c)
    BY <2>2, ProgramCalls, FilesAssumption DEF Drivers, UserCall
  <2> QED
    BY <2>3, SyscallAsked
<1>2. CASE Romdev \/ Romfs
  <2>1. ASSUME NEW c \in Calls, c.fd = rom0, Syscall(romfs, c)
        PROVE  Asked'
    <3>1. romfs \notin Users
      BY FilesAssumption DEF Drivers
    <3> QED
      BY <2>1, <3>1, FilesOf, SyscallAsked
  <2>2. CASE UNCHANGED <<call, waiting>>
    BY <2>2 DEF Asked
  <2> QED
    BY <1>2, <2>1, <2>2, DriverStep
<1>3. CASE RetryBlocks \/ EndServe \/ UNCHANGED vars
  BY <1>3 DEF RetryBlocks, EndServe, vars, Asked
<1> QED
  BY <1>1, <1>2, <1>3, RetryEndsAsked DEF Next, Retry

\* A client's call leaves a file with another client's request as it is.
LEMMA AnothersRequest ==
  ASSUME TypeOK, NEW t \in Clients, NEW c \in Calls,
         Submit(t, c) \/ Held(t, c) \/ Complete(t, c) \/ Refuse(t, c),
         NEW u \in Clients \ {t}, NEW g \in Files, file[g].request_pid = u
  PROVE  file'[g].request_pid = u
<1>1. CASE Submit(t, c)
  <2>1. file[c.fd].request_pid = Nobody
    BY <1>1 DEF Submit, Free
  <2>2. g # c.fd
    BY <2>1, FilesOf
  <2> QED
    BY <1>1, <2>2, SubmittedFile
<1>2. CASE Complete(t, c)
  BY <1>2, CompletedFile
<1>3. CASE Held(t, c) \/ Refuse(t, c)
  BY <1>3 DEF Held, Refuse
<1> QED
  BY <1>1, <1>2, <1>3

\* The calls of less urgent users go on, and nobody else makes their requests.
LEMMA LessUrgentKept ==
  ASSUME OneLessUrgent, \A x \in Users : InCall(x)' => InCall(x) /\ call'[x] = call[x],
         \A x \in Users : InCall(x)' => file'[call[x].fd].request_pid = x
  PROVE  OneLessUrgent'
BY DEF OneLessUrgent

LEMMA UserCallLessUrgent ==
  ASSUME RoomForRequests, TurnIInv, NEW t \in Users, NEW c \in Programs[t], UserCall(t, c)
  PROVE  OneLessUrgent'
<1> USE DEF TurnIInv, HeadIInv, IInv
<1>1. /\ t \in Clients /\ c \in Calls /\ c.fd \in Files /\ t # Nobody /\ Syscall(t, c)
      /\ serving = NoFile
  BY ProgramCalls, FilesOf DEF UserCall, Syscall, Calls
<1>2. Submit(t, c) \/ Held(t, c) \/ Complete(t, c) \/ Refuse(t, c)
  BY <1>1 DEF Syscall
<1>3. \A x \in Users \ {t} : call'[x] = call[x] /\ x \in Clients /\ x # Nobody
  BY <1>1, FilesOf DEF Syscall, TypeOK, Clients
<1>4. CASE t \in Urgent
  <2>1. ASSUME NEW x \in Users, InCall(x)'
        PROVE  InCall(x) /\ call'[x] = call[x] /\ file'[call[x].fd].request_pid = x
    <3>1. x # t /\ InCall(x) /\ call'[x] = call[x] /\ x \in Clients \ {t}
      BY <1>3, <1>4, <2>1 DEF InCall, NoCall
    <3>2. file[call[x].fd].request_pid = x
      BY <3>1 DEF OneLessUrgent
    <3>3. call[x] \in Calls
      BY <3>1 DEF InCall, TypeOK
    <3>4. call[x].fd \in Files
      BY <3>3 DEF Calls
    <3> QED
      BY <1>1, <1>2, <3>1, <3>2, <3>4, AnothersRequest
  <2> QED
    BY <2>1, LessUrgentKept
<1>5. CASE t \notin Urgent
  <2>1. \A f \in Files : Free(f) /\ HasRoom(f)
    <3>1. \A f \in Files : Free(f) /\ fifo[driver(f)] = <<>>
      BY <1>1, <1>5, DriversRest DEF UserCall
    <3>2. ASSUME NEW f \in Files PROVE HasRoom(f)
      <4>1. driver(f) \in Drivers
        BY FilesOf
      <4>2. Room[driver(f)] > 0 /\ Len(fifo[driver(f)]) = 0
        BY <3>1, <4>1, FilesAssumption
      <4> QED
        BY <4>2 DEF HasRoom
    <3> QED
      BY <3>1, <3>2
  <2>2. ASSUME NEW x \in Users PROVE ~InCall(x)
    <3> SUFFICES ASSUME InCall(x) PROVE FALSE
      OBVIOUS
    <3>1. x \in Clients /\ x # Nobody /\ call[x] \in Calls
      BY FilesOf DEF Clients, InCall, TypeOK
    <3>2. call[x].fd \in Files /\ file[call[x].fd].request_pid = x
      BY <3>1 DEF OneLessUrgent, Calls
    <3> QED
      BY <2>1, <3>1, <3>2 DEF Free
  <2>3. \A x \in Users : InCall(x)' => x = t
    BY <1>3, <2>2 DEF InCall, NoCall
  <2>4. CASE Submit(t, c)
    <3>1. file'[c.fd].request_pid = t
      BY <1>1, <2>4, SubmittedFile
    <3>2. call'[t] = c
      BY <1>1, <2>1, <2>4, FilesOf DEF Syscall, TypeOK, Submit, Complete, Refuse, Answered, Free
    <3> QED
      BY <2>3, <3>1, <3>2 DEF OneLessUrgent
  <2>5. CASE Refuse(t, c) /\ ~Submit(t, c)
    <3>1. ~Held(t, c) /\ ~Complete(t, c)
      BY <1>1, <2>1 DEF Held, Complete, Answered, Free
    <3>2. UNCHANGED call
      BY <1>1, <2>5, <3>1 DEF Syscall
    <3> QED
      BY <2>2, <3>2 DEF OneLessUrgent, InCall, NoCall
  <2>6. ~Held(t, c) /\ ~Complete(t, c)
    BY <1>1, <2>1 DEF Held, Complete, Answered, Free
  <2> QED
    BY <1>2, <2>4, <2>5, <2>6
<1> QED
  BY <1>4, <1>5

LEMMA RetryLessUrgent ==
  ASSUME TurnIInv, RetryBlocks \/ RetryEnds
  PROVE  OneLessUrgent'
<1> USE DEF TurnIInv, HeadIInv, IInv
<1>1. PICK w \in Clients, c \in Calls : w = Waiter /\ c = call[w]
  BY Visited DEF RetryBlocks, RetryEnds
<1>2. \A x \in Clients : call'[x] = call[x] \/ call'[x] = NoCall
  BY DEF RetryBlocks, RetryEnds, TypeOK
<1>3. Submit(w, c) \/ Held(w, c) \/ Complete(w, c) \/ Refuse(w, c)
  BY <1>1 DEF RetryBlocks, RetryEnds
<1>4. ASSUME NEW x \in Users, InCall(x)'
      PROVE  InCall(x) /\ call'[x] = call[x] /\ file'[call[x].fd].request_pid = x
  <2>1. x \in Clients /\ InCall(x) /\ call'[x] = call[x]
    BY <1>2, <1>4 DEF Clients, InCall, NoCall
  <2>2. call[x] \in Calls
    BY <2>1 DEF InCall, TypeOK
  <2>3. call[x].fd \in Files /\ file[call[x].fd].request_pid = x
    BY <2>1, <2>2 DEF OneLessUrgent, Calls
  <2>4. CASE x # w
    BY <1>3, <2>1, <2>3, <2>4, AnothersRequest
  <2>5. CASE x = w
    <3>1. ~RetryEnds
      BY <1>1, <1>4, <2>1, <2>5 DEF RetryEnds, TypeOK, InCall
    <3>2. Submit(w, c) \/ Held(w, c)
      BY <1>1, <3>1 DEF RetryBlocks
    <3> QED
      BY <1>1, <2>1, <2>3, <2>5, <3>2, SubmittedFile DEF Held
  <2> QED
    BY <2>1, <2>4, <2>5
<1> QED
  BY <1>4, LessUrgentKept

LEMMA DriverLessUrgent ==
  ASSUME TurnIInv, Romdev \/ Romfs
  PROVE  OneLessUrgent'
<1> USE DEF TurnIInv, HeadIInv, IInv
<1>1. ASSUME NEW x \in Users, InCall(x)
      PROVE  /\ x \in Clients \ {romfs}
             /\ call[x].fd \in Files /\ file[call[x].fd].request_pid = x
  <2>1. call[x] \in Calls /\ x \in Clients
    BY <1>1 DEF InCall, TypeOK, Clients
  <2> QED
    BY <1>1, <2>1, FilesAssumption DEF OneLessUrgent, Calls, Drivers
<1>2. ASSUME NEW c \in Calls, Syscall(romfs, c)
      PROVE  OneLessUrgent'
  <2>1. Submit(romfs, c) \/ Held(romfs, c) \/ Complete(romfs, c) \/ Refuse(romfs, c)
    BY <1>2 DEF Syscall
  <2>2. \A x \in Users : call'[x] = call[x]
    BY <1>2, FilesAssumption DEF Syscall, TypeOK, Clients, Drivers
  <2>3. ASSUME NEW x \in Users, InCall(x)'
        PROVE  InCall(x) /\ call'[x] = call[x] /\ file'[call[x].fd].request_pid = x
    <3>1. InCall(x) /\ call'[x] = call[x]
      BY <2>2, <2>3 DEF InCall, NoCall
    <3> QED
      BY <1>1, <2>1, <3>1, FilesOf, AnothersRequest
  <2> QED
    BY <2>3, LessUrgentKept
<1>3. CASE /\ UNCHANGED <<call, waiting>>
           /\ \A g \in Files : file'[g].request_pid = file[g].request_pid
  <2>1. ASSUME NEW x \in Users, InCall(x)'
        PROVE  InCall(x) /\ call'[x] = call[x] /\ file'[call[x].fd].request_pid = x
    <3>1. InCall(x) /\ call'[x] = call[x]
      BY <1>3, <2>1 DEF InCall, NoCall
    <3> QED
      BY <1>1, <1>3, <3>1
  <2> QED
    BY <2>1, LessUrgentKept
<1> QED
  BY <1>2, <1>3, DriverStep

LEMMA StepTurn ==
  ASSUME RoomForRequests, ReadOnlyFiles, TurnIInv, [Next]_vars
  PROVE  TurnIInv'
<1>1. OneLessUrgent'
  <2>1. CASE UserStep
    BY <2>1, UserCallLessUrgent DEF UserStep
  <2>2. CASE EndServe \/ UNCHANGED vars
    BY <2>2 DEF EndServe, vars, TurnIInv, OneLessUrgent, InCall, NoCall
  <2> QED
    BY <2>1, <2>2, RetryLessUrgent, DriverLessUrgent DEF Next, Retry
<1> QED
  BY <1>1, StepRetried, StepCollected, StepAsked DEF TurnIInv

LEMMA InitTurn == Init => TurnIInv
<1> SUFFICES ASSUME Init PROVE TurnIInv
  OBVIOUS
<1>1. Retried
  BY FilesOf DEF Init, Retried, HeadAsked
<1>2. Collected
  BY DEF Init, Collected, Free
<1>3. \A t \in Clients : call[t] = NoCall
  BY DEF Init
<1>4. Asked /\ OneLessUrgent
  BY <1>3, FilesOf DEF Asked, OneLessUrgent, InCall, Clients
<1> QED
  BY <1>1, <1>2, <1>4, InitIInv DEF TurnIInv, HeadIInv

\* Between two events the first task on a file's list is the one whose request
\* is in progress (event_monitor_serve retrying block_read, regfile_read, ...),
\* for any tasks, files and programs that read and seek, as long as each
\* driver's FIFO has room for the requests that urgent users can have in
\* progress at once, and one more (in the code it has room for one: one regular
\* file, or any number of them and users less urgent than the drivers).
THEOREM WaitersServedInTurn ==
  ASSUME RoomForRequests, ReadOnlyFiles
  PROVE  Spec => []HeadIsServed
<1>1. TurnIInv /\ [Next]_vars => TurnIInv'
  BY StepTurn
<1>2. TurnIInv => HeadIsServed
  BY FilesOf DEF TurnIInv, HeadIInv, Retried, HeadAsked, HeadIsServed
<1> QED
  BY <1>1, <1>2, InitTurn, PTL DEF Spec
-----------------------------------------------------------------------------
(* An answer is the one to its task's call *)

\* What a driver is to answer to request r: len, and the address `from` of the bytes
Reply(r, len, from) ==
  CASE r.cmd = "read" -> len = Extent(r) /\ (len > 0 => from = Address(r))
    [] r.cmd = "seek" -> len = SeekTo(r, Length[r.target])
    [] r.cmd = "write" -> len = -1

\* The task of the request in a driver's hands is the one its file holds.
LEMMA AskerInHand ==
  ASSUME IInv, Current, NEW d \in Drivers, hand[d] # NoRequest
  PROVE  /\ hand[d] \in Requests /\ hand[d].target \in Files /\ UpToDate(hand[d])
         /\ file[hand[d].target].buzy
         /\ file[hand[d].target].request_pid = hand[d].from /\ hand[d].from \in Clients
<1> USE DEF IInv
<1>1. 0 \in Places(d) /\ RequestAt(d, 0) = hand[d] /\ hand[d] \in Requests
  BY PlaceTypes
<1>2. PICK f \in Files : f = hand[d].target /\ driver(f) = d
  BY <1>1 DEF Addressed, Requests
<1>3. 0 \in Unanswered(f)
  BY <1>1, <1>2 DEF Unanswered
<1>4. file[f].buzy /\ RequestAt(d, 0).from = file[f].request_pid
  BY <1>2, <1>3 DEF OneRequest
<1>5. UpToDate(hand[d])
  BY <1>1 DEF Current
<1> QED
  BY <1>1, <1>2, <1>4, <1>5 DEF Requests

LEMMA RespondRight ==
  ASSUME IInv, Current, NEW d \in Drivers, hand[d] # NoRequest,
         NEW len \in Int, NEW from \in Int, Respond(hand[d].target, len, from),
         Reply(hand[d], len, from)
  PROVE  RightAnswer'
<1>1. PICK r \in Requests, f \in Files : r = hand[d] /\ f = r.target
  BY AskerInHand
<1>2. /\ UpToDate(r) /\ file[f].buzy /\ file[f].request_pid = r.from /\ TypeOK
      /\ r.from \in Clients
  BY <1>1, AskerInHand DEF IInv
<1>3. /\ \A g \in Files : /\ file'[g].pos = file[g].pos
                           /\ file'[g].request_pid = file[g].request_pid
      /\ file'[f].transfer_len = len /\ (len > 0 => file'[f].buf = from)
      /\ serving' = f /\ UNCHANGED call
  BY <1>1, <1>2, Responded
<1>4. UpToDate(r)'
  BY <1>1, <1>2, <1>3, StillUpToDate
<1>5. PICK c \in Calls : c = call'[r.from] /\ c.fd = f /\ ~BadWhence(c) /\ r = Request(r.from, c)'
  <2>1. call'[r.from] \in Calls /\ ~BadWhence(call'[r.from])
    BY <1>4 DEF UpToDate, Calls, BadWhence, SEEK_SET, SEEK_CUR, SEEK_END
  <2>2. PICK c \in Calls : c = call'[r.from]
    BY <2>1
  <2>3. r = Request(r.from, c)'
    BY <1>4, <2>2 DEF UpToDate
  <2>4. Request(r.from, c)'.target = c.fd
    BY DEF Request
  <2> QED
    BY <1>1, <2>1, <2>2, <2>3, <2>4
<1>6. Answers(f, r)'
  <2>1. Reply(r, len, from)
    BY <1>1
  <2> QED
    BY <1>1, <1>3, <2>1 DEF Reply, Answers, Extent, Address, ReadEnd, ReadStart, SeekTo
<1>7. file'[serving'].request_pid = r.from
  BY <1>2, <1>3
<1> QED
  BY <1>3, <1>5, <1>6, <1>7 DEF RightAnswer, BadWhence, Calls, SEEK_SET, SEEK_CUR, SEEK_END

\* No retry leaves an answer behind for the next one.
LEMMA RetryRight ==
  ASSUME HeadIInv, RetryBlocks \/ RetryEnds
  PROVE  RightAnswer'
<1> USE DEF HeadIInv, IInv
<1>0. Visit
  BY DEF RetryBlocks, RetryEnds
<1>1. PICK w \in Clients, c \in Calls, f \in Files, k \in Nat \ {0} :
        w = Waiter /\ c = call[w] /\ f = serving /\ k = at /\ c.fd = f
  BY <1>0, Visited DEF TypeOK
<1>2. CASE RetryBlocks
  <2>1. at' = k + 1
    BY <1>1, <1>2 DEF RetryBlocks
  <2> QED
    BY <2>1 DEF RightAnswer
<1>3. CASE RetryEnds
  <2>1. Complete(w, c) \/ Refuse(w, c)
    BY <1>1, <1>3 DEF RetryEnds
  <2>2. Free(f)'
    BY <1>1, <2>1, CompletedFile DEF Refuse, Free
  <2>3. serving' = f
    BY <1>1, <1>3 DEF RetryEnds
  <2> QED
    BY <2>2, <2>3 DEF RightAnswer, Free
<1> QED
  BY <1>2, <1>3
-----------------------------------------------------------------------------
(* What romfs_server reads *)

\* The request to read in a driver's hands lies within its file, and its bytes
\* within the device.
LEMMA ReadFits ==
  ASSUME NEW r \in Requests, NEW f \in Files, f = r.target, r.pos \in Nat, r.size \in 0 .. BUF
  PROVE  /\ Address(r) \in Nat /\ Extent(r) \in 0 .. BUF
         /\ Address(r) + Extent(r) <= Length[rom0]
<1>1. PICK s \in Nat, l \in Nat, m \in Nat :
        s = Start[f] /\ l = Length[f] /\ m = Length[rom0] /\ s + l <= m
  <2>1. Start[f] \in Nat /\ Length[f] \in Nat /\ Length[rom0] \in Nat
    BY FilesAssumption, FilesOf
  <2>2. Start[f] + Length[f] <= Length[rom0]
    BY <2>1, FilesAssumption DEF Files
  <2> QED
    BY <2>1, <2>2
<1>2. BUF \in Nat
  BY FilesAssumption
<1>3. ReadStart(f, r) = (IF r.pos > l THEN l ELSE r.pos)
  BY <1>1 DEF ReadStart
<1>4. PICK a \in 0 .. l : a = ReadStart(f, r)
  BY <1>3, <1>1
<1>5. PICK b \in a .. l : b = ReadEnd(f, r) /\ b - a <= r.size
  BY <1>1, <1>2, <1>4 DEF ReadEnd
<1>6. Address(r) = s + a /\ Extent(r) = b - a
  BY <1>1, <1>4, <1>5 DEF Address, Extent
<1> QED
  BY <1>1, <1>2, <1>4, <1>5, <1>6

\* A request to read asks for no more than a buffer, from a position of its file on.
LEMMA ReadAsked ==
  ASSUME TypeOK, Sized, NEW t \in Clients, NEW c \in Calls, c = call[t], c.op = "read"
  PROVE  /\ Request(t, c).pos = file[c.fd].pos /\ file[c.fd].pos \in Nat
         /\ Request(t, c).size = Clipped(c.size) /\ Clipped(c.size) \in 0 .. BUF
         /\ c.size \in Nat
<1>1. file[c.fd].pos \in Nat
  BY DEF TypeOK, FileState, Calls
<1>2. c.size \in Nat
  BY DEF Sized, Calls
<1>3. Clipped(c.size) \in 0 .. BUF
  BY <1>2, FilesAssumption DEF Clipped
<1> QED
  BY <1>1, <1>2, <1>3 DEF Request

LEMMA RomfsReads ==
  ASSUME IInv, Sized, Current, hand[romfs] # NoRequest, hand[romfs].cmd = "read"
  PROVE  /\ Address(hand[romfs]) \in Nat /\ Extent(hand[romfs]) \in 0 .. BUF
         /\ Address(hand[romfs]) + Extent(hand[romfs]) <= Length[rom0]
         /\ hand[romfs].target \in Reg
<1>1. PICK r \in Requests : /\ r = hand[romfs] /\ UpToDate(r) /\ r.target \in Files
                            /\ r.from \in Clients
  BY AskerInHand, FilesOf
<1>2. PICK c \in Calls : c = call[r.from] /\ r = Request(r.from, c)
  BY <1>1 DEF UpToDate
<1>3. c.op = "read" /\ c.fd = r.target
  BY <1>1, <1>2 DEF Request
<1>4. r.pos \in Nat /\ r.size \in 0 .. BUF
  BY <1>1, <1>2, <1>3, ReadAsked DEF IInv
<1>5. r.target \in Reg
  BY <1>1, InHand, FilesOf DEF IInv
<1> QED
  BY <1>1, <1>4, <1>5, ReadFits

\* The device's answers to romfs_server
LEMMA DeviceSeek ==
  ASSUME NEW a \in Nat
  PROVE  LET q == Request(romfs, Call("seek", rom0, a, SEEK_SET))
         IN q.cmd = "seek" /\ SeekTo(q, Length[rom0]) = a
<1> DEFINE c == Call("seek", rom0, a, SEEK_SET)
           q == Request(romfs, c)
<1>1. c.op = "seek" /\ c.whence = SEEK_SET /\ c.size = a
  BY DEF Call
<1> HIDE DEF c
<1>2. q.cmd = "seek" /\ q.pos = 0 /\ q.size = a
  BY <1>1 DEF Request, SEEK_SET, SEEK_END
<1>3. SeekTo(q, Length[rom0]) = a
  BY <1>2 DEF SeekTo
<1> QED
  BY <1>2, <1>3 DEF c

LEMMA DeviceRead ==
  ASSUME NEW a \in Nat, NEW n \in 0 .. BUF, file[rom0].pos = a, a + n <= Length[rom0]
  PROVE  LET q == Request(romfs, Call("read", rom0, n, 0))
         IN q.cmd = "read" /\ Extent(q) = n /\ Address(q) = a
<1> DEFINE q == Request(romfs, Call("read", rom0, n, 0))
<1>1. BUF \in Nat /\ Start[rom0] = 0 /\ Length[rom0] \in Nat
  BY FilesAssumption, FilesOf
<1>2. Clipped(n) = n
  BY <1>1 DEF Clipped
<1>3. q.cmd = "read" /\ q.target = rom0 /\ q.size = n /\ q.pos = a
  BY <1>2 DEF Request, Call
<1>4. ReadStart(rom0, q) = a
  BY <1>1, <1>3 DEF ReadStart
<1>5. ReadEnd(rom0, q) = a + n
  BY <1>1, <1>3, <1>4 DEF ReadEnd
<1> QED
  BY <1>1, <1>3, <1>4, <1>5 DEF Extent, Address
-----------------------------------------------------------------------------
(* Nobody comes between romfs_server's seek and read *)

\* Steps in which romfs_server, its call and the device's position and list rest
LEMMA StageKept ==
  ASSUME Stage, hand'[romfs] = hand[romfs], step' = step, call'[romfs] = call[romfs],
         ret'[romfs] = ret[romfs], file'[rom0].pos = file[rom0].pos,
         waiting'[rom0] = waiting[rom0]
  PROVE  Stage'
BY DEF Stage, InService, RomfsIdle, RomfsCall, DeviceAt, Address, Extent, ReadStart, ReadEnd,
       Call, NoCall, NoRequest, SEEK_SET, Last

\* The calls romfs_server may be in, and where it then waits
LEMMA RomfsBlocked ==
  ASSUME TypeOK, AtRequest, Stage, ~RomfsIdle
  PROVE  /\ hand[romfs] # NoRequest /\ hand[romfs].cmd = "read" /\ step \in {"read", "answer"}
         /\ step = "read" => RomfsCall(Call("seek", rom0, Address(hand[romfs]), SEEK_SET))
         /\ step = "answer" => /\ RomfsCall(Call("read", rom0, Extent(hand[romfs]), 0))
                               /\ DeviceAt(hand[romfs]) /\ waiting[rom0] = <<romfs>>
         /\ waiting[rom0] # <<>> /\ Last(waiting[rom0]) = romfs
         /\ call[romfs].fd = rom0 /\ ~BadWhence(call[romfs])
<1>1. hand[romfs] # NoRequest /\ hand[romfs].cmd = "read"
  BY DEF Stage, InService
<1>2. step \in {"recv", "seek", "read", "answer"} /\ step # "recv"
  BY <1>1 DEF TypeOK, AtRequest
<1>3. InService(hand[romfs])
  BY <1>1 DEF Stage
<1>4. step # "seek"
  BY <1>1, <1>3 DEF InService
<1>5. CASE step = "read"
  <2>1. RomfsCall(Call("seek", rom0, Address(hand[romfs]), SEEK_SET))
    BY <1>1, <1>3, <1>5 DEF InService
  <2>2. call[romfs] = Call("seek", rom0, Address(hand[romfs]), SEEK_SET)
    BY <2>1 DEF RomfsCall
  <2>3. call[romfs].fd = rom0 /\ call[romfs].whence = SEEK_SET
    BY <2>2 DEF Call
  <2> QED
    BY <1>1, <1>5, <2>1, <2>3 DEF RomfsCall, BadWhence
<1>6. CASE step = "answer"
  <2>1. /\ RomfsCall(Call("read", rom0, Extent(hand[romfs]), 0))
        /\ DeviceAt(hand[romfs]) /\ waiting[rom0] = <<romfs>>
    BY <1>1, <1>3, <1>6 DEF InService
  <2>2. call[romfs] = Call("read", rom0, Extent(hand[romfs]), 0)
    BY <2>1 DEF RomfsCall
  <2>3. call[romfs].fd = rom0 /\ call[romfs].op = "read"
    BY <2>2 DEF Call
  <2> QED
    BY <1>1, <1>6, <2>1, <2>3 DEF RomfsCall, BadWhence
<1> QED
  BY <1>2, <1>4, <1>5, <1>6

\* A file that a step does not touch
LEMMA ElsewhereKept ==
  ASSUME TypeOK, NEW t \in Clients, NEW c \in Calls, c.fd # rom0,
         Submit(t, c) \/ Held(t, c) \/ Complete(t, c) \/ Refuse(t, c)
  PROVE  file'[rom0] = file[rom0]
BY SubmittedFile, CompletedFile, FilesOf DEF Held, Refuse

LEMMA UserCallStage ==
  ASSUME DeviceLeftAlone, TurnIInv, Stage,
         NEW t \in Users, NEW c \in Programs[t], UserCall(t, c)
  PROVE  Stage'
<1>1. t \in Clients /\ c \in Calls /\ t # romfs
  BY ProgramCalls, FilesAssumption DEF Drivers
<1>2. /\ Syscall(t, c) /\ UNCHANGED driverVars /\ TypeOK
      /\ romfs \in Clients /\ rom0 \in Files /\ c.fd \in Files
  BY <1>1, FilesOf DEF UserCall, TurnIInv, HeadIInv, IInv, Calls
<1>3. call'[romfs] = call[romfs]
  BY <1>1, <1>2 DEF Syscall, TypeOK
<1>4. ret'[romfs] = ret[romfs]
  <2>1. \A x : [ret EXCEPT ![t] = x][romfs] = ret[romfs]
    BY <1>1, <1>2 DEF TypeOK
  <2>2. ~Complete(t, c)
    BY <1>1, <1>2, NotAtOnce DEF TurnIInv
  <2>3. UNCHANGED ret \/ Refuse(t, c)
    BY <1>2, <2>2 DEF Syscall
  <2> QED
    BY <2>1, <2>3 DEF Refuse
<1>5. CASE c.fd # rom0
  <2>1. file'[rom0] = file[rom0]
    BY <1>1, <1>2, <1>5, ElsewhereKept DEF Syscall
  <2>2. waiting'[rom0] = waiting[rom0]
    BY <1>2, <1>5 DEF Syscall, TypeOK
  <2> QED
    BY <1>2, <1>3, <1>4, <2>1, <2>2, StageKept DEF driverVars
<1>6. CASE c.fd = rom0
  <2>1. t \notin Urgent
    BY <1>6 DEF DeviceLeftAlone
  <2>2. hand[romfs] = NoRequest /\ RomfsIdle
    BY <1>2, <2>1, DriversRest DEF UserCall, Syscall, TurnIInv
  <2>3. step = "recv"
    BY <2>2 DEF TurnIInv, HeadIInv, IInv, AtRequest
  <2>4. hand'[romfs] = NoRequest /\ step' = "recv"
    BY <1>2, <2>2, <2>3 DEF driverVars
  <2> QED
    BY <1>3, <2>2, <2>4 DEF Stage, RomfsIdle, NoCall, NoRequest
<1> QED
  BY <1>5, <1>6

LEMMA RetryBlocksStage ==
  ASSUME IInv, Stage, RetryBlocks
  PROVE  Stage'
<1>1. PICK w \in Clients, c \in Calls : w = Waiter /\ c = call[w]
  BY Visited DEF RetryBlocks, IInv
<1>2. (Submit(w, c) \/ Held(w, c)) /\ UNCHANGED <<waiting, call, ret, hand, step>>
  BY <1>1 DEF RetryBlocks, driverVars
<1>3. file'[rom0].pos = file[rom0].pos
  BY <1>2, PositionKept, FilesOf DEF IInv
<1> QED
  BY <1>2, <1>3, StageKept

\* romfs_server's call on the device ends: it was alone on the device's list.
LEMMA RomfsReleased ==
  ASSUME SharedIInv, RetryEnds, Waiter = romfs
  PROVE  Stage'
<1> USE DEF SharedIInv, TurnIInv, HeadIInv, IInv
<1>1. /\ romfs \in Clients /\ rom0 \in Files /\ call[romfs] \in Calls /\ ~RomfsIdle
      /\ call[romfs].fd = serving /\ waiting[serving][at] = romfs
      /\ at \in 1 .. Len(waiting[serving])
  BY Visited, FilesOf, Kinds DEF RetryEnds, RomfsIdle, Waiter
<1>2. PICK r \in Requests : r = hand[romfs] /\ hand[romfs] # NoRequest
  BY <1>1, RomfsBlocked DEF TypeOK, Drivers
<1>3. PICK a \in Nat, n \in 0 .. BUF :
        a = Address(r) /\ n = Extent(r) /\ a + n <= Length[rom0] /\ r.cmd = "read"
  BY <1>1, <1>2, RomfsBlocked, RomfsReads
<1>4. serving = rom0 /\ ~BadWhence(call[romfs])
  BY <1>1, RomfsBlocked
<1>5. PICK c \in Calls : c = call[romfs] /\ c.fd = rom0
  BY <1>1, <1>4
<1>6. Complete(romfs, c)
  BY <1>4, <1>5 DEF RetryEnds, Refuse
<1>7. /\ file'[rom0].pos = NewPos(c)
      /\ ret'[romfs] = Result(file[rom0].transfer_len,
                              IF c.op = "read" /\ file[rom0].transfer_len > 0
                              THEN file[rom0].buf ELSE NoBytes)
  <2>1. \A x : [ret EXCEPT ![romfs] = x][romfs] = x
    BY <1>1 DEF TypeOK
  <2> QED
    BY <1>1, <1>5, <1>6, <2>1, Completed
<1>8. at = 1
  BY <1>1, <1>4, <1>5, <1>6 DEF Complete, Answered, Retried
<1>9. waiting'[rom0] = <<>>
  <2>1. PICK s \in Seq(Clients) : s = waiting[rom0]
    BY <1>1 DEF TypeOK
  <2>2. s # <<>> /\ Last(s) = romfs /\ s[1] = romfs
    BY <1>1, <1>4, <1>8, <2>1, RomfsBlocked
  <2>3. Len(s) \in Nat \ {0} /\ 1 \in DOMAIN s /\ Len(s) \in DOMAIN s /\ s[Len(s)] = romfs
    BY <2>1, <2>2 DEF Last
  <2>4. Len(s) = 1
    <3>1. \A i, j \in DOMAIN s : s[i] = s[j] => i = j
      BY <1>1, <2>1 DEF Listed
    <3> QED
      BY <2>2, <2>3, <3>1
  <2>5. RemoveAt(s, 1) \in Seq(Clients) /\ Len(RemoveAt(s, 1)) = 0
    <3>1. 1 \in 1 .. Len(s) /\ Len(s) - 1 = 0
      BY <2>4
    <3>2. RemoveAt(s, 1) \in Seq(Clients) /\ Len(RemoveAt(s, 1)) = Len(s) - 1
      BY <3>1, RemovedAt
    <3> QED
      BY <3>1, <3>2
  <2>6. waiting'[rom0] = RemoveAt(s, 1)
    BY <1>1, <1>4, <1>8, <2>1 DEF RetryEnds, TypeOK
  <2> QED
    BY <2>5, <2>6
<1>10. Answers(rom0, Request(romfs, c))
  <2>1. file[rom0].request_pid = romfs /\ ~Free(rom0) /\ serving # NoFile
    BY <1>1, <1>4, <1>5, <1>6, FilesOf DEF Complete, Answered, Free
  <2> QED
    BY <1>4, <1>5, <1>8, <2>1 DEF RightAnswer
<1>11. call'[romfs] = NoCall /\ hand'[romfs] = r /\ step' = step
  BY <1>1, <1>2 DEF RetryEnds, TypeOK, driverVars
<1>12. Address(r)' = a /\ Extent(r)' = n
  BY <1>3 DEF Address, Extent, ReadStart, ReadEnd
<1>13. CASE step = "read"
  <2>1. c = Call("seek", rom0, a, SEEK_SET)
    BY <1>1, <1>2, <1>3, <1>5, <1>13, RomfsBlocked DEF RomfsCall
  <2>2. file[rom0].transfer_len = a /\ c.op = "seek"
    <3>1. c.op = "seek"
      BY <2>1 DEF Call
    <3> QED
      BY <1>10, <2>1, <3>1, DeviceSeek DEF Answers
  <2>3. file'[rom0].pos = a
    BY <1>5, <1>7, <2>2 DEF NewPos
  <2> QED
    BY <1>2, <1>3, <1>9, <1>11, <1>12, <1>13, <2>3
      DEF Stage, InService, RomfsIdle, DeviceAt, NoRequest, NoCall
<1>14. CASE step = "answer"
  <2>1. c = Call("read", rom0, n, 0) /\ file[rom0].pos = a
    BY <1>1, <1>2, <1>3, <1>5, <1>14, RomfsBlocked DEF RomfsCall, DeviceAt
  <2>2. /\ file[rom0].transfer_len = n /\ c.op = "read"
        /\ n > 0 => file[rom0].buf = a
    <3>1. c.op = "read"
      BY <2>1 DEF Call
    <3> QED
      BY <1>3, <1>10, <2>1, <3>1, DeviceRead DEF Answers
  <2>3. ret'[romfs].value = n /\ (n > 0 => ret'[romfs].from = a)
    BY <1>7, <2>2 DEF Result
  <2> QED
    BY <1>2, <1>3, <1>11, <1>12, <1>14, <2>3
      DEF Stage, InService, RomfsIdle, NoRequest, NoCall
<1> QED
  BY <1>1, <1>13, <1>14, RomfsBlocked

\* Another task's call ends.
LEMMA OtherReleased ==
  ASSUME SharedIInv, RetryEnds, Waiter # romfs
  PROVE  Stage'
<1> USE DEF SharedIInv, TurnIInv, HeadIInv, IInv
<1>1. PICK w \in Clients, c \in Calls, f \in Files, k \in Nat :
        /\ w = Waiter /\ c = call[w] /\ f = serving /\ k = at /\ c.fd = f
        /\ k \in 1 .. Len(waiting[f]) /\ waiting[f][k] = w
  BY Visited DEF RetryEnds, Waiter
<1>2. /\ Complete(w, c) \/ Refuse(w, c)
      /\ call' = [call EXCEPT ![w] = NoCall] /\ waiting' = [waiting EXCEPT ![f] = RemoveAt(@, k)]
      /\ UNCHANGED <<hand, step>> /\ romfs \in Clients /\ rom0 \in Files
  BY <1>1, FilesOf DEF RetryEnds, driverVars
<1>3. call'[romfs] = call[romfs] /\ ret'[romfs] = ret[romfs]
  <2>1. call'[romfs] = call[romfs]
    BY <1>1, <1>2 DEF TypeOK
  <2>2. \A x : [ret EXCEPT ![w] = x][romfs] = ret[romfs]
    BY <1>1, <1>2 DEF TypeOK
  <2> QED
    BY <1>2, <2>1, <2>2 DEF Complete, Refuse
<1>4. CASE f # rom0
  <2>1. file'[rom0] = file[rom0]
    BY <1>1, <1>2, <1>4, ElsewhereKept
  <2>2. waiting'[rom0] = waiting[rom0]
    BY <1>2, <1>4 DEF TypeOK
  <2> QED
    BY <1>2, <1>3, <2>1, <2>2, StageKept
<1>5. CASE f = rom0
  <2>1. PICK s \in Seq(Clients) : s = waiting[rom0] /\ k \in 1 .. Len(s) /\ s[k] = w
    BY <1>1, <1>2, <1>5 DEF TypeOK
  <2>2. s # <<>>
    BY <2>1
  <2>3. CASE RomfsIdle
    <3>1. hand[romfs] # NoRequest => ~(hand[romfs].cmd = "read" /\ step = "read")
      <4>1. \A x : Call("seek", rom0, x, SEEK_SET).op # NoCall.op
        BY DEF Call, NoCall
      <4>2. \A x : ~RomfsCall(Call("seek", rom0, x, SEEK_SET))
        BY <2>3, <4>1 DEF RomfsIdle, RomfsCall
      <4>3. waiting[rom0] # <<>>
        BY <2>1, <2>2
      <4> QED
        BY <4>2, <4>3 DEF Stage, InService
    <3>2. RomfsIdle'
      BY <1>3, <2>3 DEF RomfsIdle, NoCall
    <3>3. hand'[romfs] = hand[romfs] /\ step' = step
      BY <1>2
    <3>4. ASSUME hand[romfs] # NoRequest, hand[romfs].cmd = "read", step = "answer"
          PROVE  /\ ret[romfs].value = Extent(hand[romfs])
                 /\ Extent(hand[romfs]) > 0 => ret[romfs].from = Address(hand[romfs])
      BY <2>3, <3>4 DEF Stage, InService, RomfsIdle, RomfsCall, Call, NoCall
    <3>5. \A r : Extent(r)' = Extent(r) /\ Address(r)' = Address(r)
      BY DEF Extent, Address, ReadStart, ReadEnd
    <3>6. hand[romfs] # NoRequest => step # "recv" /\ step \in {"recv", "seek", "read", "answer"}
      BY DEF AtRequest, TypeOK
    <3> QED
      BY <1>3, <2>3, <3>1, <3>2, <3>3, <3>4, <3>5, <3>6 DEF Stage, InService, NoRequest
  <2>4. CASE ~RomfsIdle
    <3>1. PICK r \in Requests : r = hand[romfs] /\ r # NoRequest /\ r.cmd = "read"
      BY <2>4, RomfsBlocked DEF TypeOK, Drivers
    <3>2. Last(s) = romfs /\ w # romfs
      BY <1>1, <2>1, <2>4, RomfsBlocked
    <3>3. step = "read" /\ call[romfs] = Call("seek", rom0, Address(r), SEEK_SET)
      <4>1. step # "answer"
        <5>1. ASSUME s = <<romfs>> PROVE FALSE
          BY <2>1, <3>2, <5>1
        <5> QED
          BY <2>1, <2>4, <5>1, RomfsBlocked
      <4> QED
        BY <2>4, <3>1, <4>1, RomfsBlocked DEF RomfsCall
    <3>4. waiting'[rom0] # <<>> /\ Last(waiting'[rom0]) = romfs
      <4>1. PICK m \in Nat : m = Len(s) /\ s[m] = romfs
        BY <2>1, <3>2 DEF Last
      <4>2. k < m
        BY <2>1, <3>2, <4>1
      <4>3. PICK q \in Seq(Clients) : q = RemoveAt(s, k) /\ Len(q) = m - 1 /\ q[m - 1] = s[m]
        <5>1. /\ RemoveAt(s, k) \in Seq(Clients) /\ Len(RemoveAt(s, k)) = m - 1
              /\ \A i \in 1 .. m - 1 : RemoveAt(s, k)[i] = IF i < k THEN s[i] ELSE s[i + 1]
          BY <2>1, <4>1, RemovedAt
        <5>2. m - 1 \in 1 .. m - 1 /\ ~(m - 1 < k) /\ (m - 1) + 1 = m
          BY <2>1, <4>1, <4>2
        <5> QED
          BY <5>1, <5>2
      <4>4. waiting'[rom0] = q
        BY <1>2, <1>5, <2>1, <4>3 DEF TypeOK
      <4> QED
        BY <2>1, <4>1, <4>2, <4>3, <4>4 DEF Last
    <3>5. hand'[romfs] = r /\ step' = "read" /\ call'[romfs] = Call("seek", rom0, Address(r), SEEK_SET)
      BY <1>2, <1>3, <3>1, <3>3
    <3>6. Address(r)' = Address(r)
      BY DEF Address, ReadStart
    <3> QED
      BY <3>1, <3>4, <3>5, <3>6 DEF Stage, InService, RomfsCall, NoRequest, Call, SEEK_SET, Last
  <2> QED
    BY <2>3, <2>4
<1> QED
  BY <1>4, <1>5

\* romfs_server's calls are sent, or wait behind the one user on the device.
LEMMA RomfsBegins ==
  ASSUME SharedIInv, NEW c \in Calls, c.fd = rom0, ~BadWhence(c), Syscall(romfs, c)
  PROVE  /\ call'[romfs] = c /\ waiting'[rom0] # <<>> /\ Last(waiting'[rom0]) = romfs
         /\ waiting[rom0] = <<>> => waiting'[rom0] = <<romfs>>
         /\ file'[rom0].pos = file[rom0].pos
<1> USE DEF SharedIInv, TurnIInv, HeadIInv, IInv
<1>1. romfs \in Clients /\ rom0 \in Files
  BY FilesOf
<1>2. ~Complete(romfs, c) /\ ~Refuse(romfs, c)
  BY <1>1, NotAtOnce DEF Refuse
<1>3. /\ Submit(romfs, c) \/ Held(romfs, c)
      /\ call' = [call EXCEPT ![romfs] = c]
      /\ waiting' = [waiting EXCEPT ![rom0] = Append(@, romfs)]
  BY <1>2 DEF Syscall
<1>4. PICK s \in Seq(Clients) : s = waiting[rom0]
  BY <1>1 DEF TypeOK
<1>5. waiting'[rom0] = Append(s, romfs) /\ call'[romfs] = c
  BY <1>1, <1>3, <1>4 DEF TypeOK
<1>6. Append(s, romfs) # <<>> /\ Last(Append(s, romfs)) = romfs
  <2>1. /\ Len(Append(s, romfs)) = Len(s) + 1 /\ Len(s) \in Nat
        /\ Append(s, romfs)[Len(s) + 1] = romfs
    BY <1>1, <1>4
  <2> QED
    BY <2>1 DEF Last
<1>7. s = <<>> => Append(s, romfs) = <<romfs>>
  OBVIOUS
<1>8. file'[rom0].pos = file[rom0].pos
  BY <1>1, <1>3, PositionKept
<1> QED
  BY <1>4, <1>5, <1>6, <1>7, <1>8

LEMMA RomfsCallStage ==
  ASSUME SharedIInv, RomfsSeek \/ RomfsRead
  PROVE  Stage' /\ Sized'
<1> USE DEF SharedIInv, TurnIInv, HeadIInv, IInv
<1>1. PICK r \in Requests : r = hand[romfs] /\ hand[romfs] # NoRequest /\ r.cmd = "read"
  BY FilesOf DEF AtRequest, RomfsSeek, RomfsRead, TypeOK, Stage
<1>2. PICK a \in Nat, n \in 0 .. BUF : a = Address(r) /\ n = Extent(r)
  BY <1>1, RomfsReads
<1>3. /\ hand'[romfs] = r /\ step' # "recv" /\ hand' = hand
      /\ Address(r)' = a /\ Extent(r)' = n
  BY <1>1, <1>2 DEF RomfsSeek, RomfsRead, Address, Extent, ReadStart, ReadEnd
<1>4. n \in Nat /\ romfs \in Clients /\ rom0 \in Files
  BY <1>2, FilesOf, FilesAssumption
<1>5. ASSUME NEW c \in Calls, Syscall(romfs, c), c.op # "seek" => c.size >= 0
      PROVE  Sized'
  <2>1. \A x \in Clients : call'[x] = call[x] \/ call'[x] = c
    BY <1>4, <1>5 DEF Syscall, TypeOK
  <2> QED
    BY <1>5, <2>1 DEF Sized, Calls
<1>6. CASE RomfsSeek
  <2> DEFINE c == Call("seek", rom0, a, SEEK_SET)
  <2>1. c.op = "seek" /\ c.fd = rom0 /\ c.whence = SEEK_SET /\ c \in Calls
    BY <1>4 DEF Call, Calls, SEEK_SET
  <2>2. Syscall(romfs, c) /\ step' = "read"
    <3>1. Call("seek", rom0, Address(r), SEEK_SET) = c
      BY <1>2
    <3> QED
      BY <1>1, <1>6, <3>1 DEF RomfsSeek, Address
  <2>3. ~BadWhence(c)
    BY <2>1 DEF BadWhence
  <2>4. call'[romfs] = c /\ waiting'[rom0] # <<>> /\ Last(waiting'[rom0]) = romfs
    BY <2>1, <2>2, <2>3, RomfsBegins
  <2>5. Sized'
    BY <1>5, <2>1, <2>2
  <2> HIDE DEF c
  <2>6. RomfsCall(c)'
    BY <2>4 DEF RomfsCall, c, Call, SEEK_SET, Last
  <2>7. InService(r)'
    BY <1>1, <1>3, <2>2, <2>6 DEF InService, c, Call, SEEK_SET
  <2>8. Stage'
    BY <1>1, <1>3, <2>2, <2>7 DEF Stage, NoRequest
  <2> QED
    BY <2>5, <2>8
<1>7. CASE RomfsRead
  <2> DEFINE c == Call("read", rom0, n, 0)
  <2>1. c.op = "read" /\ c.fd = rom0 /\ c.size = n /\ c \in Calls
    BY <1>4 DEF Call, Calls
  <2>2. Syscall(romfs, c) /\ step' = "answer"
    <3>1. Call("read", rom0, Extent(r), 0) = c
      BY <1>2
    <3> QED
      BY <1>1, <1>7, <3>1 DEF RomfsRead, Extent
  <2>3. ~BadWhence(c)
    BY <2>1 DEF BadWhence
  <2>4. RomfsIdle /\ step = "read"
    BY <1>7 DEF RomfsRead, Syscall, RomfsIdle
  <2>5. DeviceAt(r) /\ waiting[rom0] = <<>>
    <3>1. \A x : Call("seek", rom0, x, SEEK_SET).op # NoCall.op
      BY DEF Call, NoCall
    <3>2. \A x : ~RomfsCall(Call("seek", rom0, x, SEEK_SET))
      BY <2>4, <3>1 DEF RomfsIdle, RomfsCall
    <3> QED
      BY <1>1, <2>4, <3>2 DEF Stage, InService
  <2>6. /\ call'[romfs] = c /\ waiting'[rom0] # <<>> /\ Last(waiting'[rom0]) = romfs
        /\ waiting'[rom0] = <<romfs>> /\ file'[rom0].pos = file[rom0].pos
    BY <2>1, <2>2, <2>3, <2>5, RomfsBegins
  <2>7. Sized'
    BY <1>4, <1>5, <2>1, <2>2
  <2> HIDE DEF c
  <2>8. RomfsCall(c)' /\ DeviceAt(r)'
    BY <1>2, <1>3, <2>5, <2>6 DEF RomfsCall, DeviceAt, c, Call, Last
  <2>9. InService(r)'
    BY <1>1, <1>3, <2>2, <2>6, <2>8 DEF InService, c, Call
  <2>10. Stage'
    BY <1>1, <1>3, <2>2, <2>9 DEF Stage, NoRequest
  <2> QED
    BY <2>7, <2>10
<1> QED
  BY <1>6, <1>7

\* Each driver's answer is the right one.
LEMMA RomdevReplies ==
  ASSUME SharedIInv, RomdevAnswer
  PROVE  \E len, from \in Int :
           Respond(hand[romdev].target, len, from) /\ Reply(hand[romdev], len, from)
<1> USE DEF SharedIInv, TurnIInv, HeadIInv, IInv
<1>1. PICK r \in Requests : r = hand[romdev] /\ r # NoRequest /\ r.target = rom0 /\ rom0 \in Files
  BY InHand, FilesOf DEF RomdevAnswer
<1>2. PICK a \in Int, b \in Int, e \in Int :
        a = ReadStart(rom0, r) /\ b = ReadEnd(rom0, r) /\ e = SeekTo(r, Length[rom0])
  BY <1>1, ReadBounds
<1>3. Start[rom0] = 0
  BY FilesAssumption
<1>4. Extent(r) = b - a /\ Address(r) = a
  BY <1>1, <1>2, <1>3 DEF Extent, Address
<1>5. CASE r.cmd = "read"
  <2>1. Respond(rom0, b - a, a) /\ b - a \in Int
    BY <1>1, <1>2, <1>5 DEF RomdevAnswer
  <2>2. Reply(r, b - a, a)
    BY <1>4, <1>5 DEF Reply
  <2> QED
    BY <1>1, <2>1, <2>2
<1>6. CASE r.cmd = "seek"
  <2>1. Respond(rom0, e, NoBytes) /\ NoBytes \in Int
    BY <1>1, <1>2, <1>6 DEF RomdevAnswer, NoBytes
  <2>2. Reply(r, e, NoBytes)
    BY <1>1, <1>2, <1>6 DEF Reply
  <2> QED
    BY <1>1, <2>1, <2>2
<1>7. CASE r.cmd = "write"
  <2>1. Respond(rom0, -1, NoBytes) /\ NoBytes \in Int /\ -1 \in Int
    BY <1>1, <1>7 DEF RomdevAnswer, NoBytes
  <2>2. Reply(r, -1, NoBytes)
    BY <1>7 DEF Reply
  <2> QED
    BY <1>1, <2>1, <2>2
<1> QED
  BY <1>1, <1>5, <1>6, <1>7 DEF Requests

LEMMA RomfsReplies ==
  ASSUME SharedIInv, RomfsAnswer
  PROVE  \E len, from \in Int :
           Respond(hand[romfs].target, len, from) /\ Reply(hand[romfs], len, from)
<1> USE DEF SharedIInv, TurnIInv, HeadIInv, IInv
<1>1. PICK r \in Requests : /\ r = hand[romfs] /\ hand[romfs] # NoRequest /\ target = r.target
                            /\ r.target \in Files /\ step = "answer"
  BY InHand, FilesOf DEF RomfsAnswer, AtRequest
<1>2. PICK v \in Int, b \in Int, e \in Int :
        v = ret[romfs].value /\ b = ret[romfs].from /\ e = SeekTo(r, Length[r.target])
  BY <1>1, ReadBounds, FilesOf DEF TypeOK
<1>3. CASE r.cmd = "read"
  <2>1. Respond(r.target, v, b)
    BY <1>1, <1>2, <1>3 DEF RomfsAnswer
  <2>2. \A x : Call("read", rom0, x, 0).op # NoCall.op
    BY DEF Call, NoCall
  <2>3. \A x : ~RomfsCall(Call("read", rom0, x, 0))
    BY <2>2 DEF RomfsAnswer, RomfsCall
  <2>4. v = Extent(r) /\ (Extent(r) > 0 => b = Address(r))
    BY <1>1, <1>2, <1>3, <2>3 DEF Stage, InService
  <2>5. Reply(r, v, b)
    BY <1>3, <2>4 DEF Reply
  <2> QED
    BY <1>1, <2>1, <2>5
<1>4. CASE r.cmd = "seek"
  <2>1. Respond(r.target, e, NoBytes) /\ NoBytes \in Int
    BY <1>1, <1>2, <1>4 DEF RomfsAnswer, NoBytes
  <2>2. Reply(r, e, NoBytes)
    BY <1>2, <1>4 DEF Reply
  <2> QED
    BY <1>1, <2>1, <2>2
<1>5. CASE r.cmd = "write"
  <2>1. Respond(r.target, -1, NoBytes) /\ NoBytes \in Int /\ -1 \in Int
    BY <1>1, <1>5 DEF RomfsAnswer, NoBytes
  <2>2. Reply(r, -1, NoBytes)
    BY <1>5 DEF Reply
  <2> QED
    BY <1>1, <2>1, <2>2
<1> QED
  BY <1>1, <1>3, <1>4, <1>5 DEF Requests
-----------------------------------------------------------------------------
(* The invariant is kept by each action *)

LEMMA SizedKept ==
  ASSUME Sized, \A x \in Clients : call'[x] = call[x] \/ call'[x] = NoCall
  PROVE  Sized'
BY Kinds DEF Sized, Calls

LEMMA InitShared == Init => SharedIInv
<1> SUFFICES ASSUME Init PROVE SharedIInv
  OBVIOUS
<1>1. TurnIInv
  BY InitTurn
<1>2. Sized
  BY Kinds DEF Init, Sized
<1>3. Current
  <2>1. \A d \in Drivers : Places(d) = {}
    BY <1>1, PlaceTypes DEF Init, Places, RequestAt, TurnIInv, HeadIInv, IInv
  <2> QED
    BY <2>1 DEF Current
<1>4. RightAnswer
  BY DEF Init, RightAnswer
<1>5. Stage
  BY FilesOf DEF Init, Stage, RomfsIdle
<1> QED
  BY <1>1, <1>2, <1>3, <1>4, <1>5 DEF SharedIInv

SharedParts == Sized /\ Current /\ RightAnswer /\ Stage

LEMMA UserCallShared ==
  ASSUME DeviceLeftAlone, SharedIInv, NEW t \in Users, NEW c \in Programs[t], UserCall(t, c)
  PROVE  SharedParts'
<1> USE DEF SharedIInv, TurnIInv, HeadIInv, IInv
<1>1. t \in Clients /\ c \in Calls /\ Syscall(t, c) /\ UNCHANGED <<hand, step>>
  BY ProgramCalls DEF UserCall, driverVars
<1>2. UNCHANGED serving /\ serving = NoFile
  BY <1>1 DEF Syscall
<1>3. Current'
  BY <1>1, SyscallCurrent
<1>4. RightAnswer'
  BY <1>2 DEF RightAnswer
<1>5. Sized'
  <2>1. \A x \in Clients : call'[x] = call[x] \/ call'[x] = c
    BY <1>1 DEF Syscall, TypeOK
  <2>2. c.op # "seek" => c.size >= 0
    BY FilesAssumption
  <2> QED
    BY <2>1, <2>2 DEF Sized, Calls
<1>6. Stage'
  BY UserCallStage
<1> QED
  BY <1>3, <1>4, <1>5, <1>6 DEF SharedParts

LEMMA RomfsCallShared ==
  ASSUME SharedIInv, RomfsSeek \/ RomfsRead
  PROVE  SharedParts'
<1> USE DEF SharedIInv, TurnIInv, HeadIInv, IInv
<1>1. PICK c \in Calls : Syscall(romfs, c)
  BY RomfsCalls
<1>2. UNCHANGED hand /\ romfs \in Clients
  BY FilesOf DEF RomfsSeek, RomfsRead
<1>3. UNCHANGED serving /\ serving = NoFile
  BY <1>1 DEF Syscall
<1>4. Current'
  BY <1>1, <1>2, SyscallCurrent
<1>5. RightAnswer'
  BY <1>3 DEF RightAnswer
<1> QED
  BY <1>4, <1>5, RomfsCallStage DEF SharedParts

LEMMA RetryShared ==
  ASSUME SharedIInv, RetryBlocks \/ RetryEnds
  PROVE  SharedParts'
<1> USE DEF SharedIInv, TurnIInv, HeadIInv, IInv
<1>1. PICK w \in Clients, c \in Calls : w = Waiter /\ c = call[w]
  BY Visited DEF RetryBlocks, RetryEnds
<1>2. UNCHANGED serving
  BY DEF RetryBlocks, RetryEnds
<1>3. Submit(w, c) \/ Held(w, c) \/ Complete(w, c) \/ Refuse(w, c)
  BY <1>1 DEF RetryBlocks, RetryEnds
<1>4. Sized'
  <2>1. \A x \in Clients : call'[x] = call[x] \/ call'[x] = NoCall
    BY DEF RetryBlocks, RetryEnds, TypeOK
  <2> QED
    BY <2>1, SizedKept
<1>5. Current'
  BY RetryBlocksCurrent, RetryEndsCurrent
<1>6. RightAnswer'
  BY RetryRight
<1>7. Stage'
  BY RetryBlocksStage, RomfsReleased, OtherReleased
<1> QED
  BY <1>4, <1>5, <1>6, <1>7 DEF SharedParts

LEMMA ReceiveShared ==
  ASSUME SharedIInv, RomdevReceive \/ RomfsReceive
  PROVE  SharedParts'
<1> USE DEF SharedIInv, TurnIInv, HeadIInv, IInv
<1>1. PICK d \in Drivers : Receive(d)
  BY FilesOf DEF RomdevReceive, RomfsReceive
<1>2. UNCHANGED <<file, waiting, call, ret, serving, at>> /\ serving = NoFile
  BY <1>1 DEF Receive
<1>3. Sized'
  BY <1>2, SizedKept
<1>4. Current'
  BY <1>1, <1>2, NoneSent, QuietCurrent
<1>5. RightAnswer'
  BY <1>2 DEF RightAnswer
<1>6. Stage'
  <2>1. CASE RomdevReceive
    <3>1. hand'[romfs] = hand[romfs] /\ step' = step
      BY <2>1, FilesOf DEF RomdevReceive, Receive, TypeOK
    <3> QED
      BY <1>2, <3>1, StageKept
  <2>2. CASE RomfsReceive
    <3>1. RomfsIdle /\ RomfsIdle'
      BY <1>2, <2>2 DEF RomfsReceive, Receive, Stage, RomfsIdle, NoCall
    <3>2. PICK r \in Requests : r = Head(fifo[romfs]) /\ hand'[romfs] = r
      BY <2>2, FilesOf, ReceiveTypes DEF RomfsReceive
    <3>3. step' = (IF r.cmd = "read" THEN "seek" ELSE "answer")
      BY <2>2, <3>2 DEF RomfsReceive
    <3>4. InService(r)'
      BY <3>1, <3>3 DEF InService
    <3> QED
      BY <3>1, <3>2, <3>3, <3>4 DEF Stage, NoRequest
  <2> QED
    BY <2>1, <2>2
<1> QED
  BY <1>3, <1>4, <1>5, <1>6 DEF SharedParts

LEMMA AnswerShared ==
  ASSUME SharedIInv, RomdevAnswer \/ RomfsAnswer
  PROVE  SharedParts'
<1> USE DEF SharedIInv, TurnIInv, HeadIInv, IInv
<1>1. PICK d \in Drivers, len \in Int, from \in Int :
        /\ hand[d] # NoRequest /\ Respond(hand[d].target, len, from) /\ Reply(hand[d], len, from)
        /\ hand' = [hand EXCEPT ![d] = NoRequest]
        /\ \/ d = romdev /\ UNCHANGED step
           \/ d = romfs /\ step' = "recv" /\ RomfsIdle
  <2>1. CASE RomdevAnswer
    BY <2>1, RomdevReplies, FilesOf DEF RomdevAnswer
  <2>2. CASE RomfsAnswer
    <3>1. hand[romfs] # NoRequest /\ hand' = [hand EXCEPT ![romfs] = NoRequest]
      BY <2>2, RomfsResponds
    <3>2. step' = "recv" /\ RomfsIdle
      BY <2>2 DEF RomfsAnswer, RomfsIdle
    <3> QED
      BY <2>2, <3>1, <3>2, RomfsReplies, FilesOf
  <2> QED
    BY <2>1, <2>2
<1>2. PICK f \in Files : f = hand[d].target /\ file[f].buzy
  BY <1>1, AskerInHand
<1>3. /\ \A g \in Files : file'[g].pos = file[g].pos
      /\ UNCHANGED <<waiting, fifo, call, ret>>
  BY <1>1, <1>2, Responded
<1>4. Sized'
  BY <1>3, SizedKept
<1>5. Current'
  BY <1>1, <1>3, NoneSent, QuietCurrent
<1>6. RightAnswer'
  BY <1>1, RespondRight
<1>7. Stage'
  <2>1. CASE d = romdev /\ UNCHANGED step
    <3>1. hand'[romfs] = hand[romfs]
      BY <1>1, <2>1, FilesOf DEF TypeOK
    <3> QED
      BY <1>3, <2>1, <3>1, FilesOf, StageKept
  <2>2. CASE d = romfs /\ step' = "recv" /\ RomfsIdle
    <3>1. hand'[romfs] = NoRequest
      BY <1>1, <2>2 DEF TypeOK
    <3> QED
      BY <1>3, <2>2, <3>1 DEF Stage, RomfsIdle, NoCall, NoRequest
  <2> QED
    BY <1>1, <2>1, <2>2
<1> QED
  BY <1>4, <1>5, <1>6, <1>7 DEF SharedParts

LEMMA EndServeShared ==
  ASSUME SharedIInv, EndServe
  PROVE  SharedParts'
<1> USE DEF SharedIInv, TurnIInv, HeadIInv, IInv
<1>1. UNCHANGED <<file, waiting, fifo, call, ret, hand, step>> /\ serving' = NoFile
  BY DEF EndServe, driverVars
<1>2. Current'
  BY <1>1, NoneSent, FilesOf, QuietCurrent
<1>3. Sized' /\ RightAnswer' /\ Stage'
  BY <1>1, SizedKept, StageKept DEF RightAnswer
<1> QED
  BY <1>2, <1>3 DEF SharedParts

LEMMA StepShared ==
  ASSUME RoomForRequests, ReadOnlyFiles, DeviceLeftAlone, SharedIInv, [Next]_vars
  PROVE  SharedIInv'
<1>1. TurnIInv'
  BY StepTurn DEF SharedIInv
<1>2. CASE UserStep
  BY <1>1, <1>2, UserCallShared DEF UserStep, SharedIInv, SharedParts
<1>3. CASE Retry
  BY <1>1, <1>3, RetryShared, EndServeShared DEF Retry, SharedIInv, SharedParts
<1>4. CASE Romdev \/ Romfs
  BY <1>1, <1>4, ReceiveShared, RomfsCallShared, AnswerShared
    DEF Romdev, Romfs, SharedIInv, SharedParts
<1>5. CASE UNCHANGED vars
  <2>1. UNCHANGED <<file, waiting, fifo, call, ret, hand, step, serving, at>>
    BY <1>5 DEF vars
  <2>2. Current'
    BY <2>1, NoneSent, FilesOf, QuietCurrent DEF SharedIInv, TurnIInv, HeadIInv, IInv
  <2>3. Sized' /\ Stage'
    BY <2>1, SizedKept, StageKept DEF SharedIInv
  <2>4. RightAnswer'
    <3> SUFFICES ASSUME serving # NoFile /\ at = 1 /\ ~Free(serving) PROVE RightAnswer'
      BY <2>1 DEF RightAnswer, Free
    <3>0. PICK f, t : f = serving /\ t = file[f].request_pid
      OBVIOUS
    <3>1. PICK c \in Calls : /\ f = serving /\ t = file[f].request_pid /\ c = call[t]
                             /\ c.fd = f /\ ~BadWhence(c)
      BY <3>0 DEF SharedIInv, RightAnswer
    <3>2. PICK q : q = Request(t, c)
      OBVIOUS
    <3>3. Answers(f, q)
      BY <3>1, <3>2 DEF SharedIInv, RightAnswer
    <3>4. Request(t, c)' = q
      BY <2>1, <3>2, RequestSame
    <3>5. Answers(f, q)'
      BY <2>1, <3>3 DEF Answers, Extent, Address, ReadStart, ReadEnd, SeekTo
    <3> QED
      BY <2>1, <3>1, <3>4, <3>5 DEF RightAnswer, BadWhence, Calls, SEEK_SET, SEEK_CUR, SEEK_END
  <2> QED
    BY <1>1, <2>2, <2>3, <2>4 DEF SharedIInv
<1> QED
  BY <1>2, <1>3, <1>4, <1>5 DEF Next
-----------------------------------------------------------------------------
(* Every step is one of a file with atomic calls, or none *)

LEMMA SmallestOf ==
  ASSUME NEW S \in SUBSET Int, NEW m \in S, \A x \in S : m <= x
  PROVE  Shared!Smallest(S) = m
<1>1. PICK v : v = Shared!Smallest(S)
  OBVIOUS
<1>2. v = CHOOSE y \in S : \A x \in S : y <= x
  BY <1>1 DEF Shared!Smallest
<1>3. v \in S /\ \A x \in S : v <= x
  BY <1>2
<1>4. v = m
  BY <1>3
<1> QED
  BY <1>1, <1>4

\* The bytes from a position on, no more than a buffer
LEMMA ExtentIsSmallest ==
  ASSUME NEW r \in Requests, NEW f \in Files, f = r.target, NEW p \in Nat, r.pos = p,
         NEW size \in Nat, r.size = Clipped(size)
  PROVE  /\ Extent(r) = Shared!Smallest({size, BUF, IF p < Length[f] THEN Length[f] - p ELSE 0})
         /\ Extent(r) \in Nat /\ (Extent(r) > 0 => Address(r) = Start[f] + p)
<1>1. PICK l \in Nat, b \in Nat : l = Length[f] /\ b = BUF
  BY FilesAssumption
<1>2. PICK k \in Nat : k = Clipped(size) /\ k = IF size > b THEN b ELSE size
  BY <1>1 DEF Clipped
<1>3. PICK s \in Nat : s = ReadStart(f, r) /\ s = IF p > l THEN l ELSE p
  BY <1>1 DEF ReadStart
<1>4. PICK e \in Nat : e = ReadEnd(f, r) /\ e = IF s + k > l THEN l ELSE s + k
  BY <1>1, <1>2, <1>3 DEF ReadEnd
<1>5. Extent(r) = e - s /\ Address(r) = Start[f] + s
  BY <1>3, <1>4 DEF Extent, Address
<1> DEFINE rest == IF p < l THEN l - p ELSE 0
           S == {size, b, rest}
<1>6. e - s \in S /\ S \in SUBSET Int /\ \A x \in S : e - s <= x
  BY <1>2, <1>3, <1>4
<1>7. Shared!Smallest(S) = e - s
  <2> HIDE DEF S
  <2> QED
    BY <1>6, SmallestOf
<1>8. e - s \in Nat /\ (e - s > 0 => s = p)
  BY <1>2, <1>3, <1>4
<1> QED
  BY <1>1, <1>5, <1>7, <1>8

\* A system call begins, or is refused.
LEMMA SyscallShared ==
  ASSUME TypeOK, Collected, NEW t \in Clients, NEW c \in Calls, Syscall(t, c)
  PROVE  [Shared!Next]_(Shared!vars)
<1>1. ~Complete(t, c) /\ call[t] = NoCall
  BY NotAtOnce DEF Syscall
<1>2. Submit(t, c) \/ Held(t, c) \/ Refuse(t, c)
  BY <1>1 DEF Syscall
<1>3. [f \in Files |-> file'[f].pos] = [f \in Files |-> file[f].pos]
  BY <1>2, PositionKept
<1>4. CASE call' = [call EXCEPT ![t] = c] /\ UNCHANGED ret
  <2>1. call'[t] = c /\ c # NoCall
    BY <1>4, Kinds DEF TypeOK
  <2>2. Shared!Begin(t)
    BY <1>1, <1>3, <1>4, <2>1 DEF Shared!Begin, Shared!NoCall, NoCall
  <2> QED
    BY <2>2 DEF Shared!Next
<1>5. CASE Refuse(t, c) /\ UNCHANGED call
  <2>1. call' = [call EXCEPT ![t] = NoCall]
    BY <1>1, <1>5 DEF TypeOK
  <2>2. ret' = [ret EXCEPT ![t] = Result(-1, NoBytes)]
    BY <1>5 DEF Refuse
  <2>3. Shared!Refuse(t)
    BY <1>1, <1>3, <2>1, <2>2
      DEF Shared!Refuse, Shared!Return, Shared!Result, Shared!NoBytes, Shared!NoCall,
          Result, NoBytes, NoCall
  <2> QED
    BY <2>3 DEF Shared!Next
<1> QED
  BY <1>1, <1>4, <1>5 DEF Syscall

\* A call that a retry ends takes effect then.
LEMMA RetryEndsIsFinish ==
  ASSUME SharedIInv, RetryEnds
  PROVE  [Shared!Next]_(Shared!vars)
<1> USE DEF SharedIInv, TurnIInv, HeadIInv, IInv
<1>1. PICK w \in Clients, c \in Calls, f \in Files :
        w = Waiter /\ c = call[w] /\ f = serving /\ c.fd = f
  BY Visited DEF RetryEnds
<1>2. (Complete(w, c) \/ Refuse(w, c)) /\ call' = [call EXCEPT ![w] = NoCall]
  BY <1>1 DEF RetryEnds
<1> DEFINE pos == [g \in Files |-> file[g].pos]
           pos1 == [g \in Files |-> file'[g].pos]
<1>3. CASE Refuse(w, c)
  <2>1. pos1 = pos
    BY <1>3 DEF Refuse
  <2>2. ret' = [ret EXCEPT ![w] = Result(-1, NoBytes)]
    BY <1>3 DEF Refuse
  <2>3. c.op = "seek" /\ c.whence \notin {SEEK_SET, SEEK_CUR, SEEK_END}
    BY <1>3 DEF Refuse, BadWhence
  <2>4. Shared!Finish(w)
    BY <1>1, <1>2, <2>1, <2>2, <2>3
      DEF Shared!Finish, Shared!Return, Shared!Result, Shared!NoBytes, Shared!NoCall,
          Result, NoBytes, NoCall, Shared!SEEK_SET, Shared!SEEK_CUR, Shared!SEEK_END,
          SEEK_SET, SEEK_CUR, SEEK_END
  <2> QED
    BY <2>4 DEF Shared!Next
<1>4. CASE Complete(w, c)
  <2>1. file[f].request_pid = w /\ ~file[f].buzy /\ ~Free(f) /\ at = 1 /\ serving # NoFile
    <3>1. file[f].request_pid = w /\ ~file[f].buzy /\ ~Free(f)
      BY <1>1, <1>4, FilesOf DEF Complete, Answered, Free
    <3> QED
      BY <1>1, <3>1, FilesOf DEF Retried
  <2>2. PICK q \in Requests : /\ q = Request(w, c) /\ q.target = f /\ q.cmd = c.op
                              /\ ~BadWhence(c) /\ Answers(f, q)
    <3>1. ~BadWhence(c) /\ Answers(f, Request(w, c))
      BY <1>1, <2>1 DEF RightAnswer
    <3> QED
      BY <1>1, <3>1, RequestType
  <2>3. PICK n \in Int, b \in Int, p \in Nat, l \in Nat :
          n = file[f].transfer_len /\ b = file[f].buf /\ p = file[f].pos /\ l = Length[f]
    BY FilesAssumption DEF TypeOK, FileState
  <2>4. /\ file'[f].pos = NewPos(c)
        /\ ret' = [ret EXCEPT ![w] = Result(n, IF c.op = "read" /\ n > 0 THEN b ELSE NoBytes)]
        /\ \A g \in Files \ {f} : file'[g] = file[g]
    BY <1>1, <1>4, <2>3, Completed, CompletedFile
  <2>5. \A x : file'[f].pos = x => pos1 = [pos EXCEPT ![f] = x]
    BY <2>4
  <2>6. c.op \in {"read", "write", "seek"} /\ pos[f] = p
    BY <2>3 DEF Calls
  <2>7. CASE c.op = "read"
    <3>1. q.pos = p /\ q.size = Clipped(c.size) /\ c.size \in Nat
      BY <1>1, <2>2, <2>3, <2>7, ReadAsked
    <3>2. PICK z \in Nat :
            /\ z = c.size
            /\ Extent(q) = Shared!Smallest({z, BUF, IF p < Length[f] THEN Length[f] - p ELSE 0})
            /\ Extent(q) \in Nat /\ (Extent(q) > 0 => Address(q) = Start[f] + p)
      <4>1. PICK z \in Nat : z = c.size
        BY <3>1
      <4>2. q.pos = p /\ q.size = Clipped(z) /\ q.target = f
        BY <2>2, <3>1, <4>1
      <4> QED
        BY <4>1, <4>2, ExtentIsSmallest
    <3>3. n = Extent(q) /\ (n > 0 => b = Address(q))
      BY <2>2, <2>3, <2>7 DEF Answers
    <3>4. file'[f].pos = p + n
      BY <1>1, <2>3, <2>4, <2>7, <3>2, <3>3 DEF NewPos
    <3>5. pos1 = [pos EXCEPT ![f] = @ + n]
      BY <2>5, <2>6, <3>4
    <3>6. ret' = [ret EXCEPT ![w] = Result(n, IF n > 0 THEN Start[f] + p ELSE NoBytes)]
      BY <2>4, <2>7, <3>2, <3>3
    <3>7. Shared!Read(w, call[w].fd, call[w].size)
      BY <1>1, <1>2, <2>3, <2>6, <3>2, <3>3, <3>5, <3>6
        DEF Shared!Read, Shared!Return, Shared!Result, Shared!NoBytes, Shared!NoCall,
            Result, NoBytes, NoCall
    <3>8. Shared!Finish(w)
      BY <1>1, <2>7, <3>7 DEF Shared!Finish
    <3> QED
      BY <3>8 DEF Shared!Next
  <2>8. CASE c.op = "write"
    <3>1. n = -1
      BY <2>2, <2>3, <2>8 DEF Answers
    <3>2. file'[f].pos = p
      BY <1>1, <2>3, <2>4, <2>8, <3>1 DEF NewPos
    <3>3. pos1 = pos
      BY <2>4, <3>2, <2>3
    <3>4. Shared!Write(w)
      BY <1>2, <2>4, <2>8, <3>1, <3>3
        DEF Shared!Write, Shared!Return, Shared!Result, Shared!NoBytes, Shared!NoCall,
            Result, NoBytes, NoCall
    <3>5. Shared!Finish(w)
      BY <1>1, <2>8, <3>4 DEF Shared!Finish
    <3> QED
      BY <3>5 DEF Shared!Next
  <2>9. CASE c.op = "seek"
    <3>1. c.whence \in {SEEK_SET, SEEK_CUR, SEEK_END} /\ c.size \in Int
      BY <2>2, <2>9 DEF BadWhence, Calls
    <3> DEFINE new == c.size + (CASE c.whence = SEEK_SET -> 0
                                  [] c.whence = SEEK_CUR -> p
                                  [] c.whence = SEEK_END -> l)
    <3>2. q.size = c.size /\ q.pos = (CASE c.whence = SEEK_SET -> 0
                                        [] c.whence = SEEK_CUR -> p
                                        [] c.whence = SEEK_END -> -1)
      BY <1>1, <2>2, <2>3, <2>9, <3>1 DEF Request, SEEK_SET, SEEK_CUR, SEEK_END
    <3>3. SeekTo(q, l) = new /\ new \in Int
      BY <2>3, <3>1, <3>2 DEF SeekTo, SEEK_SET, SEEK_CUR, SEEK_END
    <3>4. n = new
      BY <2>2, <2>3, <2>9, <3>3 DEF Answers
    <3> HIDE DEF new
    <3>5. file'[f].pos = IF new >= 0 THEN new ELSE p
      BY <1>1, <2>3, <2>4, <2>9, <3>4 DEF NewPos
    <3>6. pos1 = IF new >= 0 THEN [pos EXCEPT ![f] = new] ELSE pos
      BY <2>3, <2>4, <2>5, <3>5
    <3>7. ret' = [ret EXCEPT ![w] = Result(new, NoBytes)]
      BY <2>4, <2>9, <3>4
    <3>8. new = c.size + (CASE c.whence = Shared!SEEK_SET -> 0
                            [] c.whence = Shared!SEEK_CUR -> pos[f]
                            [] c.whence = Shared!SEEK_END -> Length[f])
      BY <2>3, <2>6 DEF new, Shared!SEEK_SET, Shared!SEEK_CUR, Shared!SEEK_END,
                        SEEK_SET, SEEK_CUR, SEEK_END
    <3>9. Shared!Seek(w, call[w].fd, call[w].size, call[w].whence)
      BY <1>1, <1>2, <3>6, <3>7, <3>8
        DEF Shared!Seek, Shared!Return, Shared!Result, Shared!NoBytes, Shared!NoCall,
            Result, NoBytes, NoCall
    <3>10. Shared!Finish(w)
      BY <1>1, <2>9, <3>1, <3>9
        DEF Shared!Finish, Shared!SEEK_SET, Shared!SEEK_CUR, Shared!SEEK_END,
            SEEK_SET, SEEK_CUR, SEEK_END
    <3> QED
      BY <3>10 DEF Shared!Next
  <2> QED
    BY <2>6, <2>7, <2>8, <2>9
<1> QED
  BY <1>2, <1>3, <1>4

LEMMA SharedStep ==
  ASSUME SharedIInv, [Next]_vars
  PROVE  [Shared!Next]_(Shared!vars)
<1> USE DEF SharedIInv, TurnIInv, HeadIInv, IInv
<1>1. CASE UserStep
  BY <1>1, ProgramCalls, SyscallShared DEF UserStep, UserCall
<1>2. CASE RomfsSeek \/ RomfsRead
  BY <1>2, RomfsCalls, SyscallShared, FilesOf
<1>3. CASE RetryEnds
  BY <1>3, RetryEndsIsFinish
<1>4. ASSUME \A f \in Files : file'[f].pos = file[f].pos, UNCHANGED <<call, ret>>
      PROVE  UNCHANGED Shared!vars
  BY <1>4 DEF Shared!vars
<1>5. CASE RetryBlocks
  <2>1. PICK w \in Clients, c \in Calls : Submit(w, c) \/ Held(w, c)
    BY <1>5, Visited DEF RetryBlocks
  <2>2. UNCHANGED <<call, ret>>
    BY <1>5 DEF RetryBlocks
  <2> QED
    BY <1>4, <2>1, <2>2, PositionKept
<1>6. CASE EndServe \/ RomdevReceive \/ RomfsReceive \/ UNCHANGED vars
  <2>1. UNCHANGED <<file, call, ret>>
    BY <1>6 DEF EndServe, RomdevReceive, RomfsReceive, Receive, vars
  <2> QED
    BY <1>4, <2>1
<1>7. CASE RomdevAnswer \/ RomfsAnswer
  <2>1. PICK d \in Drivers, len \in Int, from \in Int :
          hand[d] # NoRequest /\ Respond(hand[d].target, len, from)
    BY <1>7, RomdevResponds, RomfsResponds, FilesOf
  <2>2. PICK f \in Files : f = hand[d].target /\ file[f].buzy
    BY <2>1, AskerInHand
  <2>3. (\A g \in Files : file'[g].pos = file[g].pos) /\ UNCHANGED <<call, ret>>
    BY <2>1, <2>2, Responded
  <2> QED
    BY <1>4, <2>3
<1> QED
  BY <1>1, <1>2, <1>3, <1>5, <1>6, <1>7 DEF Next, Retry, Romdev, Romfs

\* Reads, writes and seeks of regular files and of the device are atomic
\* (block.c, regfile.c, romdev_driver and romfs_server), for any tasks and files
\* and for programs that do not write a regular file, provided that no user of
\* the drivers' priority uses the device itself and that the drivers' FIFOs
\* have room for the requests that urgent users can have in progress at once,
\* and for one more.  In the code a request has 56 bytes and a FIFO keeps 63:
\* there is room for one, and the theorem is about a system with one regular
\* file, or with any number of them and users less urgent than the drivers.
THEOREM CallsOnFilesAreAtomic ==
  ASSUME RoomForRequests, ReadOnlyFiles, DeviceLeftAlone
  PROVE  Spec => ImplementsSharedFiles
<1>1. SharedIInv /\ [Next]_vars => SharedIInv'
  BY StepShared
<1>2. SharedIInv /\ [Next]_vars => [Shared!Next]_(Shared!vars)
  BY SharedStep
<1>3. Init => Shared!Init
  <2> SUFFICES ASSUME Init PROVE Shared!Init
    OBVIOUS
  <2>1. \A f \in Files : file[f].pos = 0
    BY DEF Init
  <2> QED
    BY <2>1 DEF Init, Shared!Init, Shared!NoCall, Shared!Failed, Shared!Result, Shared!NoBytes,
                NoCall, Result, NoBytes
<1> QED
  BY <1>1, <1>2, <1>3, InitShared, PTL DEF Spec, ImplementsSharedFiles, Shared!Spec
=============================================================================
