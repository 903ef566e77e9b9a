----------------------------- MODULE SharedFiles -----------------------------
(***************************************************************************)
(* What read, write and lseek of a file behind a driver promise: each call *)
(* takes effect once, at one moment between its start and its return, on a *)
(* position that all users of the file share; and each call returns.  The  *)
(* bytes of a file are a read-only piece of one device.                    *)
(***************************************************************************)
EXTENDS Integers

CONSTANTS
  Clients,   \* tasks that make calls
  Files,
  Start,     \* where the bytes of each file begin on the device
  Length,    \* and how many there are
  Buf        \* the most one read returns

VARIABLES
  pos,       \* position of each file
  call,      \* the call each client is in
  ret        \* what its last call returned

vars == <<pos, call, ret>>

NoCall == [op |-> "none"]
NoBytes == -1
SEEK_SET == 1
SEEK_CUR == 2
SEEK_END == 3

Smallest(S) == CHOOSE m \in S : \A x \in S : m <= x

\* A result: the value returned and the device address of the bytes read
Result(value, from) == [value |-> value, from |-> from]
Failed == Result(-1, NoBytes)

Init ==
  /\ pos = [f \in Files |-> 0]
  /\ call = [t \in Clients |-> NoCall]
  /\ ret = [t \in Clients |-> Failed]

Begin(t) ==
  /\ call[t] = NoCall /\ call'[t] # NoCall
  /\ call' = [call EXCEPT ![t] = call'[t]]
  /\ UNCHANGED <<pos, ret>>

Return(t, value, from) ==
  /\ call' = [call EXCEPT ![t] = NoCall]
  /\ ret' = [ret EXCEPT ![t] = Result(value, from)]

\* A read returns what there is from the position on, and moves it.
Read(t, f, size) ==
  LET n == Smallest({size, Buf, IF pos[f] < Length[f] THEN Length[f] - pos[f] ELSE 0})
  IN /\ Return(t, n, IF n > 0 THEN Start[f] + pos[f] ELSE NoBytes)
     /\ pos' = [pos EXCEPT ![f] = @ + n]

\* The files are read-only.
Write(t) == Return(t, -1, NoBytes) /\ UNCHANGED pos

Seek(t, f, offset, whence) ==
  LET new == offset + (CASE whence = SEEK_SET -> 0
                         [] whence = SEEK_CUR -> pos[f]
                         [] whence = SEEK_END -> Length[f])
  IN /\ Return(t, new, NoBytes)
     /\ pos' = IF new >= 0 THEN [pos EXCEPT ![f] = new] ELSE pos

Finish(t) ==
  LET c == call[t]
  IN \/ c.op = "read" /\ Read(t, c.fd, c.size)
     \/ c.op = "write" /\ Write(t)
     \/ /\ c.op = "seek" /\ c.whence \in {SEEK_SET, SEEK_CUR, SEEK_END}
        /\ Seek(t, c.fd, c.size, c.whence)
     \/ /\ c.op = "seek" /\ c.whence \notin {SEEK_SET, SEEK_CUR, SEEK_END}
        /\ Return(t, -1, NoBytes) /\ UNCHANGED pos

\* A call with a bad whence may return at once.
Refuse(t) == call[t] = NoCall /\ Return(t, -1, NoBytes) /\ UNCHANGED pos

Next == \E t \in Clients : Begin(t) \/ Finish(t) \/ Refuse(t)

Spec == Init /\ [][Next]_vars

\* Every call returns.
Served == \A t \in Clients : (call[t] # NoCall) ~> (call[t] = NoCall)
=============================================================================
