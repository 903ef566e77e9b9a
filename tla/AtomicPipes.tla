---------------------------- MODULE AtomicPipes ----------------------------
(***************************************************************************)
(* What read() and write() on FIFOs promise their callers: a call takes    *)
(* effect at one instant, moves all of its bytes or none, waits exactly    *)
(* while the pipe cannot serve it, and does not wait for ever while the    *)
(* pipe can.  A task makes calls when it runs, and does not run again      *)
(* before its call is served.  Several callers may wait on one pipe;       *)
(* nothing is promised about the order in which they are served.           *)
(*                                                                         *)
(* An abstraction of its own, implemented by Kernel under the mapping      *)
(* given there: it stands for no line of code.                             *)
(***************************************************************************)
EXTENDS Integers

CONSTANTS Tasks, Fds, Sizes, Capacity, Nobody

VARIABLES
  call,    \* the call each task waits in, or NoCall
  level,   \* bytes in each pipe
  running  \* the task that runs, or Nobody while the kernel does

vars == <<call, level, running>>

Calls == [op : {"read", "write"}, fd : Fds, size : Sizes]
NoCall == [op |-> "none"]

Init ==
  /\ call = [t \in Tasks |-> NoCall]
  /\ level = [fd \in Fds |-> 0]
  /\ running \in Tasks

\* The pipe's level after call c
After(c) == level[c.fd] + (IF c.op = "write" THEN c.size ELSE -c.size)

Possible(c) == After(c) \in 0 .. Capacity

Effect(c) == level' = [level EXCEPT ![c.fd] = After(c)]

\* The task that runs enters the kernel, by a call or by an interrupt.
Enter ==
  /\ running # Nobody
  /\ running' = Nobody

\* A call that is served at once
Serve(t, c) ==
  /\ Enter
  /\ running = t /\ call[t] = NoCall
  /\ Possible(c) /\ Effect(c)
  /\ UNCHANGED call

\* A call that must wait
Wait(t, c) ==
  /\ Enter
  /\ running = t /\ call[t] = NoCall
  /\ ~Possible(c)
  /\ call' = [call EXCEPT ![t] = c]
  /\ UNCHANGED level

\* A waiting call is served by the kernel.
Finish(t) ==
  /\ running = Nobody /\ call[t] # NoCall
  /\ Possible(call[t]) /\ Effect(call[t])
  /\ call' = [call EXCEPT ![t] = NoCall]
  /\ UNCHANGED running

\* The caller is cancelled by the task that runs.
Abandon(t) ==
  /\ running # Nobody /\ call[t] # NoCall
  /\ call' = [call EXCEPT ![t] = NoCall]
  /\ UNCHANGED <<level, running>>

\* The kernel lets a task run whose call, if it made one, is served.
Run(t) ==
  /\ running = Nobody /\ call[t] = NoCall
  /\ running' = t
  /\ UNCHANGED <<call, level>>

Next ==
  \/ Enter /\ UNCHANGED <<call, level>>
  \/ \E t \in Tasks :
       \/ \E c \in Calls : Serve(t, c) \/ Wait(t, c)
       \/ Finish(t)
       \/ Abandon(t)
       \/ Run(t)

Spec == Init /\ [][Next]_vars

\* Weak fairness of Finish(t), written without ENABLED: a waiting call does
\* not stay possible for ever.
Served == \A t \in Tasks : []<>~(call[t] # NoCall /\ Possible(call[t]))
=============================================================================
