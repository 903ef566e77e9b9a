----------------------------- MODULE ByteQueue -----------------------------
(***************************************************************************)
(* What a pipe's ring buffer promises, byte by byte: a queue that holds at *)
(* most Capacity bytes and gives them back in the order they were put.     *)
(* An abstraction of its own, implemented by Pipe.                         *)
(***************************************************************************)
EXTENDS Sequences, Integers

CONSTANTS Byte, Capacity

VARIABLES
  content,   \* the bytes held, oldest first
  got        \* the bytes the call in progress has taken out so far

vars == <<content, got>>

Init == content = <<>> /\ got = <<>>

Put(b) ==
  /\ Len(content) < Capacity
  /\ content' = Append(content, b)
  /\ UNCHANGED got

Get ==
  /\ content # <<>>
  /\ got' = Append(got, Head(content))
  /\ content' = Tail(content)

\* A new call forgets what the one before it took.
Restart == got' = <<>> /\ UNCHANGED content

Next == (\E b \in Byte : Put(b)) \/ Get \/ Restart

Spec == Init /\ [][Next]_vars
=============================================================================
