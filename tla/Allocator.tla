------------------------------ MODULE Allocator ------------------------------
(***************************************************************************)
(* What malloc and free promise: a block is as long as was asked for,      *)
(* touches no other block in use, and is in use until it is freed.         *)
(***************************************************************************)
EXTENDS Integers, FiniteSets

CONSTANTS
  Places,    \* where a unit of memory may be
  Demands    \* how many units may be asked for

VARIABLE used   \* blocks in use: sets of consecutive units

Blocks(n) == {b \in SUBSET Places :
                Cardinality(b) = n /\ \E first \in b : b = first .. first + n - 1}

Init == used = {}

Malloc(n) == \E b \in Blocks(n) : (\A c \in used : b \intersect c = {}) /\ used' = used \union {b}

Free(b) == b \in used /\ used' = used \ {b}

Next == (\E n \in Demands : Malloc(n)) \/ (\E b \in used : Free(b))

Spec == Init /\ [][Next]_used
=============================================================================
