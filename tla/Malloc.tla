-------------------------------- MODULE Malloc --------------------------------
(***************************************************************************)
(* The allocator of src/malloc.c: a circular list of free blocks in order  *)
(* of address, first fit from where the last search ended, neighbours      *)
(* merged on free, and a break that grows into the array heaps.            *)
(*                                                                         *)
(* Memory is units of sizeof(Header), eight bytes.  A block is a header    *)
(* and what follows it.  The list's anchor base is a static of its own:    *)
(* BASE says on which side of heaps the linker put it.  The units of a     *)
(* demand, and the new break, are computed in 32 bits and wrap; SPAN is    *)
(* how many units an unsigned int can count.  A demand near that size can  *)
(* get a short block, or move the break back (HeapWraps.cfg,               *)
(* HeapShrinks.cfg): SmallDemands rules it out.  Here malloc and           *)
(* free run one at a time, and programs write only inside their blocks;    *)
(* Threads has what happens when they do not.                              *)
(***************************************************************************)
EXTENDS Integers, Sequences, FiniteSets, FiniteSetsExt

CONSTANTS
  HEAP,     \* units in heaps
  BASE,     \* where base is: 0, before heaps, or HEAP + 1, after it
  SPAN,     \* units of the address space: 2^32 bytes / UNIT
  Demands   \* bytes that may be asked for

UNIT == 8
NULL == -1
First == 1           \* heaps
Units == First .. HEAP
Addresses == Units \union {BASE}

ASSUME HeapAssumption ==
  /\ HEAP \in Nat \ {0} /\ BASE \in {0, HEAP + 1}
  /\ SPAN \in Nat /\ HEAP < SPAN
  /\ Demands \subseteq 0 .. UNIT * SPAN - 1

\* No demand is so large that its units, or the break moved by them, wrap: with 2^32
\* bytes and a heap of 256, none of more than 2^32 - 272.
SmallDemands == \A d \in Demands : d + UNIT * (HEAP + 2) <= UNIT * SPAN

VARIABLES
  heap,   \* the words ptr and size of every unit, program_break and freep
  used    \* the headers of the blocks programs hold, and their sizes

heapVars == <<heap, used>>

HeapInit ==
  /\ heap = [ptr |-> [a \in Addresses |-> NULL], size |-> [a \in Addresses |-> 0],
             program_break |-> First, freep |-> NULL]
  /\ used = {}
-----------------------------------------------------------------------------
nunits(nbytes) == ((nbytes + UNIT - 1) % (UNIT * SPAN)) \div UNIT + 1

\* program_break + n * sizeof(Header)
Break(h, n) == First + ((h.program_break - First + n) % SPAN)

\* mutant: the break may reach the end of heaps, where base may be
Fits_exactly(h, n) == Break(h, n) <= HEAP + 1

\* mutant: the break is compared before it is moved
Fits_before(h, n) == h.program_break < HEAP + 1

\* sbrk's test: the new break is within heaps
Fits(h, n) == Break(h, n) < HEAP + 1

\* base, once it is set up
Anchored(h) ==
  IF h.freep # NULL THEN h
  ELSE [h EXCEPT !.ptr[BASE] = BASE, !.size[BASE] = 0, !.freep = BASE]

\* The i-th block after freep
Walk(h) ==
  LET w[i \in 0 .. HEAP + 1] == IF i = 0 THEN h.freep ELSE h.ptr[w[i - 1]]
  IN w

\* The blocks a search from freep looks at before it is at freep again
Turn(h) ==
  1 .. Min({i \in 1 .. HEAP + 1 : Walk(h)[i] = h.freep})

Found(h, n) == {i \in Turn(h) : h.size[Walk(h)[i]] >= n}

\* mutant: a block with room to spare is not cut
Take_whole(h, n) ==
  LET i == Min(Found(h, n))
      prevp == Walk(h)[i - 1]
      p == Walk(h)[i]
  IN [heap |-> [h EXCEPT !.ptr[prevp] = h.ptr[p], !.size[p] = n, !.freep = prevp], header |-> p]

\* The first block that fits is taken, or its tail cut off: the heap, and the header
Take(h, n) ==
  LET i == Min(Found(h, n))
      prevp == Walk(h)[i - 1]
      p == Walk(h)[i]
      rest == h.size[p] - n
  IN IF rest = 0
     THEN [heap |-> [h EXCEPT !.ptr[prevp] = h.ptr[p], !.freep = prevp], header |-> p]
     ELSE [heap |-> [h EXCEPT !.size[p] = rest, !.size[p + rest] = n, !.freep = prevp],
           header |-> p + rest]

\* Whether a block at bp goes between p and the next on the list
Between(h, p, bp) ==
  LET next == h.ptr[p]
  IN \/ bp > p /\ bp < next
     \/ p >= next /\ (bp > p \/ bp < next)

\* The free block after which bp goes
Place(h, bp) ==
  LET w == Walk(h)
      behind == {i \in 0 .. HEAP : Between(h, w[i], bp)}
  IN w[Min(behind)]

\* bp with the free block after it, if they touch
Joined(h, p, bp) ==
  LET next == h.ptr[p]
  IN IF bp + h.size[bp] = next
     THEN [h EXCEPT !.size[bp] = @ + h.size[next], !.ptr[bp] = h.ptr[next]]
     ELSE [h EXCEPT !.ptr[bp] = next]

\* p with bp, if they touch, or before it
Linked(h, p, bp) ==
  IF p + h.size[p] = bp
  THEN [h EXCEPT !.size[p] = @ + h.size[bp], !.ptr[p] = h.ptr[bp]]
  ELSE [h EXCEPT !.ptr[p] = bp]

FreeBlock(h, bp) ==
  LET p == Place(h, bp)
  IN [Linked(Joined(h, p, bp), p, bp) EXCEPT !.freep = p]

\* sbrk, and the new block freed
Grown(h, n) ==
  LET p == h.program_break
  IN FreeBlock([h EXCEPT !.program_break = Break(h, n), !.size[p] = n], p)

\* The heap after malloc, and the header it found or NULL
Malloced(h, n) ==
  IF Found(h, n) # {} THEN Take(h, n)
  ELSE IF Fits(h, n) THEN Take(Grown(h, n), n)
  ELSE [heap |-> h, header |-> NULL]

\* What malloc and free read again: the free blocks' headers, and the sizes in those
\* of the blocks in use.  The other words belong to the programs.
Kept(h, blocks) ==
  LET free_list == {Walk(h)[i] : i \in Turn(h)}
      headers == free_list \union {b.header : b \in blocks}
  IN [h EXCEPT !.ptr = [a \in Addresses |-> IF a \in free_list THEN @[a] ELSE NULL],
               !.size = [a \in Addresses |-> IF a \in headers THEN @[a] ELSE 0]]

malloc(nbytes) ==
  LET n == nunits(nbytes)
      result == Malloced(Anchored(heap), n)
  IN /\ used' = IF result.header = NULL THEN used
                ELSE used \union {[header |-> result.header, units |-> n]}
     /\ heap' = Kept(result.heap, used')

free(b) ==
  /\ used' = used \ {b}
  /\ heap' = Kept(FreeBlock(heap, b.header), used')

HeapNext == (\E nbytes \in Demands : malloc(nbytes)) \/ (\E b \in used : free(b))

HeapSpec == HeapInit /\ [][HeapNext]_heapVars
-----------------------------------------------------------------------------
(* Properties *)

\* The free blocks of a turn of the list
FreeList(h) == IF h.freep = NULL THEN {} ELSE {Walk(h)[i] : i \in Turn(h)}
FreeSpan(h, a) == a .. a + h.size[a] - 1
UsedSpan(b) == b.header .. b.header + b.units - 1

\* Every unit below the break is in one block: free and on the list once, or in
\* use; the header of a block in use says its size.
Partition ==
  /\ \A a, b \in FreeList(heap) : a # b => FreeSpan(heap, a) \intersect FreeSpan(heap, b) = {}
  /\ \A b \in used : heap.size[b.header] = b.units
  /\ \A b \in used : \A a \in FreeList(heap) : UsedSpan(b) \intersect FreeSpan(heap, a) = {}
  /\ UNION ({FreeSpan(heap, a) : a \in FreeList(heap)} \union {UsedSpan(b) : b \in used})
       = First .. heap.program_break - 1

\* The list goes once round in order of address, through base, and no two
\* free blocks touch, so that the next larger demand finds them as one.
Merged ==
  heap.freep # NULL =>
    /\ BASE \in FreeList(heap)
    /\ Cardinality({a \in FreeList(heap) : heap.ptr[a] <= a}) = 1
    /\ \A a \in FreeList(heap) \ {BASE} : a + heap.size[a] \notin FreeList(heap)

\* The units it takes to hold a header and nbytes bytes
UnitsFor(nbytes) == (nbytes + UNIT - 1) \div UNIT + 1

\* malloc and free are an allocator: no block is shorter than was asked for, or
\* touches another in use.
Alloc == INSTANCE Allocator WITH
  Places <- Units,
  Demands <- {UnitsFor(d) : d \in Demands},
  used <- {UsedSpan(b) : b \in used}

ImplementsAllocator == Alloc!Spec
=============================================================================
