------------------------------ MODULE Allocator ------------------------------
(***************************************************************************)
(* What a memory allocator promises its callers (kmalloc and kfree, malloc *)
(* and free of user tasks): a block is at least as large as it was asked   *)
(* to be, lies in memory that the allocator owns, and shares no byte with  *)
(* a block that has not been given back.                                   *)
(***************************************************************************)
EXTENDS Integers

CONSTANT Requests  \* sizes that are asked for

VARIABLES
  heap,   \* number of bytes the allocator owns: the addresses 0 .. heap - 1
  blocks  \* the blocks in the callers' hands

vars == <<heap, blocks>>

\* Blocks share no byte, and even empty ones have addresses of their own.
Apart(b, c) ==
  /\ b.ptr # c.ptr
  /\ b.ptr + b.size <= c.ptr \/ c.ptr + c.size <= b.ptr

Init == heap = 0 /\ blocks = {}

\* A block b appears; the allocator may first obtain more memory.
Allocate(n) ==
  /\ heap' \in Nat /\ heap' >= heap
  /\ \E b \in blocks' :
       /\ b \in [ptr : Nat, size : Nat]
       /\ b.size >= n
       /\ b.ptr + b.size <= heap'
       /\ \A c \in blocks : Apart(b, c)
       /\ blocks' = blocks \cup {b}

\* The others stay where they are.
Free(b) == blocks' = blocks \ {b} /\ UNCHANGED heap

Next ==
  \/ \E n \in Requests : Allocate(n)
  \/ \E b \in blocks : Free(b)

Spec == Init /\ [][Next]_vars
=============================================================================
