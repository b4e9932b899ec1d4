------------------------------ MODULE UserHeap ------------------------------
(***************************************************************************)
(* malloc, free and printf of user programs (userspace/lib.cpp), on a      *)
(* task's free list.  printf collects what vfnprintf (pine/print.hpp)      *)
(* makes of its format in a block of memory, which it replaces by a larger *)
(* one when it is full; malloc prints when there is no memory.             *)
(* FixedFallback is FALSE for a task's heap.                               *)
(*                                                                         *)
(* A task has one thread, so nothing interleaves, but calls nest: calls is *)
(* the stack of calls of printf, the innermost first.  A format is the     *)
(* sequence of its pieces: the characters a piece has in the format, and   *)
(* the bytes it prints.                                                    *)
(***************************************************************************)
EXTENDS FreeList

CONSTANTS
  Formats,       \* formats and arguments that programs print
  NoFreeSpace,   \* the format that malloc prints
  Growth         \* what printf adds to a buffer that is full

Literal == [type |-> "literal", chars |-> 1, bytes |-> 1]
Conversion(chars, bytes) == [type |-> "conversion", chars |-> chars, bytes |-> bytes]
Unknown == [type |-> "unknown", chars |-> 2, bytes |-> 0]
Piece == [type : {"literal", "conversion", "unknown"}, chars : Nat, bytes : Nat]

\* The sum of the first n of some numbers.
SumOf(n, number) ==
  LET sum[i \in 0 .. n] == IF i = 0 THEN 0 ELSE sum[i - 1] + number[i]
  IN  sum[n]

strlen(format) == SumOf(Len(format), [i \in 1 .. Len(format) |-> format[i].chars])

\* Nobody asks for zero bytes, not even printf for its buffer: malloc takes what it gets
\* then for no memory.
ASSUME UserHeapAssumption ==
  /\ 0 \notin Requests
  /\ Growth \in Nat
  /\ Formats \subseteq Seq(Piece)
  /\ NoFreeSpace \in Seq({Literal})
  /\ \A format \in Formats \cup {NoFreeSpace} : strlen(format) > 0

VARIABLES
  used_size, heap_size,  \* g_malloc_stats
  calls,                 \* calls of printf that have not returned
  broken                 \* what has gone wrong for good, if anything

heapVars == <<vars, used_size, heap_size, calls, broken>>

NoBlock == -1
\* A call of printf before its malloc.
NewCall(format) ==
  [rest |-> format, bufsize |-> 2 * strlen(format), print_buf |-> NoBlock,
   print_alloc |-> NoBlock, print_buf_pos |-> 0, at |-> "malloc"]

Top == Head(calls)
At(place) == broken = "no" /\ calls # <<>> /\ Top.at = place
Becomes(call) == calls' = <<call>> \o Tail(calls)
Breaks(how) == broken' = how /\ UNCHANGED <<vars, used_size, heap_size, calls>>
-----------------------------------------------------------------------------
(***************************************************************************)
(* malloc and free.                                                        *)
(***************************************************************************)
\* HeapExtender::allocate, and sbrk.
increase(n) == align_up_two(preferred_size(n), PageSize)
Extend(n) == AllocateFromFallback(n) /\ heap_size' = heap_size + increase(n)

\* malloc, when it finds memory.
Gets(n, block) ==
  /\ \/ AllocateFromList(n) /\ UNCHANGED heap_size
     \/ Extend(n)
  /\ block \notin allocated /\ block \in allocated'
  /\ used_size' = used_size + size'[block]
  /\ UNCHANGED broken

\* Otherwise it calls printf, and then returns a null pointer.  If there is no memory for
\* what is to be printed either, malloc and printf call each other until the stack ends.
NoRoom(n) ==
  FirstFit(m_free_list, size, n) = {} /\ FallbackAllocate(preferred_size(n)) = {}
GetsNothing(n, callers) ==
  /\ AllocateFails(n)
  /\ calls' = <<NewCall(NoFreeSpace)>> \o callers
  /\ broken' = IF NoRoom(2 * strlen(NoFreeSpace)) THEN "recursion" ELSE broken
  /\ UNCHANGED <<used_size, heap_size>>

\* Mutant: the size in the header is read when the neighbour has been adopted.
FreedJoined(a) ==
  size[a] + (IF RightNodes(a) = {} THEN 0 ELSE size[CHOOSE f \in RightNodes(a) : TRUE])

\* What free returns.
Freed(a) == size[a]
Gives(a) ==
  /\ free(a)
  /\ used_size' = used_size - Freed(a)
  /\ UNCHANGED <<heap_size, broken>>

\* The program's own calls.
Malloc(n) ==
  /\ broken = "no" /\ calls = <<>>
  /\ \/ \E block \in Addresses : Gets(n, block) /\ UNCHANGED calls
     \/ GetsNothing(n, calls)
Free(a) == broken = "no" /\ calls = <<>> /\ Gives(a) /\ UNCHANGED calls
-----------------------------------------------------------------------------
(***************************************************************************)
(* printf.                                                                 *)
(***************************************************************************)
Printf(format) ==
  /\ broken = "no" /\ calls = <<>>
  /\ calls' = <<NewCall(format)>>
  /\ UNCHANGED <<vars, used_size, heap_size, broken>>

\* It returns at once if it gets no buffer.
GetBuffer ==
  /\ At("malloc")
  /\ \/ \E block \in Addresses :
          /\ Gets(Top.bufsize, block)
          /\ Becomes([Top EXCEPT !.print_buf = block, !.print_alloc = block, !.at = "add"])
     \/ GetsNothing(Top.bufsize, Tail(calls))

\* Mutant: no room is left for the zero behind the message.
IsFullAt(call, bytes) == call.print_buf_pos + bytes > call.bufsize

IsFull(call, bytes) == call.print_buf_pos + bytes >= call.bufsize

\* vfnprintf gives up at a conversion it does not know, and when a conversion could not
\* be added; whether a literal could be added it does not look at.
GivesUp(call) == [call EXCEPT !.rest = <<>>]
Bail ==
  /\ At("add") /\ Top.rest # <<>> /\ Head(Top.rest) = Unknown
  /\ Becomes(GivesUp(Top))
  /\ UNCHANGED <<vars, used_size, heap_size, broken>>
NotAdded(call) ==
  IF Head(call.rest) = Literal THEN [call EXCEPT !.rest = Tail(@)] ELSE GivesUp(call)

\* Bytes that are nobody's to write but the owner's: headers, the blocks of others, and
\* what is no memory of the task.
IsForeign(x, own) ==
  \/ x >= watermark
  \/ \E a \in Nodes : x \in a .. to_user_ptr(a) - 1
  \/ \E a \in allocated \ {own} : x \in to_user_ptr(a) .. EndOf(a, size) - 1

\* strcopy to print_buf, with the zero.  The buffer may not be print_alloc any more.
Copied(call) ==
  LET from == to_user_ptr(call.print_buf) + call.print_buf_pos
  IN  from .. from + Head(call.rest).bytes
AddPiece ==
  LET bytes == Head(Top.rest).bytes IN
  /\ At("add") /\ Top.rest # <<>> /\ Head(Top.rest) # Unknown /\ ~IsFull(Top, bytes)
  /\ Becomes([Top EXCEPT !.rest = Tail(@), !.print_buf_pos = @ + bytes])
  /\ broken' = IF \E x \in Copied(Top) : IsForeign(x, Top.print_alloc)
               THEN "corrupted" ELSE broken
  /\ UNCHANGED <<vars, used_size, heap_size>>

\* "realloc buffer size (hack)": free, and malloc ...
FreeBuffer ==
  LET bytes == Head(Top.rest).bytes IN
  /\ At("add") /\ Top.rest # <<>> /\ Head(Top.rest) # Unknown /\ IsFull(Top, bytes)
  /\ IF Top.print_alloc = NoBlock THEN Breaks("null")
     ELSE /\ Gives(Top.print_alloc)
          /\ Becomes([Top EXCEPT !.bufsize = @ + bytes + Growth, !.at = "realloc"])

\* ... after which the message is added where print_buf still points.
LargerBuffer ==
  /\ At("realloc")
  /\ \/ \E block \in Addresses :
          /\ Gets(Top.bufsize, block)
          /\ Becomes([Top EXCEPT !.print_alloc = block, !.at = "add"])
     \/ GetsNothing(Top.bufsize,
          <<[NotAdded(Top) EXCEPT !.print_alloc = NoBlock, !.at = "add"]>> \o Tail(calls))

\* write and free; free takes its argument for a block in any case.
Finish ==
  /\ At("add") /\ Top.rest = <<>>
  /\ IF Top.print_alloc = NoBlock THEN Breaks("null")
     ELSE Gives(Top.print_alloc) /\ calls' = Tail(calls)
-----------------------------------------------------------------------------
HeapInit ==
  /\ Init
  /\ used_size = 0 /\ heap_size = 0
  /\ calls = <<>>
  /\ broken = "no"

HeapNext ==
  \/ \E n \in Requests : Malloc(n)
  \/ \E a \in allocated : Free(a)
  \/ \E format \in Formats : Printf(format)
  \/ GetBuffer \/ Bail \/ AddPiece \/ FreeBuffer \/ LargerBuffer \/ Finish

HeapSpec == HeapInit /\ [][HeapNext]_heapVars
-----------------------------------------------------------------------------
\* The bytes of blocks, added up in the order of all addresses.
BytesOf(blocks, sz) ==
  SumOf(MemSize + 1,
        [i \in 1 .. MemSize + 1 |-> IF i - 1 \in blocks THEN sz[i - 1] ELSE 0])

\* The used size is what callers have.
UsedSizeIsHeld == used_size = BytesOf(allocated, size)

\* The size of the heap is what sbrk gave.
HeapSizeIsGiven == heap_size = watermark

\* What printf is going to free is its own.
BuffersAreHeld ==
  \A i \in DOMAIN calls :
    calls[i].at # "realloc" => calls[i].print_alloc \in allocated \cup {NoBlock}

\* The invariant of the heap: its free list, and memstats: "Provides statistics on the
\* amount of memory used by this task" (shell.cpp).  What is used is what callers have,
\* also while printf replaces its buffer.
UserHeapInv ==
  /\ FreeListInv
  /\ UsedSizeIsHeld
  /\ HeapSizeIsGiven
  /\ BuffersAreHeld

\* printf writes to bytes of its own buffer only, the zero behind its text included,
\* whatever is allocated around it, unless the buffer was replaced by one at another
\* address: print_buf is not set again.  (What is written then is the hazard at
\* lib.cpp:90.)
PrintsInItsBlock == broken = "corrupted" => Top.print_buf # Top.print_alloc
=============================================================================
