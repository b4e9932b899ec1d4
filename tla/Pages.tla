------------------------------- MODULE Pages --------------------------------
(***************************************************************************)
(* A page broker and the callers that allocate, reserve and give back      *)
(* regions of pages.  Only one task runs in the kernel, so an operation is *)
(* one step.                                                               *)
(***************************************************************************)
EXTENDS PageAllocator

CONSTANTS
  Memory,        \* the region the broker is given
  ScratchPages,  \* pages of its scratch memory
  Sizes,         \* numbers of pages asked for
  Alignments,    \* alignments asked for: PageAlignmentLevel
  Reservations   \* regions that are reserved

\* The memory is one region of a free list: the two that the MMU code has start at page 0
\* and have a power of two pages.  Otherwise halving would go on beyond single pages.
ASSUME PagesAssumption ==
  /\ Memory \in Regions /\ Memory.length > 0
  /\ \E d \in Depths : Memory.length = page_length_from_depth[d]
  /\ Memory.offset % Memory.length = 0
  /\ ScratchPages \in Nat
  /\ Sizes \subseteq Nat \ {0} /\ Alignments \subseteq Nat \ {0}
  /\ Reservations \subseteq Regions /\ \A r \in Reservations : r.length > 0

VARIABLES
  broker,
  out,    \* regions that callers have
  runway  \* regions that were taken as runway

vars == <<broker, out, runway>>

\* A call returns a region or nothing.
Return(got) ==
  /\ broker' = got.b
  /\ out' = IF got.region = NoRegion THEN out ELSE out \cup {got.region}
  /\ runway' = IF got.runway = NoRegion THEN runway ELSE runway \cup {got.runway}

\* PageBroker::allocate, reserve_region and free.
Allocate(n, a) == Return(allocate(broker, n, a))
Reserve(r) == Return(reserve_region(broker, r))
Free(r) ==
  /\ r \in out
  /\ out' = out \ {r}
  /\ broker' = free_region(broker, r)
  /\ UNCHANGED runway

Init ==
  /\ broker = NewBroker(Memory, ScratchPages)
  /\ out = {}
  /\ runway = {}

Next ==
  \/ \E n \in Sizes, a \in Alignments : Allocate(n, a)
  \/ \E r \in Reservations : Reserve(r)
  \/ \E r \in out : Free(r)

Spec == Init /\ [][Next]_vars
-----------------------------------------------------------------------------
FreeRegions == {RegionAt(broker, m) : m \in Places(broker)}
FreePages == UNION {PagesOf(r) : r \in FreeRegions}
Taken == out \cup runway
TakenPages == UNION {PagesOf(r) : r \in Taken}

TypeOK ==
  /\ broker.bits \subseteq 0 .. WordBits - 1
  /\ broker.slabs \in 0 .. MaxSlabs
  /\ DOMAIN broker.lists = Depths
  /\ broker.runway \in 0 .. SizeModulus - 1

\* No page is in two hands: two free regions, two callers, or a free region and a caller.
PagesApart ==
  /\ \A m, k \in Places(broker) :
       m # k => PagesOf(RegionAt(broker, m)) \cap PagesOf(RegionAt(broker, k)) = {}
  /\ \A r, q \in Taken : r # q => PagesOf(r) \cap PagesOf(q) = {}
  /\ FreePages \cap TakenPages = {}
  /\ FreePages \cup TakenPages \subseteq PagesOf(Memory)

\* The broker's own structure: PageAllocatorBackend's lists and its node allocator know
\* the same nodes, lists have regions of their length, and pages are in one place.
PagesInv == TypeOK /\ NodesAreInLists(broker) /\ ListsFitRegions(broker) /\ PagesApart

\* Pages are not lost while the node allocator has a slab: "this should be guaranteed by
\* the broker" (malloc.cpp) is said of the case in which they are.
PagesStay ==
  [][FreeBits(broker) # {} =>
       FreePages \cup TakenPages \subseteq FreePages' \cup TakenPages']_vars

\* With enough runway, the lists are searched so that memory is found if any free region
\* would do, and what is returned is large enough, aligned, and no more than the next
\* power of two unless there is no slab for the rest.  A reservation returns pages that
\* include those asked for, or nothing.
ReturnsWhatIsAsked ==
  /\ ~IsShort(broker) =>
       \A n \in Sizes, a \in Alignments :
         LET r == allocate(broker, n, a).region IN
         /\ r = NoRegion <=> \A f \in FreeRegions : ~(Fits(f, n) /\ AlignedTo(f, a))
         /\ r # NoRegion => /\ Fits(r, n) /\ AlignedTo(r, a)
                            /\ \/ r.length = align_up_to_power(n)
                               \/ FreeBits(allocate(broker, n, a).b) = {}
  /\ \A region \in Reservations :
       LET r == reserve_region(broker, region).region IN
       r # NoRegion => PagesOf(region) \subseteq PagesOf(r)
=============================================================================
