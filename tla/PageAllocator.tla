--------------------------- MODULE PageAllocator ----------------------------
(***************************************************************************)
(* PageAllocatorBackend and PageBroker (pine/malloc.cpp, malloc.hpp), as   *)
(* operators on a record: the MMU code has one broker for physical and one *)
(* for virtual pages.                                                      *)
(*                                                                         *)
(*   bits    slabs that are marked as used in the bitmap of the node       *)
(*           allocator                                                     *)
(*   slabs   how many nodes its memory has room for                        *)
(*   region  the region that the node in a slab holds                      *)
(*   lists   the free lists, sequences of slabs; list d is meant for       *)
(*           regions of 2^d pages                                          *)
(*   runway  m_curr_runway                                                 *)
(*                                                                         *)
(* A free list is a sequence, since links only ever change together with   *)
(* it.  One bitmap is modelled: a second one would be added after 32768    *)
(* slabs.                                                                  *)
(***************************************************************************)
EXTENDS Page, Sequences, FiniteSets

CONSTANTS
  max_depth,         \* number of free lists
  WordBits,          \* bits of a size_t
  MaxSlabs,          \* bound: slabs modelled for a broker's nodes
  SizeModulus,       \* values of a size_t
  c_slabs_per_page,  \* nodes in a slab page
  NodeCost,          \* max_overhead_per_allocation: sizeof(HeaderNode)
  SplitCost,         \* what a split is charged: NodeCost * sizeof(Node)
  c_required_runway,
  c_required_runway_in_pages

ASSUME PageAllocatorAssumption ==
  /\ max_depth \in Nat \ {0} /\ WordBits \in Nat \ {0} /\ MaxSlabs \in 1 .. WordBits
  /\ SizeModulus \in Nat \ {0} /\ c_slabs_per_page \in Nat \ {0}
  /\ NodeCost \in Nat /\ SplitCost \in Nat
  /\ c_required_runway \in Nat /\ c_required_runway_in_pages \in Nat \ {0}

Depths == 0 .. max_depth - 1
-----------------------------------------------------------------------------
(***************************************************************************)
(* Nodes: SlabAllocator over a BitMap.  word() picks the first word of the *)
(* bitmap for every index, and ARM shifts by more than the width give 0.   *)
(* A slab is named by its page and its index in the page.                  *)
(***************************************************************************)
bit(b, i) == i < WordBits /\ i \in b.bits
set_bit(b, i) == [b EXCEPT !.bits = IF i < WordBits THEN @ \cup {i} ELSE @]
clear_bit(b, i) == [b EXCEPT !.bits = @ \ {i}]

\* calculate_slab_indexes for the bit, and find_associated_slab_page and
\* calculate_bitmap_indexes for the slab that is given back.
SlabOf(i) == <<i \div c_slabs_per_page, i % c_slabs_per_page>>
SlabSet == {SlabOf(i) : i \in 0 .. MaxSlabs - 1}

Lists == [Depths -> Seq(SlabSet)]
Brokers ==
  [bits : SUBSET (0 .. MaxSlabs - 1), slabs : 0 .. MaxSlabs, region : [SlabSet -> Regions],
   lists : Lists, runway : 0 .. SizeModulus - 1]
BitOf(slab) == slab[1] * c_slabs_per_page + slab[2]

\* Slab pages that SlabAllocator::add gets out of memory: it goes in chunks of two pages
\* and makes one slab page of each; the first chunk holds the bitmap and the nodes.
SlabPagesAdded(pages, first) ==
  LET chunks == pages \div 2 IN IF first /\ chunks > 0 THEN chunks - 1 ELSE chunks

\* try_find_free_bit; SlabAllocator::allocate takes the first.
FreeBits(b) == {i \in 0 .. b.slabs - 1 : ~bit(b, i)}
FirstBit(b) == CHOOSE i \in FreeBits(b) : \A j \in FreeBits(b) : i <= j
-----------------------------------------------------------------------------
(***************************************************************************)
(* Free lists (pine/linked_list.hpp, iter.hpp, algorithm.hpp).             *)
(***************************************************************************)
\* Region::operator>.
Greater(r, q) == r.offset > q.offset \/ (r.offset = q.offset /\ r.length > q.length)

\* The loop over two iterators without random access never counts.
distance(list) == 0

\* The place of the first region in the list that is not greater than r, or it would be
\* if the distance were the length of the list: so it is the first place.
lower_bound(b, list, r) ==
  LET search[begin \in 1 .. Len(list) + 1, len \in 0 .. Len(list)] ==
        LET offset == len \div 2 IN
        IF len = 0 THEN begin
        ELSE IF Greater(b.region[list[begin + offset]], r)
        THEN search[begin + offset + 1, len - (offset + 1)]
        ELSE search[begin, offset]
  IN  IF distance(list) = 0 THEN 1 ELSE search[1, distance(list)]

\* Mutant: the node that was behind the place is not linked to the new one.
insert_afterUnlinked(list, place, slab) ==
  LET i == IF place > Len(list) THEN Len(list) ELSE place
  IN  SubSeq(list, 1, i) \o <<slab>>

\* ManualLinkedList::insert_after; behind the tail if there is no such place.
insert_after(list, place, slab) ==
  LET i == IF place > Len(list) THEN Len(list) ELSE place
  IN  SubSeq(list, 1, i) \o <<slab>> \o SubSeq(list, i + 1, Len(list))

\* ManualLinkedList::remove.
Without(list, place) == SubSeq(list, 1, place - 1) \o SubSeq(list, place + 1, Len(list))

\* A place in the lists is a pair of a depth and a place in the list at that depth.
Places(b) == UNION {{d} \X DOMAIN b.lists[d] : d \in Depths}
SlabAt(b, m) == b.lists[m[1]][m[2]]
RegionAt(b, m) == b.region[SlabAt(b, m)]
Precedes(m, k) == m[1] < k[1] \/ (m[1] = k[1] /\ m[2] <= k[2])

\* The first place from list d upwards where find_if finds something.
Earliest(places) == {m \in places : \A k \in places : Precedes(m, k)}
FirstMatch(b, d, Matches(_)) ==
  Earliest({m \in Places(b) : m[1] >= d /\ Matches(RegionAt(b, m))})
-----------------------------------------------------------------------------
(***************************************************************************)
(* PageAllocatorBackend.                                                   *)
(***************************************************************************)
\* create_node, when FreeBits(b) # {}.
NodeAt(b, r, i) == [set_bit(b, i) EXCEPT !.region[SlabOf(i)] = r]
create_node(b, r) == NodeAt(b, r, FirstBit(b))

insert_node(b, depth, slab) ==
  [b EXCEPT !.lists[depth] = insert_after(@, lower_bound(b, @, b.region[slab]), slab)]

CreateAndInsert(b, depth, r) == insert_node(create_node(b, r), depth, SlabOf(FirstBit(b)))

remove_node(b, m) ==
  [clear_bit(b, BitOf(SlabAt(b, m))) EXCEPT !.lists[m[1]] = Without(@, m[2])]

find_free_pages(b, n, alignment) ==
  FirstMatch(b, Depth(n), LAMBDA r : Fits(r, n) /\ AlignedTo(r, alignment))

find_free_region(b, region) ==
  FirstMatch(b, Depth(region.length), LAMBDA r : Contains(r, region))

\* One halving of region s.region, whose remainder joins list d.  The first half that is
\* wanted is kept; nothing more is done if neither is, or without a node.
Halve(s, d, wanted) ==
  LET halves == Halves(s.region)
      Keep(i) ==
        [b |-> CreateAndInsert(s.b, d, halves[3 - i]),
         region |-> halves[i], depth |-> d, stopped |-> FALSE]
  IN  IF s.stopped \/ (halves[1] \notin wanted /\ halves[2] \notin wanted)
      THEN [s EXCEPT !.stopped = TRUE]
      ELSE IF FreeBits(s.b) = {} THEN [s EXCEPT !.stopped = TRUE, !.depth = d]
      ELSE Keep(IF halves[1] \in wanted THEN 1 ELSE 2)

\* Halving from the list of the region down to list end.
Trim(b, r, end, wanted) ==
  LET start == Depth(r.length)
      trimmed[d \in end .. start] ==
        IF d = start THEN [b |-> b, region |-> r, depth |-> start, stopped |-> FALSE]
        ELSE Halve(trimmed[d + 1], d, wanted)
  IN  trimmed[end]

\* remove_and_trim_pages: keep the left half.
remove_and_trim_pages(b, m, n) ==
  LET Taken(r, t) ==
        [b |-> t.b, region |-> t.region, cost |-> (Depth(r.length) - t.depth) * SplitCost]
      TrimFrom(r) ==
        Taken(r, Trim(remove_node(b, m), r, Depth(align_up_to_power(n)), Regions))
  IN  TrimFrom(RegionAt(b, m))

\* remove_and_trim_region: keep the half that has the region.  It is charged 0, or less
\* than 0 when trimming stopped early, and that wraps around.
remove_and_trim_region(b, m, region) ==
  LET end == Depth(region.length)
      Taken(t) ==
        [b |-> t.b, region |-> t.region, cost |-> ((end - t.depth) * SplitCost) % SizeModulus]
  IN  Taken(Trim(remove_node(b, m), RegionAt(b, m), end,
                  {half \in Regions : Contains(half, region)}))

Nothing(b) == [b |-> b, region |-> NoRegion, cost |-> 0]

backend_allocate(b, n, alignment) ==
  LET Take(found) ==
        IF found = {} THEN Nothing(b)
        ELSE remove_and_trim_pages(b, CHOOSE m \in found : TRUE, n)
  IN  Take(find_free_pages(b, n, alignment))

backend_reserve(b, region) ==
  LET Take(found) ==
        IF found = {} THEN Nothing(b)
        ELSE remove_and_trim_region(b, CHOOSE m \in found : TRUE, region)
  IN  Take(find_free_region(b, region))

\* free_region: without a node the region is gone.  Regions are never joined.
free_region(b, r) ==
  IF r.length = 0 \/ FreeBits(b) = {} THEN b
  ELSE CreateAndInsert(b, Depth(r.length), r)
-----------------------------------------------------------------------------
(***************************************************************************)
(* PageBroker.  The runway is counted in bytes, and what is asked for when *)
(* it is short is c_required_runway_in_pages pages, which nobody uses.     *)
(***************************************************************************)
Charged(b, amount) == [b EXCEPT !.runway = (@ - amount) % SizeModulus]

\* allocate_required_runway.
MoreRunway(b) ==
  LET Counted(got) ==
        [b |-> Charged(got.b, got.cost - got.region.length * PageSize),
         region |-> got.region]
  IN  Counted(backend_allocate(b, c_required_runway_in_pages, 1))

\* What the broker asks the backend with, and the region taken as runway.
IsShort(b) == b.runway < c_required_runway
Ready(b) == IF IsShort(b) THEN MoreRunway(b) ELSE [b |-> b, region |-> NoRegion]

\* What allocate and reserve_region return: the broker, the region for the caller, and
\* the region taken as runway.  The backend is not asked without a runway.
Brokered(b, Ask(_)) ==
  LET Answer(ready, got) ==
        [b |-> Charged(got.b, got.cost), region |-> got.region, runway |-> ready.region]
      AskWith(ready) ==
        IF IsShort(b) /\ ready.region = NoRegion
        THEN [b |-> b, region |-> NoRegion, runway |-> NoRegion]
        ELSE Answer(ready, Ask(ready.b))
  IN  AskWith(Ready(b))

allocate(b, n, alignment) == Brokered(b, LAMBDA x : backend_allocate(x, n, alignment))
reserve_region(b, region) == Brokered(b, LAMBDA x : backend_reserve(x, region))

\* init, with so many pages of scratch memory.
NewBroker(region, scratch) ==
  LET slabs == c_slabs_per_page * SlabPagesAdded(scratch, TRUE)
  IN  free_region([bits |-> {}, slabs |-> IF slabs > MaxSlabs THEN MaxSlabs ELSE slabs,
                   region |-> [slab \in SlabSet |-> NoRegion],
                   lists |-> [d \in Depths |-> <<>>],
                   runway |-> (scratch * PageSize - NodeCost) % SizeModulus],
                  region)
-----------------------------------------------------------------------------
(***************************************************************************)
(* What makes a broker well-formed.                                        *)
(***************************************************************************)
\* The node allocator and the lists agree: a slab that is marked is one node of one
\* list, and a list has no other nodes.
NodesAreInLists(b) ==
  /\ {SlabAt(b, m) : m \in Places(b)} = {SlabOf(i) : i \in b.bits}
  /\ \A m, k \in Places(b) : SlabAt(b, m) = SlabAt(b, k) => m = k

\* A list has the regions of its length, and as long as only such regions are added,
\* they start at a multiple of it.
ListsFitRegions(b) ==
  \A m \in Places(b) :
    LET r == RegionAt(b, m)
    IN  r.length = page_length_from_depth[m[1]] /\ r.offset % r.length = 0
=============================================================================
