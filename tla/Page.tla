-------------------------------- MODULE Page --------------------------------
(***************************************************************************)
(* Regions of pages (pine/page.hpp) and powers of two (pine/twomath.hpp),  *)
(* as the page allocator and the containers use them.                      *)
(***************************************************************************)
EXTENDS Integers

CONSTANT PageSize  \* bytes of a page

ASSUME PageAssumption == PageSize \in Nat \ {0}

Region(offset, length) == [offset |-> offset, length |-> length]
Regions == [offset : Nat, length : Nat]
NoRegion == Region(0, 0)
EndOffset(r) == r.offset + r.length
PagesOf(r) == r.offset .. EndOffset(r) - 1

Fits(r, n) == r.length >= n
AlignedTo(r, a) == r.offset % a = 0

Contains(r, other) == r.offset <= other.offset /\ EndOffset(r) >= EndOffset(other)

\* Mutant: the remainder starts one page too early.
HalvesOverlap(r) ==
  LET half == r.length \div 2
  IN  <<Region(r.offset, half), Region(r.offset + half - 1, half + (r.length % 2))>>

Halves(r) ==
  LET half == r.length \div 2
  IN  <<Region(r.offset, half), Region(r.offset + half, half + (r.length % 2))>>

page_length_from_depth[depth \in Nat] ==
  IF depth = 0 THEN 1 ELSE 2 * page_length_from_depth[depth - 1]

\* depth_from_page_length: one less than the bit width.
Depth(n) ==
  IF n = 0 THEN 0
  ELSE CHOOSE d \in 0 .. n :
         page_length_from_depth[d] <= n /\ n < page_length_from_depth[d + 1]

\* Mutant: down instead of up.
align_up_to_powerDown(n) == page_length_from_depth[Depth(n)]

align_up_to_power(n) ==
  IF n = 0 THEN 1
  ELSE IF n = page_length_from_depth[Depth(n)] THEN n ELSE page_length_from_depth[Depth(n) + 1]
=============================================================================
