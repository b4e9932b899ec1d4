------------------------------ MODULE FreeList ------------------------------
(***************************************************************************)
(* The allocator of kernel and user tasks: IntrusiveFreeList, bound to the *)
(* allocator it gets its memory from (pine/malloc.cpp, malloc.hpp).        *)
(*                                                                         *)
(* All memory the list was ever given is divided into nodes: a header, and *)
(* behind it the bytes the header counts.  A node is named by the address  *)
(* of its header.  Free nodes are linked in the order in which they became *)
(* free; allocation takes the first that is large enough and splits it.    *)
(* The list is never used by an interrupt handler, and only one task of    *)
(* the kernel makes system calls, so an operation is one step.             *)
(***************************************************************************)
EXTENDS Integers, Sequences

CONSTANTS
  Header,         \* sizeof(HeaderNode)
  Alignment,
  PageSize,
  MemSize,        \* bytes the fallback allocator has
  FixedFallback,  \* TRUE: it is FixedAllocation (kernel); FALSE: a task's heap
  Requests        \* sizes that are asked for

ASSUME FreeListAssumption ==
  /\ Alignment \in Nat \ {0}
  /\ Header \in Nat \ {0} /\ Header % Alignment = 0
  /\ PageSize \in Nat \ {0} /\ PageSize % Alignment = 0
  /\ MemSize \in Nat \ {0} /\ MemSize % Alignment = 0
  /\ FixedFallback \in BOOLEAN
  /\ Requests \subseteq Nat

\* Addresses count from the start of the fallback allocator's memory.
Addresses == 0 .. MemSize

VARIABLES
  m_free_list,  \* the free nodes in list order
  size,         \* size in the header of a node; 0 where there is none
  allocated,    \* nodes in the hands of the callers
  watermark     \* bytes taken from the fallback allocator

vars == <<m_free_list, size, allocated, watermark>>

align_down_two(v, a) == v - (v % a)
align_up_two(v, a) == IF v = 0 THEN a ELSE align_down_two(v + a - 1, a)

min_allocation_size(n) == align_up_two(n, Alignment) + Header
preferred_size(n) == align_up_two(min_allocation_size(n), PageSize)

Range(list) == {list[i] : i \in DOMAIN list}
FreeNodes == Range(m_free_list)
Nodes == FreeNodes \cup allocated

\* Where the user's bytes start, and where they end.
to_user_ptr(a) == a + Header
EndOf(a, sz) == to_user_ptr(a) + sz[a]

\* ManualLinkedList::remove
RemoveNode(list, a) ==
  LET i == CHOOSE i \in DOMAIN list : list[i] = a
  IN  [k \in 1 .. Len(list) - 1 |-> IF k < i THEN list[k] ELSE list[k + 1]]
-----------------------------------------------------------------------------
(***************************************************************************)
(* Allocation.                                                             *)
(***************************************************************************)
\* What find_if finds: the first node of the list that is large enough.
FirstFit(list, sz, n) ==
  {list[i] : i \in {i \in DOMAIN list :
     sz[list[i]] >= n /\ \A h \in 1 .. i - 1 : sz[list[h]] < n}}

\* Mutant of split: the new node is not charged for its header.
splitUncharged(list, sz, a, n) ==
  LET remaining == align_down_two(sz[a] - n, Alignment)
      kept == sz[a] - remaining
      new == to_user_ptr(a) + kept
  IN
  IF remaining > min_allocation_size(Alignment)
  THEN /\ m_free_list' = RemoveNode(Append(list, new), a)
       /\ size' = [sz EXCEPT ![a] = kept, ![new] = remaining]
  ELSE /\ m_free_list' = RemoveNode(list, a)
       /\ size' = sz

\* Take node a out of the list.  If enough of it is left to be worth it, what is left
\* becomes a node of its own at the end of the list.
split(list, sz, a, n) ==
  LET remaining == align_down_two(sz[a] - n, Alignment)
      kept == sz[a] - remaining
      new == to_user_ptr(a) + kept
  IN
  IF remaining > min_allocation_size(Alignment)
  THEN /\ m_free_list' = RemoveNode(Append(list, new), a)
       /\ size' = [sz EXCEPT ![a] = kept, ![new] = remaining - Header]
  ELSE /\ m_free_list' = RemoveNode(list, a)
       /\ size' = sz

\* IntrusiveFreeList::allocate, when some node is large enough.
allocate_from(list, sz, n) ==
  \E a \in FirstFit(list, sz, n) :
    /\ split(list, sz, a, n)
    /\ allocated' = allocated \cup {a}

\* FixedAllocation gives all its memory at once, once.
FixedAllocate(n) ==
  IF watermark = 0 /\ n <= MemSize THEN {MemSize} ELSE {}

\* A task's heap moves its high watermark, by HeapExtender and sbrk.
WatermarkAllocate(n) ==
  IF watermark + n <= MemSize THEN {n} ELSE {}

\* How much the fallback allocator gives for n bytes; it starts at the watermark.
FallbackAllocate(n) ==
  IF FixedFallback THEN FixedAllocate(n) ELSE WatermarkAllocate(n)

\* FallbackAllocatorBinder::allocate: from the list if possible ...
AllocateFromList(n) ==
  /\ allocate_from(m_free_list, size, n)
  /\ UNCHANGED watermark

\* ... or from the list once it has got more memory.  The second allocate finds at
\* least the new node, which was made large enough by preferred_size.
AllocateFromFallback(n) ==
  /\ FirstFit(m_free_list, size, n) = {}
  /\ \E given \in FallbackAllocate(preferred_size(n)) :
       /\ watermark' = watermark + given
       /\ allocate_from(Append(m_free_list, watermark),
                        [size EXCEPT ![watermark] = given - Header], n)

\* ... or the caller gets a null pointer.
AllocateFails(n) ==
  /\ FirstFit(m_free_list, size, n) = {}
  /\ FallbackAllocate(preferred_size(n)) = {}
  /\ UNCHANGED vars
-----------------------------------------------------------------------------
(***************************************************************************)
(* Giving back.                                                            *)
(***************************************************************************)
are_nodes_contiguous(left, right) == EndOf(left, size) = right

\* try_find_neighboring_memory_nodes: at most one on each side, since nodes do not
\* overlap.
LeftNodes(a) == {f \in FreeNodes : f < a /\ are_nodes_contiguous(f, a)}
RightNodes(a) == {f \in FreeNodes : f > a /\ are_nodes_contiguous(a, f)}

\* The left node gets the bytes of the right one, but not those of its header.  What
\* the header that is absorbed still says is never read again.
adopt_right_node_size(sz, left, right) ==
  [sz EXCEPT ![left] = @ + sz[right], ![right] = 0]

\* Mutants of free: the node on the right is adopted but stays in the list; it is not
\* looked for.
freeKeepsRight(a) ==
  LET left == LeftNodes(a)
      right == RightNodes(a)
      node == IF left = {} THEN a ELSE CHOOSE f \in left : TRUE
      adopted == IF left = {} THEN size ELSE adopt_right_node_size(size, node, a)
      r == CHOOSE f \in right : TRUE
  IN
  /\ a \in allocated
  /\ allocated' = allocated \ {a}
  /\ size' = IF right = {} THEN adopted
             ELSE [adopted EXCEPT ![node] = @ + adopted[r]]
  /\ m_free_list' = IF left = {} THEN Append(m_free_list, a) ELSE m_free_list
  /\ UNCHANGED watermark
freeLeftOnly(a) ==
  LET left == LeftNodes(a)
  IN
  /\ a \in allocated
  /\ allocated' = allocated \ {a}
  /\ size' = IF left = {} THEN size
             ELSE adopt_right_node_size(size, CHOOSE f \in left : TRUE, a)
  /\ m_free_list' = IF left = {} THEN Append(m_free_list, a) ELSE m_free_list
  /\ UNCHANGED watermark

\* IntrusiveFreeList::free: the left neighbour adopts the node, and whoever has it
\* adopts the right neighbour; only a node that was not adopted joins the list.
free(a) ==
  LET left == LeftNodes(a)
      right == RightNodes(a)
      node == IF left = {} THEN a ELSE CHOOSE f \in left : TRUE
      adopted == IF left = {} THEN size ELSE adopt_right_node_size(size, node, a)
      r == CHOOSE f \in right : TRUE
      list == IF right = {} THEN m_free_list ELSE RemoveNode(m_free_list, r)
  IN
  /\ a \in allocated
  /\ allocated' = allocated \ {a}
  /\ size' = IF right = {} THEN adopted ELSE adopt_right_node_size(adopted, node, r)
  /\ m_free_list' = IF left = {} THEN Append(list, a) ELSE list
  /\ UNCHANGED watermark
-----------------------------------------------------------------------------
Init ==
  /\ m_free_list = <<>>
  /\ size = [a \in Addresses |-> 0]
  /\ allocated = {}
  /\ watermark = 0

\* Callers give back what they were given, once.
Next ==
  \/ \E n \in Requests :
       AllocateFromList(n) \/ AllocateFromFallback(n) \/ AllocateFails(n)
  \/ \E a \in allocated : free(a)

Spec == Init /\ [][Next]_vars
-----------------------------------------------------------------------------
TypeOK ==
  /\ m_free_list \in Seq(Addresses)
  /\ size \in [Addresses -> 0 .. MemSize]
  /\ allocated \subseteq Addresses
  /\ watermark \in 0 .. MemSize

\* A node is in the list at most once, and never while a caller has it.
ListIsSet ==
  /\ \A i, j \in DOMAIN m_free_list : m_free_list[i] = m_free_list[j] => i = j
  /\ FreeNodes \cap allocated = {}

\* Nodes lie in the memory that the fallback allocator gave, and a node ends before the
\* next begins: no caller can overwrite a header or another caller's bytes.
NodesDisjoint ==
  /\ \A a \in Nodes : EndOf(a, size) <= watermark
  /\ \A a, b \in Nodes : a < b => EndOf(a, size) <= b

\* Headers and user pointers are aligned: "Use padding in struct to ensure alignment"
\* (malloc.hpp).  allocate rounds what is left and so what it keeps.
NodesAligned ==
  \A a \in Nodes : a % Alignment = 0 /\ size[a] % Alignment = 0

\* The inductive invariant.
FreeListInv ==
  /\ TypeOK
  /\ ListIsSet
  /\ NodesDisjoint
  /\ NodesAligned
  /\ watermark % Alignment = 0

\* free leaves no two free nodes side by side, on whichever side its neighbours are and
\* in whatever order blocks come back.  The kernel's memory is one region; a task's heap
\* grows by regions, which add does not join to the node in front of them.
Coalesced ==
  FixedFallback =>
    \A a, b \in FreeNodes : ~are_nodes_contiguous(a, b)

Blocks == {[ptr |-> to_user_ptr(a), size |-> size[a]] : a \in allocated}

\* Callers see an allocator, wherever nodes were split and joined behind their blocks.
A == INSTANCE Allocator WITH heap <- watermark, blocks <- Blocks
ImplementsAllocator == A!Spec
=============================================================================
