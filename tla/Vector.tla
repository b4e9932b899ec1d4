------------------------------- MODULE Vector -------------------------------
(***************************************************************************)
(* pine::Vector (pine/vector.hpp): entries in one allocation, moved to a   *)
(* new one when it is too small and when an entry inside is removed.       *)
(* Allocation may fail at any time.                                        *)
(***************************************************************************)
EXTENDS Page, Sequences

Seqs == INSTANCE SequencesExt

CONSTANTS
  Value,        \* what entries hold
  Destroyed,    \* an entry whose destructor has run
  EntrySizes,   \* values of sizeof(Value)
  MinCapacity,  \* least number of entries allocated: 8 in align_capacity
  Slack,        \* bytes an allocation may have more than was asked for
  MaxEntries    \* bound: entries the callers keep in a vector, by size of the entry

ASSUME VectorAssumption ==
  /\ Destroyed \notin Value
  /\ EntrySizes \subseteq Nat \ {0} /\ MinCapacity \in Nat \ {0}
  /\ PageSize >= MinCapacity
  /\ Slack \subseteq Nat /\ MaxEntries \in [EntrySizes -> Nat]

VARIABLES
  m_contents,  \* the entries; m_count is the length
  m_capacity,
  storage,     \* bytes of the allocation that m_contents points to
  entrySize    \* sizeof(Value), which never changes

vectorVars == <<m_contents, m_capacity, storage, entrySize>>

m_count == Len(m_contents)

\* Mutant: no more is asked for than the least.
align_capacityShort(n) == MinCapacity

align_capacity(n) ==
  IF n > PageSize
  THEN ((n + PageSize - 1) \div PageSize) * PageSize
  ELSE Seqs!Max({align_up_to_power(n), MinCapacity})

\* What an allocation of so many entries may return, if it succeeds.
allocated(entries) == {entries * entrySize + s : s \in Slack}
-----------------------------------------------------------------------------
\* The entries are moved to new memory, of which m_capacity becomes the size in bytes.
resize(amount) ==
  \E new_size \in allocated(align_capacity(amount)) :
    /\ storage' = new_size
    /\ m_capacity' = new_size

\* ensure, when it returns true.  When it returns false nothing has changed.
ensure(amount) ==
  IF amount <= m_capacity THEN UNCHANGED <<storage, m_capacity>> ELSE resize(amount)

\* The shell calls ensure by itself; the entries stay.
Ensure(amount) ==
  /\ ensure(amount)
  /\ UNCHANGED <<m_contents, entrySize>>

append(v) ==
  /\ m_count < MaxEntries[entrySize]
  /\ ensure(m_count + 1)
  /\ m_contents' = Append(m_contents, v)
  /\ UNCHANGED entrySize

\* ensure needs memory and there is none.
AllocationFails(amount) ==
  /\ amount > m_capacity
  /\ UNCHANGED vectorVars

\* The last entry is destroyed in place.
RemoveTail ==
  /\ m_count > 0
  /\ m_contents' = Seqs!Front(m_contents)
  /\ UNCHANGED <<m_capacity, storage, entrySize>>

\* The destructor of the entry runs before anything else.
DestroyedAt(index) == [m_contents EXCEPT ![index] = Destroyed]

\* Mutant: the copy starts to skip one entry late.
CopiedWithoutLate(contents, index) ==
  [to \in 1 .. m_count - 1 |-> IF to <= index THEN contents[to] ELSE contents[to + 1]]

\* The loop that copies all entries but one.
CopiedWithout(contents, index) ==
  [to \in 1 .. m_count - 1 |-> IF to < index THEN contents[to] ELSE contents[to + 1]]

\* Any other entry is left out when the others are moved to new memory.
RemoveInside(index) ==
  /\ index < m_count
  /\ m_contents' = CopiedWithout(DestroyedAt(index), index)
  /\ \E new_size \in allocated(align_capacity(m_count - 1)) :
       storage' = new_size /\ m_capacity' = new_size
  /\ UNCHANGED entrySize

\* There is no new memory: the entry is destroyed and counted off, but stays.
RemoveFails(index) ==
  /\ index < m_count
  /\ m_contents' = Seqs!Front(DestroyedAt(index))
  /\ UNCHANGED <<m_capacity, storage, entrySize>>
-----------------------------------------------------------------------------
VectorInit ==
  /\ m_contents = <<>>
  /\ m_capacity = 0
  /\ storage = 0
  /\ entrySize \in EntrySizes

VectorNext ==
  \/ \E v \in Value : append(v)
  \/ \E amount \in 1 .. MaxEntries[entrySize] : Ensure(amount) \/ AllocationFails(amount)
  \/ RemoveTail
  \/ \E index \in 1 .. m_count : RemoveInside(index) \/ RemoveFails(index)

VectorSpec == VectorInit /\ [][VectorNext]_vectorVars
-----------------------------------------------------------------------------
VectorTypeOK ==
  /\ m_contents \in Seq(Value \cup {Destroyed})
  /\ m_capacity \in Nat
  /\ storage \in Nat
  /\ entrySize \in EntrySizes

\* Every entry lies in the memory that was allocated, although removing an entry may
\* move the others to less memory than they had.
EntriesInStorage == m_count * entrySize <= storage

\* "Returns the total capacity for entries" (vector.hpp): so many entries fit.
CapacityIsInEntries == m_capacity * entrySize <= storage

\* Whatever is moved to wherever, a step appends an item, takes one out ("Removes an
\* item at the given index", vector.hpp) or leaves the items alone.  A removal that
\* finds no memory does neither: it has destroyed the item before it asked for memory.
ItemsAreKept ==
  [][ \/ \E v \in Value : m_contents' = Append(m_contents, v)
      \/ \E i \in 1 .. m_count : m_contents' = Seqs!RemoveAt(m_contents, i)
      \/ \E i \in 1 .. m_count :
           m_contents' = Seqs!Front(DestroyedAt(i))
      \/ UNCHANGED m_contents ]_vectorVars
=============================================================================
