-------------------------------- MODULE Mmu ---------------------------------
(***************************************************************************)
(* The page tables of the AArch32 kernel (kernel/arch/aarch32/mmu.cpp,     *)
(* mmu.hpp): how they are set up at boot, and mmu::PageAllocator, which    *)
(* takes physical and virtual pages from a broker each and records them.   *)
(*                                                                         *)
(* The MMU is on when pages are asked for, and only one task runs in the   *)
(* kernel, so an operation is one step.  panic() never returns.            *)
(***************************************************************************)
EXTENDS PageAllocator

CONSTANTS
  SectionPages,   \* pages of a section: entries of an L2 table
  L1Entries,
  VirtualPages,   \* MEMORY_END_PAGES
  PhysicalPages,  \* PHYSICAL_MEMORY_END_PAGES
  DeviceRegion,   \* sections of the devices: DEVICES_START to DEVICES_END
  CodeSections,   \* how many sections the kernel's code may take
  TablesPerPage,  \* L2 tables in a page
  CallSizes,      \* numbers of pages that are allocated
  Reserved,       \* regions that are reserved, as pairs of a region and a backing
  MaxCalls        \* bound: calls after boot

\* Sections, both memories and the devices' region have a power of two pages.  Devices
\* are outside of physical memory and within the L1 table, and that within virtual memory.
ASSUME MmuAssumption ==
  /\ {L1Entries, TablesPerPage} \subseteq Nat \ {0}
  /\ L1Entries * SectionPages <= VirtualPages
  /\ \A n \in {SectionPages, VirtualPages, PhysicalPages, DeviceRegion.length * SectionPages} :
       \E d \in Depths : n = page_length_from_depth[d]
  /\ DeviceRegion \in Regions /\ DeviceRegion.offset % DeviceRegion.length = 0
  /\ EndOffset(DeviceRegion) <= L1Entries
  /\ PhysicalPages <= DeviceRegion.offset * SectionPages
  /\ CodeSections \subseteq Nat \ {0} /\ CallSizes \subseteq Nat \ {0} /\ MaxCalls \in Nat
  /\ \A r \in Reserved : r[1] \in Regions /\ r[1].length > 0

VARIABLES
  mmu,     \* brokers, tables and the allocator of L2 tables
  code,    \* sections of the code
  handed,  \* pairs of a virtual and a physical page that were returned to callers
  calls

mmuVars == <<mmu, code, handed, calls>>

Fault == [type |-> "Fault"]
Section(base) == [type |-> "Section", base |-> base]
L2Ptr(table) == [type |-> "L2Ptr", table |-> table]
NoPage == -1
NoTable == -1
EmptyTable == [i \in 0 .. SectionPages - 1 |-> NoPage]

\* VirtualAddress::l1_index and l2_index: the index into the L1 table has 10 bits.
l1_index(page) == (page \div SectionPages) % L1Entries
l2_index(page) == page % SectionPages

as_page_region(r) == Region(r.offset * SectionPages, r.length * SectionPages)
divide_up(n, d) == (n + d - 1) \div d
as_sections(r) ==
  Region(r.offset \div SectionPages, divide_up(r.length, SectionPages))

\* One half of the scratch section is for L2 tables; the two brokers share the other.
PageScratch == SectionPages - SectionPages \div 2
BrokerScratch == (SectionPages \div 2) \div 2

Entries == {Fault} \cup [type : {"Section"}, base : Nat] \cup [type : {"L2Ptr"}, table : Nat]
Tables == 0 .. TablesPerPage * PageScratch - 1

\* Brokers, tables and the allocator of L2 tables.  That tables have run out, or a region
\* could not be recorded, is remembered in exhausted.
Machines ==
  [phys : Brokers, virt : Brokers, l1 : [0 .. L1Entries - 1 -> Entries],
   tables : [Tables -> [0 .. SectionPages - 1 -> Nat \cup {NoPage}]],
   l2 : [bits : SUBSET Nat, slabs : Nat], spare : Nat \cup {NoTable},
   exhausted : BOOLEAN, panicked : BOOLEAN]

Panic(m) == [m EXCEPT !.panicked = TRUE]
-----------------------------------------------------------------------------
(***************************************************************************)
(* Recording pages.                                                        *)
(***************************************************************************)
\* try_record_section_in_l1, for regions of sections.
RecordSections(m, phys, virt) ==
  LET l1 == [k \in 0 .. virt.length - 1 |-> (virt.offset + k) % L1Entries]
  IN
  IF phys.length # virt.length THEN [m |-> m, ok |-> FALSE]
  ELSE IF \E k \in DOMAIN l1 : m.l1[l1[k]] # Fault THEN [m |-> Panic(m), ok |-> FALSE]
  ELSE [m |-> [m EXCEPT !.l1 = [i \in DOMAIN @ |->
                 IF \E k \in DOMAIN l1 : l1[k] = i
                 THEN Section(phys.offset + CHOOSE k \in DOMAIN l1 : l1[k] = i)
                 ELSE @[i]]],
        ok |-> TRUE]

\* The inner loop of try_record_page_in_l1: count pages from first on, into one table.
FillTable(m, table, phys, first, count) ==
  LET entries == {l2_index(first + i) : i \in 0 .. count - 1}
      PageFor(e) == phys + CHOOSE i \in 0 .. count - 1 : l2_index(first + i) = e
  IN
  IF \E e \in entries : m.tables[table][e] # NoPage
  THEN Panic(m)
  ELSE [m EXCEPT !.tables[table] = [e \in DOMAIN @ |->
          IF e \in entries THEN PageFor(e) ELSE @[e]]]

\* Mutant: the table is not marked as used.
TakeTableUnmarked(m) ==
  IF FreeBits(m.l2) = {} THEN [m |-> m, table |-> NoTable]
  ELSE [m |-> m, table |-> FirstBit(m.l2)]

\* SlabAllocator<L2Table>::allocate.  A table that the bitmap's word has no bit for is
\* handed out again and again.
TakeTable(m) ==
  IF FreeBits(m.l2) = {} THEN [m |-> m, table |-> NoTable]
  ELSE [m |-> [m EXCEPT !.l2 = set_bit(@, FirstBit(@)),
                        !.exhausted = @ \/ FirstBit(m.l2) >= WordBits],
        table |-> FirstBit(m.l2)]

\* try_reserve_page_unrecorded for one page that is mapped to itself.
ReserveIdentityPage(m) ==
  LET Both(phys, virt) ==
        IF virt.region = NoRegion THEN [m |-> Panic(m), region |-> NoRegion]
        ELSE [m |-> [m EXCEPT !.phys = phys.b, !.virt = virt.b], region |-> phys.region]
      From(phys) ==
        IF phys.region = NoRegion
        THEN [m |-> [m EXCEPT !.phys = phys.b], region |-> NoRegion]
        ELSE Both(phys, reserve_region(m.virt, phys.region))
  IN  From(allocate(m.phys, 1, 1))

\* An answer that remembers that tables have run out.
Exhausted(got) ==
  [m |-> [phys |-> got.m.phys, virt |-> got.m.virt, l1 |-> got.m.l1,
          tables |-> got.m.tables, l2 |-> got.m.l2, spare |-> got.m.spare,
          exhausted |-> TRUE, panicked |-> got.m.panicked],
   table |-> got.table]

\* try_reserve_l2_table_entry: without a slab, what more has for the state.
ReserveTable(more, m) ==
  IF FreeBits(m.l2) # {} THEN TakeTable(m) ELSE Exhausted(more[m])

\* A table that was taken is cleared and linked to.
Linked(got, index) ==
  IF got.table = NoTable THEN got
  ELSE [m |-> [got.m EXCEPT !.tables[got.table] = EmptyTable,
                            !.l1[index] = L2Ptr(got.table)],
        table |-> got.table]

\* Mutant: a table that is there already is made anew.
TableForAnew(more, m, index, backing) ==
  Linked(IF backing # NoTable THEN [m |-> m, table |-> backing] ELSE ReserveTable(more, m),
         index)

\* The table behind an L1 entry, which is made if the entry is a fault.
TableFor(more, m, index, backing) ==
  IF m.l1[index].type = "L2Ptr" THEN [m |-> m, table |-> m.l1[index].table]
  ELSE IF backing # NoTable THEN Linked([m |-> m, table |-> backing], index)
  ELSE Linked(ReserveTable(more, m), index)

\* Mutant: the last L1 entry of a region that is not whole sections is left out.
L1EntriesToWalkDown(length) == length \div SectionPages
L1EntriesToWalk(length) == divide_up(length, SectionPages)

\* The outer loop of try_record_page_in_l1, for L1 entry k of the region.
RecordEntry(more, s, k, phys, virt, backing) ==
  LET first == virt.offset + k * SectionPages
      left == virt.length - k * SectionPages
      fill(got) ==
        IF got.table = NoTable THEN [m |-> got.m, ok |-> FALSE]
        ELSE [m |-> FillTable(got.m, got.table, phys.offset + k * SectionPages, first,
                              IF left < SectionPages THEN left ELSE SectionPages),
              ok |-> TRUE]
  IN  IF s.m.panicked \/ ~s.ok THEN s
      ELSE IF s.m.l1[l1_index(first)].type = "Section" THEN [m |-> Panic(s.m), ok |-> FALSE]
      ELSE fill(TableFor(more, s.m, l1_index(first), backing))

RecordPagesWith(more, m, phys, virt, backing) ==
  LET done[k \in 0 .. L1EntriesToWalk(virt.length)] ==
        IF k = 0 THEN [m |-> m, ok |-> TRUE]
        ELSE RecordEntry(more, done[k - 1], k - 1, phys, virt, backing)
  IN  done[L1EntriesToWalk(virt.length)]

\* The rest of try_reserve_l2_table_entry.  It takes a page and records it, which may need
\* a table itself; the page is then given to the slab allocator, and what that makes of it
\* is SlabPagesAdded.
MoreTables[m \in Machines] ==
  LET Answer(first, second) ==
        [m |-> [second.m EXCEPT !.spare = second.table], table |-> first.table]
      TwoFrom(first) == Answer(first, TakeTable(first.m))
      Added(recorded, pages) ==
        IF ~recorded.ok THEN [m |-> Panic(recorded.m), table |-> NoTable]
        ELSE TwoFrom(TakeTable([recorded.m EXCEPT
               !.l2.slabs = @ + TablesPerPage * SlabPagesAdded(pages, FALSE)]))
      WithPage(page) ==
        IF page.region = NoRegion THEN [m |-> page.m, table |-> NoTable]
        ELSE Added(RecordPagesWith(MoreTables, page.m, page.region, page.region, m.spare),
                   page.region.length)
  IN  WithPage(ReserveIdentityPage(m))

RecordPages(m, phys, virt) == RecordPagesWith(MoreTables, m, phys, virt, NoTable)
-----------------------------------------------------------------------------
(***************************************************************************)
(* Taking pages from both brokers.                                         *)
(***************************************************************************)
Failed(m) == [m |-> m, phys |-> NoRegion, virt |-> NoRegion]

\* What happens when pages could not be recorded: both brokers are given the physical
\* region, and the regions are returned all the same.
Recorded(recorded, phys, virt) ==
  [m |-> IF recorded.ok \/ recorded.m.panicked THEN recorded.m
         ELSE [recorded.m EXCEPT !.phys = free_region(@, phys),
                                 !.virt = free_region(@, phys),
                                 !.exhausted = TRUE],
   phys |-> phys, virt |-> virt]

\* try_reserve_region_unrecorded.
Unrecorded(m, region, backing) ==
  LET Both(virt, phys) ==
        IF phys.region = NoRegion
        THEN Failed([m EXCEPT !.virt = free_region(virt.b, virt.region), !.phys = phys.b])
        ELSE [m |-> [m EXCEPT !.virt = virt.b, !.phys = phys.b],
              phys |-> phys.region, virt |-> virt.region]
      Backed(virt) ==
        IF virt.region = NoRegion THEN Failed([m EXCEPT !.virt = virt.b])
        ELSE IF backing = "Identity" THEN Both(virt, reserve_region(m.phys, virt.region))
        ELSE Both(virt, allocate(m.phys, region.length, 1))
  IN  Backed(reserve_region(m.virt, region))

\* PageAllocator::reserve_section_region.
reserve_section_region(m, sections, backing) ==
  LET Record(got) ==
        IF got.phys = NoRegion THEN got
        ELSE Recorded(RecordSections(got.m, as_sections(got.phys), as_sections(got.virt)),
                      got.phys, got.virt)
  IN  IF m.panicked THEN Failed(m)
      ELSE Record(Unrecorded(m, as_page_region(sections), backing))

\* PageAllocator::reserve_region.
reserve_page_region(m, region, backing) ==
  LET Record(got) ==
        IF got.phys = NoRegion THEN got
        ELSE IF got.phys.length # got.virt.length THEN Failed(Panic(got.m))
        ELSE Recorded(RecordPages(got.m, got.phys, got.virt), got.phys, got.virt)
  IN  Record(Unrecorded(m, region, backing))

\* PageAllocator::allocate, allocate_pages and try_reserve_page_unrecorded: physical
\* pages first, and virtual ones wherever there are some.
allocate_pages(m, n) ==
  LET Both(phys, virt) ==
        IF virt.region = NoRegion
        THEN Failed([m EXCEPT !.virt = virt.b, !.phys = free_region(phys.b, phys.region)])
        ELSE Recorded(RecordPages([m EXCEPT !.phys = phys.b, !.virt = virt.b],
                                  phys.region, virt.region),
                      phys.region, virt.region)
      From(phys) ==
        IF phys.region = NoRegion THEN Failed([m EXCEPT !.phys = phys.b])
        ELSE Both(phys, allocate(m.virt, n, 1))
  IN  From(allocate(m.phys, n, 1))
-----------------------------------------------------------------------------
(***************************************************************************)
(* Boot: init_page_tables.                                                 *)
(***************************************************************************)
CodeRegion(c) == Region(0, c)
L1Region(c) == Region(c, 1)
ScratchRegion(c) == Region(c + 1, 1)

Unmapped ==
  [phys |-> free_region(NewBroker(Region(0, PhysicalPages), BrokerScratch),
                        as_page_region(DeviceRegion)),
   virt |-> NewBroker(Region(0, VirtualPages), BrokerScratch),
   l1 |-> [i \in 0 .. L1Entries - 1 |-> Fault],
   tables |-> [t \in Tables |-> EmptyTable],
   l2 |-> [bits |-> {}, slabs |-> TablesPerPage * SlabPagesAdded(PageScratch, TRUE)],
   spare |-> NoTable, exhausted |-> FALSE, panicked |-> FALSE]

\* Mutant: physical pages for the scratch section come before those of the L1 table.
init_page_tablesSwapped(c) ==
  LET m1 == reserve_section_region(Unmapped, CodeRegion(c), "Identity").m
      m2 == reserve_section_region(m1, ScratchRegion(c), "Mixed").m
      m3 == reserve_section_region(m2, L1Region(c), "Identity").m
  IN  reserve_section_region(m3, DeviceRegion, "Identity").m

init_page_tables(c) ==
  LET m1 == reserve_section_region(Unmapped, CodeRegion(c), "Identity").m
      m2 == reserve_section_region(m1, L1Region(c), "Identity").m
      m3 == reserve_section_region(m2, ScratchRegion(c), "Mixed").m
  IN  reserve_section_region(m3, DeviceRegion, "Identity").m
-----------------------------------------------------------------------------
MmuInit ==
  /\ code \in CodeSections
  /\ mmu = init_page_tables(code)
  /\ handed = {}
  /\ calls = 0

\* What a call returns; nothing is returned after a panic.
HandOver(got) ==
  /\ ~mmu.panicked /\ calls < MaxCalls
  /\ mmu' = got.m
  /\ handed' = IF got.m.panicked THEN handed
               ELSE handed \cup {<<got.virt.offset + i, got.phys.offset + i>> :
                                   i \in 0 .. got.virt.length - 1}
  /\ calls' = calls + 1
  /\ UNCHANGED code

AllocatePages(n) == HandOver(allocate_pages(mmu, n))
ReservePages(region, backing) == HandOver(reserve_page_region(mmu, region, backing))

MmuNext ==
  \/ \E n \in CallSizes : AllocatePages(n)
  \/ \E r \in Reserved : ReservePages(r[1], r[2])

MmuSpec == MmuInit /\ [][MmuNext]_mmuVars
-----------------------------------------------------------------------------
\* The page that the tables translate a virtual page to, as the code reads them.
Walk(m, page) ==
  LET entry == m.l1[l1_index(page)]
  IN  CASE entry.type = "Fault" -> NoPage
        [] entry.type = "Section" -> entry.base * SectionPages + l2_index(page)
        [] entry.type = "L2Ptr" -> m.tables[entry.table][l2_index(page)]

\* Mutant: the field is filled from the upper bits.
HardwareFrameUpper(page) == page \div 4

\* The frame that an L2 entry for a physical page names to the MMU: Page's base_addr.
HardwareFrame(page) == (4 * page) % VirtualPages

BootSections(c) ==
  UNION {PagesOf(r) : r \in {CodeRegion(c), L1Region(c), ScratchRegion(c), DeviceRegion}}

\* The pages that a broker can still give away.
PagesLeft(b) == UNION {PagesOf(RegionAt(b, m)) : m \in Places(b)}

\* The type invariant, and the structure of both brokers.
MmuInv ==
  /\ mmu \in Machines /\ code \in CodeSections /\ calls \in 0 .. MaxCalls
  /\ \A i \in DOMAIN mmu.l1 :
       mmu.l1[i].type = "L2Ptr" => mmu.l1[i].table \in mmu.l2.bits
  /\ NodesAreInLists(mmu.phys) /\ ListsFitRegions(mmu.phys)
  /\ NodesAreInLists(mmu.virt) /\ ListsFitRegions(mmu.virt)

\* Code, L1 table, scratch memory and devices are mapped to themselves, before and after
\* the MMU is turned on, whatever the size of the code.  The scratch section is not asked
\* for as an identity mapping; it relies on both brokers coming to the same section.
BootIsIdentity ==
  ~mmu.panicked =>
    \A s \in BootSections(code), i \in 0 .. SectionPages - 1 :
      Walk(mmu, s * SectionPages + i) = s * SectionPages + i

\* While there are L2 tables, no page is ever found recorded already, which would panic,
\* and pages that a caller got are mapped to the physical pages that were taken for them:
\* the allocator writes them at once.  Without tables both may fail: "Priority is
\* allocation not another space page" (mmu.cpp).
HandedIsMapped ==
  ~mmu.exhausted => ~mmu.panicked /\ \A vp \in handed : Walk(mmu, vp[1]) = vp[2]

\* What the MMU makes of physical pages: no two callers share a frame, and none is the
\* kernel's own or a device's, for physical memory below a quarter of DEVICES_START.
\* An entry's 20 bits are filled from the 22 of l2_base_addr(), so that frames lie four
\* times as far apart as pages, which only this makes harmless.
FramesApart ==
  LET low == {vp \in handed : 4 * vp[2] < DeviceRegion.offset * SectionPages}
  IN
  \A vp \in low :
    /\ HardwareFrame(vp[2]) \div SectionPages \notin BootSections(code)
    /\ \A wq \in low : vp = wq \/ HardwareFrame(vp[2]) # HardwareFrame(wq[2])

\* Callers neither share a physical page nor get one of the kernel's own, which none that
\* is left is either, and no two of their virtual pages are the same to the L1 table, which
\* knows 10 bits of the section.
HandedApart ==
  ~mmu.exhausted =>
    /\ \A p \in PagesLeft(mmu.phys) : p \div SectionPages \notin BootSections(code)
    /\ \A vp \in handed :
         /\ vp[2] \div SectionPages \notin BootSections(code)
         /\ vp[1] < L1Entries * SectionPages
         /\ \A wq \in handed : vp = wq \/ (vp[1] # wq[1] /\ vp[2] # wq[2])
    /\ FramesApart

\* A translation never changes once it is there.
TranslationsStay ==
  [][\A page \in 0 .. L1Entries * SectionPages - 1 :
       Walk(mmu, page) # NoPage => Walk(mmu', page) = Walk(mmu, page)]_mmuVars
=============================================================================
